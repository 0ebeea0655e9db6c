# BES OS kernel: models and proofs

TLA+ modules of the BES OS kernel (`src/src/kernel`), TLC configurations that
check them on small instances, and TLAPS proofs about all eight modules that model
code. Paths
below are relative to `src/src/kernel` unless they begin with `src/`. Line numbers
for every definition are in `PROJECT.json` under `map`.

## The system

BES OS is a 32-bit kernel with one thread of control: `KernelStart` initialises
the devices, mounts `/ata0` and enters the shell; the shell launches user
programs, one at a time, in ring 3. Concurrency comes from interrupts (timer,
keyboard, disks), which run on top of the shell or of a program and share
variables with it without locks. There is no paging in use, and nothing keeps
state across a reboot except files.

| component | state | operations | who calls it |
|---|---|---|---|
| heap, `allocator/malloc.c` | the chain of block headers, `last_alloc`, `memory_used`, `pheap_desc` | malloc, calloc, realloc, free, pmalloc, pfree | everybody |
| keyboard, `drivers/Keyboard`, `drivers/PS2` | partial scan code, key flags, ring `keycache` with two pointers | IRQ 1 handler; `KeyboardGetKey` | shell, `VFS_Read(stdin)` |
| programs, `task/process.c`, `syscall/`, `arch/i686/isr.c`, `gdt*` | `Process[]`, `nextProcessIndex`, TSS `esp0`, IDT gates, `kernelStack` | launch, system call, exception, exit | shell, programs |
| interrupts, `arch/i686/irq.c`, `i8259.c` | mask, request and in-service registers, `g_IRQHandlers` | register, dispatch, end of interrupt | all drivers |
| timer, `arch/i686/pit.c` | `timer_ticks` | tick, `timer_wait`, `sleep_ms` | IDE and PS/2 drivers |
| VFS, `hal/vfs.c`, `stdio.c` | `mountPoints`, `lastMountId`, `fd_table` | mount, open, close, read, write, seek, readdir | shell, system calls |
| FAT, `fs/fat32/fat32.c` | `FatData` (one global) with the boot sector, the root directory's count and its freed buffer | probe, mount, find, read, write | VFS |
| disks, `drivers/ATA`, `drivers/ide`, `drivers/ahci` | `ide_devices` and its count, `ATA_DeviceIndex`, `ata_Device`; the drives' registers | detect, register, read sectors | start-up, FAT |
| devices, `drivers/device.c` | `devices[]` and its length | add, look up by place or id | drivers, shell |
| shell, `shellFile.c` | `inputBuffer`, `cmdPath`, `buffer` | read a line, run a command | main |
| C library, `stdlib.c`, `string.c`, `time.c` | `strtok`'s place, the environment | pure functions mostly | everybody |
| PCI | | finds the storage controllers | start-up |
| VGA, boot loader, `curses`, `libs`, stubs | | not modelled | |

What ties them together: a mount point's name is a pointer into the shell's
line buffer; the keyboard's ring is a heap block; a program's return goes
through the process table, the IDT and the TSS; the timer's counter is shared
by its handler and everybody who waits; path resolution goes through mount
points to FAT, whose every lookup reads sectors through the device table; FAT's
temporary buffers share the heap with the directory it is reading; all of them
stop when malloc panics.

What is hard: interrupts between any two accesses of the code they interrupt;
long legal call sequences on the heap, on the process table and on the
descriptor table; limits that are not tested (ring, mount table, heap); values
read later than they were valid (mount names, nodes, key flags). `hazards` in
`PROJECT.json` lists them at their lines, with the properties that would catch
them or the reason there is none.

What makes each component correct:

- heap: what is held stays apart, inside the heap, and marked; the walk never
  leaves the chain.
- keyboard: keys come out in order, once, unless the ring was overrun; the byte
  stream never slips; the key flags follow the keys.
- programs: a process is not freed twice, the keyboard is heard until a program
  exits, and what was typed ahead is read after that.
- interrupts and timer: only real lines get a handler, an end of
  interrupt ends the right one, requests are served, waits are long enough and
  end.
- VFS: a descriptor stands for the file it was opened on, on the device its
  path named, until it is closed.
- FAT and its callers: a lookup tells what the slot of that name says, whatever
  lookups came before; the loops that read a file end, with the file's first
  cluster in front (more the code does not promise, see below).
- disks: each disk becomes one device, the right one is mounted as `/ata0`, and a
  read gives the sectors that were asked for and ends.

## Modules

| module | models | composes or implements |
|---|---|---|
| `RegionAllocator` | abstract: byte ranges handed out stay apart | implemented by `Heap` |
| `Heap` | `malloc.c` | `INSTANCE RegionAllocator` |
| `HeapProofs` | proofs about `Heap` | extends `Heap`, `TLAPS` |
| `Keyboard` | PS/2 handler, key state, ring, reader | |
| `KeyboardProofs` | proofs about `Keyboard` | extends `Keyboard`, `TLAPS` |
| `Programs` | launch, calls, exit, the shell's side of it | |
| `ProgramsProofs` | proofs about `Programs` | extends `Programs`, `TLAPS` |
| `DescriptorTable` | abstract: descriptors keep their file | implemented by `Vfs` |
| `Vfs` | `vfs.c`, `lseek`, the shell's mounts | `INSTANCE DescriptorTable` |
| `VfsProofs` | proofs about `Vfs` | extends `Vfs`, `WellFoundedInduction`, `TLAPS` |
| `Interrupts` | both 8259s, IRQ dispatch, timer, start-up | |
| `InterruptsProofs` | proofs about `Interrupts` | extends `Interrupts`, `TLAPS` |
| `Disk` | drive detection, device registry, the boot mount, polled reads | driver composed with the drives |
| `DiskProofs` | proofs about `Disk`: types, reads | extends `Disk`, `TLAPS` |
| `DeviceProofs` | proofs about `Disk`: detection and devices | extends `DiskProofs` |
| `Fat` | probe, mount, lookups slot by slot, in the memory they use | |
| `Loader` | open, the shell's load loop, `fread` | extends `Fat`: the loops composed with the lookups |
| `LoaderProofs` | proofs about `Fat` and `Loader` | extends `Loader`, `TLAPS` |
| `MC...` | constants for TLC | extend the above |

Definitions named `Mut...` are deliberate errors, one for each property; no
specification uses them. They document which mistake each property catches.

### Heap

State: `blocks` is the list of headers in address order with `at`, `status` and
`size`; `last_alloc`, `memory_used` and `pheap_desc` are the C variables; `mode` says
whether the kernel runs, has "panicked" (`panicMSG`), or is "lost". Ghosts: `held`,
the regions callers own, and `pages`. `Malloc` is one of four: `Reuse` the first free
block that is large enough, as it is; cut a `NewBlock` at `last_alloc`;
`OutOfMemory`, a panic; or a `WrappedBlock`. The sum that malloc compares with
`heap_end` is one of 32 bits (`Exhausted`), so a size near 2^32 (the shell's read
command asks for what its argument says, `shellFile.c:243`) passes; `memset` then
clears memory from `last_alloc` to its end and from address 0 on, and the properties
claim nothing more (`Intact`). Callers are well behaved: they free only what they hold,
at most once. `realloc` is malloc; the old block stays taken for ever.
`PfreeEnd` is `pfree(pheap_end)`, which the range test lets through. Payload
bytes are left out. Addresses are numbers with the real header size (8) and the
real four bytes behind each payload.

Run `heap`: heap addresses 16..87 (room for three blocks above that of
`pheap_desc`), two pages, sizes 0, 4, 12, 100 and a calloc of 2x4, words of 128.
That is enough for splitting hairs about reuse (a 12 block serves 4 and
8), exhaustion, panic, a wrap of `memory_used`, and for 100, which is refused or
wraps the limit test, as `last_alloc` stands. Deadlock is off: a panic
stops the kernel. `heap_used` shows the wrap.

### Keyboard

State: `down` and `wire` are the keyboard itself (external): keys held, and bytes
of a scan code still to send; `buffer` is `ps2_first_channel_buffer`;
`keyboard_keys`, `keys_state` (the copy the reader uses), `pressed_keys`,
`capslock`; the ring with its pointers, each entry tagged with the number of the
key (ghost). `Interrupt` is the whole handler for one byte, atomic because
interrupts are off in it. `KeyboardGetKey` is three steps (`Compare`, `Load`,
`Translate`), as the handler may come between any two. `Neighbour` writes into
the part of the ring that lies behind its heap block.

Run `keyboard`: four keys (two letters, a shift, an extended ctrl) and the pause
key, a ring of three entries of which two are inside the block, a list of three
pressed keys, four keys put into the ring. The ring is thus lapped, and the list
loses keys: the loop that makes room in it (`AddPressed`) copies upwards, so that
from the second place on it holds the key that was in the first. Three places show
that; with two the loop would be right. `KeyboardAssumption` leaves out keys whose code is 96 or 97: with the
high bit of a break code these are the prefixes E0 and E1, no keyboard has them,
and the decoder would lose its place. Fairness: a raised interrupt is taken, and the shell calls
`KeyboardGetKey` in an endless loop; a person need not press anything.

### Programs

State: `mode`, where the one thread is; the interrupt flag `INTF`; what `esp0` holds; the lines waiting in the ring; `Process` with the
words in front of it, because `nextProcessIndex` becomes negative; ghosts of
what was freed, typed and launched. "lost" stands for the possible outcomes of
running on a stack, or writing through a pointer, at an unknown address; it is
a choice the model takes beside survival, and a state the properties about a
running system exclude. Between a line and its process lies `LoadProgram`: its
mallocs may panic, `strcat` into the line and `VFS_Readdir` through a structure
nobody has set may overwrite memory, and the loop that reads the file need not end
(`Loader`), so this action has no fairness. `systemExit` switches all gates off and
on again with interrupts off, which no other step can see, so the gate of int 0x80
is not part of the state.

Run `programs`: six lines, each of which launches a program; calls of a
registered number, an unregistered one and 65535. Six launches take the process
index five words in front of the array. Fairness: the kernel's own steps between
interrupts happen; a program need never make a call, and one need not finish loading. Deadlock is off: a panic
halts.

### Vfs

State: `input`, the text that starts at each place of the shell's line; the mount
table, whose locations are pointers into it; `fd_table`; the answer registers
`eax`, `ebx`; `mode`. A path is its first component and the shape of the rest;
what FAT finds is a size. A node is the number of its mount point and a size;
`Wild` is a node read through the null pointer of a mount point that was not
not found. `named` (ghost) is the device whose name the path carried at open.
Two calls write where they should not. `FAT_ReadFile` fills the caller's buffer
with the whole file whatever number of bytes was asked for, and `Sys_Write`
passes `FAT_WriteFile` its arguments in another order; both may end in "lost"
(`MayOverwrite`). So may `VFS_Readdir`, which lets `FAT_ReadDirectory` write
through a pointer to a structure on its stack.

Run `vfs`: two descriptors beyond the four standard ones, two mount slots, two
places in the line, two texts (so that a name can become `/ata0`), two devices,
one size, offsets of one bit (an offset wraps at once). Deadlock is off: a panic
or a lost kernel stops. The mutants show that the cases occur: descriptors run out, mount
slots fill, names collide.

### Interrupts

State: mask, request and in-service registers as sets of lines; the stack of
interrupts being handled; the main thread's place in the start-up script, with
the mask register access of `i686_IRQ_RegisterHandler` split into read and
write. Handlers send an end of interrupt and `i686_IRQ_Handler` sends another, so
both are steps of their own. The 8259s (fixed priority, cascade on line 2,
non-specific end of interrupt) and the devices are external. `ATA_init` passes
the vectors of the disks (46, 47) where lines are expected;
`i686_IRQ_RegisterHandler` refuses them (`Refuse`), so the lines with a handler
are 0, 1 and 12, and the disks are polled.

Run `interrupts`: lines 0, 1, 12, 14, 15; waits of 0, 1 and 2 ticks, any number
of them. `MaxTicks` (3) bounds the ticks counted while the main thread is not
halted; the tick that wakes a halt is always allowed, so the bound never stops a
wait. Deadlock is checked. Fairness: the timer ticks; the handler's steps happen;
an interrupt that can be accepted again and again is; the main thread advances
between interrupts; it stops sleeping some day. The assumption that the timer's handler is
shorter than a tick (2 ms) is in `Raise`.

### Disk

State: `machine` (which drives and controllers there are) is chosen at the
start and never changes. `phase` is the place of start-up. `pass`, `at` and
`count` are the detection, its loop over positions and its local counter;
`ide_devices` and `ide_devices_count` the table and the count that is never set
back; `devices` the registry; `ata_Device` the place of the last disk;
`mounted` what `/ata0` stands for. `selected`, `status` and `lbaRegister` are the
drives (external). `request`, `step` and `buf` are the one read under way: its
arguments, its place in `ata_read_one`, and the sectors taken so far, each known
by drive and number.

Start-up: `PciScan`, then one action for each turn of the detection
(`NoDrive`, `FoundDrive`), which runs twice when an IDE controller is on the bus;
`RegisterDrive` for each slot up to the count, also behind the table, where a
device may be made of anything (`Phantom`); then the mount or the reason there is
none. A read is `SendCommand`, `PollStatus`, `CheckError`, `TakeData` for each
sector. `Answer` is the drive, which may finish between any two of them. A mute
drive, which never ends IDENTIFY, keeps the detection in its loop
(`ide_controller.c:301`): the model stops there too, which is why deadlock is not
checked (as for a panic and the endless loop of `main.c`).

Run `disk`: all machines of four positions, each empty, a disk or a packet
device, the last perhaps mute, with and without IDE on the bus and AHCI; sectors
0 and 1, one or two of them, sector registers of one bit, so that a read crosses
the end of what they hold. Fairness: the processor goes on, and a drive answers
the command it was given.

### Fat and Loader

State of `Fat`: `owner` and `bs` say of which disk the one `FatData` is;
`entryCount` is the root directory's count, to which every call adds again;
`entries` the root directory's buffer, which is freed before it is searched.
`ahead` is what the heap has free in front of that buffer and decides where
`copyPath` (`CopyPlace`), the long name being put together (`Scratched`) and a
cluster's buffer (`Erased`) fall. `step`, `segment`, `i`, `entry` are the call's
place. A slot is a record of kind, name, pieces and cluster; `Text`, `End` and
`Junk` are the path's text seen as a slot, a slot of zeros, and anything.
`Overrun` ends in "lost": junk may be a long name of a negative number of pieces.
`FAT_FindEntry` does not clear `entry` between the parts of a path; in the model
too, a missing name in a directory is answered with the directory.

`Loader` adds who waits (`user`), the node of the file, and the count of the loop.
What `VFS_Read` returns is the truth value of `FAT_ReadFile`, so the loops count
ones, not bytes. `fread` counts in `size_t`: -1 makes the count go up by one
until it has wrapped.

A node's `name` is its path, or `<<>>` for any name that is not absolute, which no
read looks up. Two things lose it. `strtok` has one static place: after a find that
failed before the last part of its path, `vfs_resolve_path` goes on with the parts
that are left, and the node is named by them (`LeftOver`). And every call cuts the
path up and puts it back from `copyPath`, which a subdirectory may have been read
over (`PutBack`; it may also be too long for the name, `CopyIsJunk`). A read takes
whole clusters whatever was asked for; where they do not fit the buffer (`Fits`,
`PastBuffer`), memory behind it is overwritten, and `WriteTooFar` may end in "lost".

Of a file's content only the first cluster is claimed (`held`): `FATREADFAT` reads
sectors counted from the beginning of the disk, not of the FAT, so what
`FAT_NextCluster` takes for the chain is other data (`fat32.c:23` and `:214`).

Run `files`: two disks of different geometry with the same file name in
different slots; a root directory of five slots with a long name of two pieces;
a buffer of six slots, three of them filled by a cluster and three covered by
`copyPath`; counts up to 7, one behind the buffer; words of 0..4. A file is half a
cluster of the first disk, which the shell's buffer holds, and a quarter of one of
the second, which it does not. Mounts and heap
changes may happen before any call, so lookups follow one another with and
without fitting geometry, and with each layout of the heap. Deadlock is off
because "lost" stops. Fairness: the processor goes on with the call under way.
No call need be made, and the heap need not change.

## What the checks show

Passing runs:

| run | properties beyond types |
|---|---|
| `heap` | `ChainUnbroken`, `HeapBelowPages`, `HeldIsTaken`, `PagesAccounted`, and `ImplementsRegions`, the refinement |
| `keyboard` | `DecoderInStep`, `RingKeepsOrder`, `TakenInOrder`, `ShiftHeldIsSeen`, `LatestIsListed`, and `KeysAreTaken` (liveness) |
| `programs` | `ListensUntilExit`, `ProcessesFreedOnce`, and `TypedAheadIsRead` (liveness) |
| `vfs` | `MountTable`, `DescriptorsFindTheirDevice`, `BootMountFirst`, `OneMountPerPlace`, and `ImplementsTable`, the refinement |
| `disk` | `EachDiskOnce`, `BootDisk`, `ReadsItsSector`, and `ReadsEnd` (liveness) |
| `files` | `RootLookups`, `DeepLookups`, and `LoadEnds`, `FreadEnds` (liveness) |
| `interrupts` | `SecondEoiEndsNothing`, `WaitsLongEnough`, and `WaitEnds`, `RequestsAreServed` (liveness) |

Several of these hold under conditions, and the conditions are themselves the
result: they say when this code works. Reads are right for a disk at the primary
channel with no empty position before it (`InPlace`), and within 24 bits;
lookups are right while `FatData` belongs to the disk and the heap spares the
freed directory (`Undisturbed`); the shell's loop ends for a file that was found,
whose node has its path and whose clusters fit the buffer; of the keys that are held
only the latest is sure to be listed (`LatestIsListed`). Each condition was as wide as TLC allowed; without
it the property fails.

Runs that end in a violation, each a disagreement of the code with what the
repository says of it:

- `heap_used`: `memory_used` wraps below zero (`malloc.c:107` against `:45`).
- `programs_stack`: `esp0` does not hold the kernel's stack (`isr.c:61` against
  `gdt.h:63`).
- `vfs_close`: close answers nothing (`vfs.c:664` against `systemcalls.md`).
- `sleep`: `sleep_ms` rounds down (`pit.c:75`, comment and code).
- `cascade`: line 12, the second PS/2 port, is registered and unmasked but never
  served: the cascade line stays masked (`irq.c:85` against `i8259.c:105`).

## What is proved

`HeapProofs` proves, for every heap size, page count and set of requests that
satisfy `HeapAssumption`, the five invariants of run `heap` and the refinement
to `RegionAllocator`. `HeapAssumption` says that the constants are natural
numbers, that the first block fits (mmInit does not panic), and that addresses
of the heap stay below `Word`. Requests may be of any size below it, so the sum of
the limit test may wrap; what is proved is claimed as long as no block was cut that
way (`Intact`).

The invariant is `IInv` (while `Intact`). The properties alone are not inductive: that headers
chain up does not say that two headers are at different addresses, which `free`
needs to clear the right status; that regions lie in taken blocks does not bound
where a block's payload ends. `IInv` therefore adds that addresses
grow along the list (`InOrder`), that every block ends at or below `last_alloc`
(`BelowLast`), and that the first block is that of `pheap_desc` (`DescBlock`).
`InitIInv` and `NextIInv` (one lemma for each way malloc ends, one for free, one
for the pages) give `Invariance`; each theorem follows from a conjunct.
`PfreeEndHitsNoHeader` shows that the byte `pfree(pheap_end)` clears is never a
header: the four bytes behind the payload lie there. That is why the spare bytes
matter; with `Footer` 0 the status of the second block would be cleared, which
mutant `MutFooter` makes TLC find.

The refinement: a step of malloc adds one region; by `RegionsApart` it is apart
from all regions held, because two regions lie in different blocks and blocks do
not overlap.

`VfsProofs` proves the six properties of run `vfs`, for every number of
descriptors, slots, places and devices and every word size that satisfy
`VfsAssumption`. It says that there are more descriptors than the four standard
ones, that `Literal` points outside the shell's line, that device 0 is not the
boot device, that sizes fit into the word, and that `NULL` and `Wild` differ from
what they stand beside.

Here `IInv` is `TypeOK`, `MountTable`, `DescriptorsFindTheirDevice` and
`OneMountPerPlace` together. The device of a descriptor is kept because a mount
never writes to a slot in use; that needs `MountTable` (the slot at `lastMountId`
held nothing). That an opened node leads to the device its path named
(`ResolvedNodes`) needs `MountTable` too: the root node of a slot holds the slot's
number, and `vfs_findDir` keeps it. One step may break `MountTable`, the mount
behind the last slot: the table is then overwritten memory, `mode` is "lost", and
the invariant claims nothing of the slots any more. `BootMountFirst` follows
without induction of its own: slot 0 reads `/ata0` whatever is typed, and the walk
starts there.

The refinement to `DescriptorTable` maps an open descriptor to its node and
offset. Its one hard case is a refusal: the code looks for the first closed
descriptor, the abstract table asks that none be closed. `FreeIsFound` closes the
gap with a least element of the closed descriptors (`WFMin`).

`InterruptsProofs` proves, for every bound on ticks and every set of sleeps that
end within it, the safety properties of run `interrupts`. What makes them
inductive: interrupts are off in handlers, so at most one is handled
(`OneAtATime`), and what is in service is what the handled interrupt and its phase
say (`ServiceInStep`); hence the second end of an interrupt finds nothing left to
end. A line is unmasked only after its handler was stored, and nobody else writes
the mask register between its read and its write (`UnmaskedHaveHandlers`,
`RegistersInStep`). All of that happens before interrupts are enabled
(`main.c:157`), so it is not a property but a step of the proofs
(`InFlightHaveHandlers`). `TicksFit` accounts for a tick that is requested or about to
be counted, and keeps `elapsed` equal to `timer_ticks`.

`KeyboardProofs` proves the six safety properties of run `keyboard` for every set
of keys, every length of the ring and of the list of pressed keys. `InStep` says
that the bytes collected and those still to come are one of a few pairs, by which
the key under way is known; the decoder's property follows, and so does which
flags may lag. `ShiftIsKept` allows for exactly that key. `LatestIsKept` follows the key put into
the ring last through the copying of the list: it is in the first place when it
is added, or was listed before, and only its own release takes it out.
`RingInOrder` speaks of the whole ring, not only of what lies before the reader:
a reader that was lapped after it compared the pointers takes the oldest entry.

`ProgramsProofs` proves the three safety properties of run `programs` for every
number of launches and every set of calls. The counts of lines and launches add
up (`LinesAddUp`, `LaunchesAddUp`: `nextProcessIndex` is minus the number of
exits). `OnlyFirstFreed` is the heart: `killProcess` frees `Process[0]` and clears
another word, yet what it frees is the first program's process once and NULL
after that. `WordsInFront` keeps the memory in front of the array as it was.

`DiskProofs` proves `TypeOK` and `ReadsItsSector` for every set of machines, every
sector and count, and every width of the sector registers. `InTable` bounds the
detection: the slot being filled is never behind the position being looked at, and
the count of both passes is at most four more than this pass's. `Asked` and
`FromTheRegistry` say whose read is under way. `CommandHolds` says that the drive
given the command is the one that is polled, that its registers hold the address,
and that from `check` on it offers the sector until it is taken.

`DeviceProofs` proves `EachDiskOnce` and `BootDisk` for every machine. Both
detections fill the same table from its start and add to `ide_devices_count`, which
is never set back; where that count leads behind the table (above four, excluded by
the properties' premise), nothing is claimed. `Detected` is what holds half-way: the
slots in front of the count are the drives passed, in order, and the slots behind
it, left by the first detection, are of drives still to come. At the end no drive is
still to come, so no slot is left over (`TableComplete`). `RegistryInStep` says that
the devices are those of the slots in front of the one being registered, and
`MountsLast` that `ata_Device` is the last of them.

`LoaderProofs` proves `TypeOK`, `RootLookups` and `DeepLookups` of run `files` for all
disks and directories that satisfy `FatAssumption` and `LoaderAssumption`, all paths,
all sizes of buffer, cluster and word, and whatever mounts, lookups and heap changes
came before. The assumptions say that a directory fills at least one slot and fits
into the buffer (the root directory with an empty slot behind it, a subdirectory
into a cluster) and that the special slots differ from all others. The properties
speak of the end of a lookup only, so the invariant says what the scan has in front
of it. `RootScan`: as long as the heap spares the buffer, it shows the directory,
except perhaps its first slot, which the small block of a long name may have hit;
by then that slot has been passed. A visible slot is still ahead of the scan or is
the one it stopped at (`Sought`): the step over the pieces of a long name does not
jump over it, because `Visible` says that no earlier name reaches so far.
`CountCovers`: the count, to which every call adds, is never smaller than the
directory, so its end is not overlooked. `DeepScan` is the same for a subdirectory
that was read over the root directory; it needs that the last slot found is the
directory's own, and it covers a subdirectory whose cluster is the root's and which
is longer than a cluster: the part behind it is what the buffer held before. The
proof of `DeepLookups` does not use that the boot sector in `FatData` fits when the
call begins (`DeepEnd`): `FAT_GetDir` sets it.

Liveness is out of the prover's reach (below), but not all that it rests on. For
each of these the safe part is proved for every value of the constants: that no
state shuts the awaited step out, or that a number falls with each step.

| liveness, checked by TLC | proved |
|---|---|
| `LoadEnds` | `LookupsComeToAnEnd`: each step of a lookup lowers `Remaining`, or memory is overwritten; `LoadAdvances`: every read of the loop adds to its bytes, keeps the node's path and stays in the buffer; `LoadedIsTheFile`: what it has then begins with the file's first cluster |
| `FreadEnds` | `FreadAdvances`: each call lowers the count, or raises it until it has wrapped |
| `ReadsEnd` | `PollsAWorkingDrive`: the drive polled works or has answered; `ReadsComeToAnEnd`: each step of the loop lowers `Left` |
| `WaitEnds` | `HaltIsWoken`: a halted processor has a tick to come, below the bound too, and can accept it |
| `RequestsAreServed` | `NothingShutsOut`: once they are enabled, between interrupts, a request of the timer can be accepted at once, and one of the keyboard if the timer has none |
| `KeysAreTaken` | `KeysAreDrained`: each load takes one key, and nothing else moves the pointers |

`ReadsFitTheBuffer` is proved beside them: no read takes more sectors than it was
asked for. The premises of these theorems (`Loadable`, `Primary`, and so on) are
those of the liveness properties, or weaker. `PollsAWorkingDrive` needs that what is
read at a position is a disk, not a packet device; `OnlyDisks` is invariant whatever
the count of drives is.

Only model-checked: all liveness (temporal formulas with fairness and ENABLED are out
of the prover's reach here), which for `LoadEnds` and the others above means the step
from the proved parts to the leads-to formula; `TypedAheadIsRead`; and the five
disagreements. Induction over data and RECURSIVE operators are not used: recursion
would cost the SMT backend in every module that reaches it, so the modules use
quantifiers over positions instead.

## What is not modelled, and why

- `FAT_WriteFile`, `FAT_ReadDirectory`: called with wrong arguments, so what they
  do depends on memory outside any state; `Vfs` says that the system may be lost.
  Cluster chains are data, and wrong (above): nothing is claimed of a file beyond
  its first cluster.
- `FAT_GetLfn`'s copy, which has no limit (a name of very many pieces), and the
  index of 8 bits at `fat32.c:392` (a root directory of more than 255 slots): the
  directories of the model are shorter. `strcpy(fullpath, NULL)` at the end of
  `vfs_resolve_path` reads address 0; its result is not used.
- What `realloc` does for the shell's buffer (panic, a wrapped size) is in `Heap`; in
  `Loader` it succeeds. `fs->name` is compared with a `strncmp` of the kernel's own
  that skips bytes (`vfs.c:578`); it lets FAT through.
- `sleep_ms` is only ever called with 1, which is no tick at all; the longer waits of
  `Interrupts` are what the code would do for other callers.
- AHCI command slots, PCI enumeration, initialisation of the PS/2 controller,
  VGA: port and memory-mapped I/O with busy waits, once, and layout. (The PS/2
  controller is initialised with interrupts off, where its timeouts, counted in
  ticks, never expire.)
- Formatting, logging, LEDs (the send is commented out), character tables. The
  layout is chosen when a key is read, not when it was pressed.
- Pure functions of the C library (`qsort`, strings, the environment, the CMOS
  date). `strtok`'s static place matters to paths only, and there it is in `Vfs`
  and `Fat`. `calloc`'s product is a size like any other; arguments that wrap it
  are not among the callers'. The call number 65535 is in `Programs`.
- The shell's other commands: they print, or copy between buffers. `fwrite` is
  `fread`'s loop over a call that `Vfs` models.
- `UmountDevice`, `__find_mount`, `i8259_Mask`, `sys_sleep`, `ide_write_sectors`,
  `memory_allocator.c`, paging: no caller.
- The boot loader, `libs`, `curses`, the stubs (`proc.c`, `signal.c`, `stat.c`,
  `unistd.c`, devfs): runs once, third-party, or empty. `libs` (libcob, GMP) and
  the curses library are most of the lines of the repository; they are vendored
  copies that the kernel's own code does not rely on for any of the above.

## Plan

1. (done) `Heap` with `RegionAllocator`, `Keyboard`, `Programs`, `Vfs` with
   `DescriptorTable`, `Interrupts`, and the proofs of `Heap` and `Vfs`.
2. (done) `Fat`: lookups with their stale entry, the shared `FatData` and the freed
   directory; `Loader`: the transfer loops and their termination.
3. (done) `Disk`: detection, registry, boot mount, polled reads.
4. (done) Proofs of `Interrupts`, `Keyboard`, `Programs`, and of `Disk`'s detection and
   reads.
5. (done) Proofs of `Fat` and `Loader`, and of what the liveness properties rest on.
6. Left: the PS/2 controller's initialisation; pure algorithms (`qsort`, the
   environment, the CMOS date) against reference definitions.
