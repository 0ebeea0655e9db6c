--------------------------------- MODULE Vfs ---------------------------------
(***************************************************************************)
(* The virtual file system, kernel/hal/vfs.c, with the calls of stdio.c    *)
(* and of the shell that reach it: the table of mount points, the          *)
(* resolution of paths to nodes, and the table of file descriptors. One    *)
(* thread runs it: the shell, or the program the shell has launched.       *)
(***************************************************************************)
EXTENDS Integers

CONSTANTS MAX_FILE_HANDLES,  \* 16 in the code
          Slots,             \* 49 in the code: the pointers that fit into the 192 bytes of
                             \* the block of mountPoints and the four behind them
          Offsets,           \* the places in the shell's inputBuffer arguments start at
          Words, BootWord,   \* the texts of locations; BootWord is "/ata0"
          DevIds,            \* the ids of devices; 0 cannot be mounted
          BootDev,           \* the device mounted at start-up
          Sizes,             \* the sizes of files, and what an unset size may hold
          Moves,             \* the offsets lseek is called with
          Word,              \* 2^32: an offset is a uint32_t
          NULL,
          Wild,              \* a pointer to memory nobody allocated
          Literal            \* a pointer to the string constant "/ata0" of main.c

VFS_FD_START == 4            \* below it stdin, stdout, stderr and debug

Fds == 0 .. MAX_FILE_HANDLES - 1
FdArguments == -1 .. MAX_FILE_HANDLES
Ids == 0 .. Slots - 1
Places == 0 .. Word - 1

Node == [mountingPointId : Ids, size : Sizes]
MountPoint == [loc : Offsets \cup {Literal}, dev : DevIds, root_node : Node]

ASSUME VfsAssumption ==
  /\ {MAX_FILE_HANDLES, Slots, Word} \subseteq Nat
  /\ MAX_FILE_HANDLES > VFS_FD_START /\ Slots > 0 /\ Word > 1
  /\ DevIds \subseteq Nat /\ BootDev \in DevIds \ {0}
  /\ BootWord \in Words
  /\ Literal \notin Offsets
  /\ 0 \in Sizes /\ Sizes \subseteq Places
  /\ NULL \notin Node /\ Wild \notin Node /\ NULL \notin MountPoint
  /\ NULL \notin [file : Node \cup {NULL, Wild}, place : Places]
  /\ Moves \subseteq Int

VARIABLES
  input,        \* inputBuffer: the text that starts at each place in it
  mountPoints, lastMountId,
  fd_table,
  eax, ebx,     \* what the last system call left there; ebx: for an open
  mode,         \* "run", "panic" (out of memory), or "lost" (memory overwritten)
  named         \* ghost: the device of the mount point each open named

mountvars == <<mountPoints, lastMountId>>
filevars == <<fd_table, ebx, named>>
vars == <<input, mountvars, filevars, eax, mode>>

RootNode(id) == [mountingPointId |-> id, size |-> 0]

\* VFS_init, and main.c's mount of "/ata0" if there is an IDE device.
Init ==
  /\ input \in [Offsets -> Words]
  /\ \/ /\ mountPoints = [[i \in Ids |-> NULL] EXCEPT ![0] =
                            [loc |-> Literal, dev |-> BootDev, root_node |-> RootNode(0)]]
        /\ lastMountId = 1
     \/ mountPoints = [i \in Ids |-> NULL] /\ lastMountId = 0
  /\ fd_table = [d \in Fds |-> [opened |-> FALSE, node |-> NULL, offset |-> 0]]
  /\ eax = 0 /\ ebx = -1
  /\ mode = "run"
  /\ named = [d \in Fds |-> NULL]

Running == mode = "run"

\* malloc panics when the heap is exhausted; everybody shares it.
OutOfMemory == Running /\ mode' = "panic" /\ UNCHANGED <<input, mountvars, filevars, eax>>

-----------------------------------------------------------------------------
(* Mount points. A location given at the shell is a pointer into           *)
(* inputBuffer, which the next command overwrites.                         *)

TextOf(loc) == IF loc = Literal THEN BootWord ELSE input[loc]

\* ReadLine: whatever was typed.
Command(words) ==
  /\ Running
  /\ input' = words
  /\ UNCHANGED <<mountvars, filevars, eax, mode>>

\* checkMountPoint: whether a mount point shows this text now.
MutCheckMountPoint(word) == \E i \in 0 .. lastMountId - 2 : TextOf(mountPoints[i].loc) = word
checkMountPoint(word) == \E i \in 0 .. lastMountId - 1 : TextOf(mountPoints[i].loc) = word

MutMountId == lastMountId + 1
MountId == lastMountId

\* MountDevice: FAT_Mount may fail on the device. Behind the last slot of
\* mountPoints lies another block of the heap.
MountDevice(dev, loc) ==
  /\ Running
  /\ dev # 0
  /\ ~checkMountPoint(input[loc])
  /\ lastMountId' = lastMountId + 1
  /\ \/ /\ lastMountId \in Ids
        /\ mountPoints' = [mountPoints EXCEPT ![lastMountId] =
                             [loc |-> loc, dev |-> dev, root_node |-> RootNode(MountId)]]
        /\ mode' = mode
     \/ lastMountId \notin Ids /\ mode' = "lost" /\ UNCHANGED mountPoints
  /\ UNCHANGED <<input, filevars, eax>>

\* getMountPoint: the first mount point that shows the text.
MutIsMountPoint(i, word) ==
  /\ i < lastMountId /\ TextOf(mountPoints[i].loc) = word
  /\ \A j \in i + 1 .. lastMountId - 1 : TextOf(mountPoints[j].loc) # word
IsMountPoint(i, word) ==
  /\ i < lastMountId /\ TextOf(mountPoints[i].loc) = word
  /\ \A j \in 0 .. i - 1 : TextOf(mountPoints[j].loc) # word

-----------------------------------------------------------------------------
(* Paths. What matters of one is the first component and whether another   *)
(* follows: "entry" if one does, or if there is neither another nor a      *)
(* slash, when the root directory itself is looked up; "slash" if more     *)
(* slashes than components follow; "bad" if it is not absolute or names    *)
(* nothing.                                                                *)

Path == [word : Words, rest : {"entry", "slash", "bad"}]

\* vfs_findDir makes a node whether the entry is found or not; if not, its
\* size is what the stack held.
MutFindDir(current) == {[mountingPointId |-> 0, size |-> s] : s \in Sizes}
vfs_findDir(current) == {[current EXCEPT !.size = s] : s \in Sizes}

Found(path) == {i \in Ids : IsMountPoint(i, path.word)}

NodesAt(i, path) == IF path.rest = "slash" THEN {mountPoints[i].root_node}
                    ELSE vfs_findDir(mountPoints[i].root_node)

\* vfs_resolve_path: the nodes a path may resolve to, with the device of the
\* mount point. Without one the root node is read through a null pointer.
vfs_resolve_path(path) ==
  IF path.rest = "bad" THEN {[node |-> NULL, dev |-> NULL]}
  ELSE IF Found(path) = {} THEN {[node |-> n, dev |-> NULL] : n \in {NULL, Wild}}
  ELSE UNION {{[node |-> n, dev |-> mountPoints[i].dev] : n \in NodesAt(i, path)} : i \in Found(path)}

\* vfs_findFileDiscriptor: the first free one.
MutIsDescriptor(d) ==
  /\ d >= VFS_FD_START
  /\ \A e \in VFS_FD_START .. d - 1 : fd_table[e].opened
IsDescriptor(d) ==
  /\ d >= VFS_FD_START /\ ~fd_table[d].opened
  /\ \A e \in VFS_FD_START .. d - 1 : fd_table[e].opened

\* EAX still holds the number of the call after a handler that does not set
\* it: 3 for an open and 4 for a close, neither of them an answer.
CallNumber == 3

\* VFS_Open and syscall_Open. A path that resolves to nothing gets a
\* descriptor as well.
VFS_Open(path) ==
  /\ Running
  /\ \E target \in vfs_resolve_path(path) :
       \/ \E d \in Fds :
            /\ IsDescriptor(d)
            /\ fd_table' = [fd_table EXCEPT ![d] =
                              [opened |-> TRUE, node |-> target.node, offset |-> 0]]
            /\ named' = [named EXCEPT ![d] = target.dev]
            /\ ebx' = d
       \/ /\ \A d \in Fds : ~IsDescriptor(d)
          /\ ebx' = -1
          /\ UNCHANGED <<fd_table, named>>
  /\ eax' = CallNumber
  /\ UNCHANGED <<input, mountvars, mode>>

\* The walk from a null mount point may as well end in a fault.
OpenFaults(path) ==
  /\ Running
  /\ path.rest # "bad" /\ Found(path) = {}
  /\ mode' = "lost"
  /\ UNCHANGED <<input, mountvars, filevars, eax>>

-----------------------------------------------------------------------------
(* Files *)

Opened(d) == d \in Fds /\ fd_table[d].opened

\* syscall_Close: VFS_Close; its result goes nowhere.
syscall_Close(d) ==
  /\ Running
  /\ fd_table' = IF Opened(d) THEN [fd_table EXCEPT ![d].opened = FALSE] ELSE fd_table
  /\ eax' = CallNumber
  /\ UNCHANGED <<input, mountvars, ebx, named, mode>>

\* Sys_Read and Sys_Write with a buffer, whether the descriptor is open or
\* not: -1, or the truth value the file system returns. The test of the permissions, which
\* asks for the opposite of what it logs, never fires for a node of
\* vfs_findDir or FAT_GetRoot.
TransferAnswers(d, size) ==
  IF d \notin Fds \/ size = 0 THEN {-1}
  ELSE IF fd_table[d].node = NULL THEN {-1}
  ELSE IF fd_table[d].node = Wild THEN {-1, 0, 1}
  ELSE {0, 1}

\* VFS_Read: a key, which may be none, from stdin.
ReadAnswers(d, size) ==
  IF d = 0 THEN {0, 1} ELSE IF d \in 1 .. VFS_FD_START - 1 THEN {0} ELSE TransferAnswers(d, size)

\* VFS_Write: the count, to the screen or to the debug port.
WriteAnswers(d, size) ==
  IF d = 0 THEN {0} ELSE IF d \in 1 .. VFS_FD_START - 1 THEN {size} ELSE TransferAnswers(d, size)

\* A transfer with a node enters FAT_ReadFile, which fills the buffer with the
\* whole file whatever its size, or FAT_WriteFile, which takes one argument
\* less than Sys_Write passes and finds the size in the place of the device.
MayOverwrite(d, size) == d \in Fds /\ size # 0 /\ d >= VFS_FD_START /\ fd_table[d].node # NULL

\* systemCall_Read and systemCall_Write.
Transfer(d, size) ==
  /\ Running
  /\ eax' \in ReadAnswers(d, size) \cup WriteAnswers(d, size)
  /\ mode' \in {"run"} \cup {m \in {"lost"} : MayOverwrite(d, size)}
  /\ UNCHANGED <<input, mountvars, filevars>>

\* VFS_Readdir of an open descriptor follows its node without asking whether
\* there is one, and calls FAT_ReadDirectory, which reads a cluster to where
\* an uninitialised pointer on the stack shows, and takes the private data of
\* the disk's driver for its own. (strncmp steps two characters in its first
\* argument, so the names differ, and the test that asks for that lets FAT
\* through.) When nothing is overwritten, nothing of a file has changed.
VFS_Readdir(d) ==
  /\ Running
  /\ Opened(d)
  /\ mode' = "lost"
  /\ UNCHANGED <<input, mountvars, filevars, eax>>

\* VFS_GetOffset and VFS_GetSize return an int, and -1 for an error.
Signed(n) == IF n >= Word \div 2 THEN n - Word ELSE n

VFS_GetOffset(d) == IF Opened(d) THEN Signed(fd_table[d].offset) ELSE -1

VFS_GetSize(d) ==
  IF ~Opened(d) THEN {-1}
  ELSE IF fd_table[d].node = NULL THEN {-1}
  ELSE IF fd_table[d].node = Wild THEN {Signed(s) : s \in Sizes}
  ELSE {Signed(fd_table[d].node.size)}

\* The base lseek adds its offset to; it does not look whether it is an error.
Bases(d, whence) ==
  CASE whence = "SEEK_SET" -> {0}
    [] whence = "SEEK_CUR" -> {VFS_GetOffset(d)}
    [] whence = "SEEK_END" -> VFS_GetSize(d)

\* VFS_Seek takes a uint64_t and stores its low word, whatever it is, in any
\* open descriptor.
MutLowWord(n) == n
LowWord(n) == n % Word

lseek(d, whence, offset) ==
  /\ Running
  /\ Opened(d)
  /\ \E base \in Bases(d, whence) :
       fd_table' = [fd_table EXCEPT ![d].offset = LowWord(base + offset)]
  /\ UNCHANGED <<input, mountvars, ebx, named, eax, mode>>

-----------------------------------------------------------------------------

Next ==
  \/ \E words \in [Offsets -> Words] : Command(words)
  \/ \E dev \in DevIds, loc \in Offsets : MountDevice(dev, loc)
  \/ \E path \in Path : VFS_Open(path) \/ OpenFaults(path)
  \/ \E d \in FdArguments :
       \/ syscall_Close(d)
       \/ \E size \in {0, 1} : Transfer(d, size)
       \/ VFS_Readdir(d)
       \/ \E whence \in {"SEEK_SET", "SEEK_CUR", "SEEK_END"}, offset \in Moves :
            lseek(d, whence, offset)
  \/ OutOfMemory

Spec == Init /\ [][Next]_vars

-----------------------------------------------------------------------------
(* Properties *)

FileDescriptor == [opened : BOOLEAN, node : Node \cup {NULL, Wild}, offset : Places]

\* Every variable has its type.
TypeOK ==
  /\ input \in [Offsets -> Words]
  /\ mountPoints \in [Ids -> MountPoint \cup {NULL}]
  /\ lastMountId \in Nat
  /\ fd_table \in [Fds -> FileDescriptor]
  /\ eax \in {-1, 0, 1, CallNumber}
  /\ ebx \in {-1} \cup Fds
  /\ mode \in {"run", "panic", "lost"}
  /\ named \in [Fds -> DevIds \cup {NULL}]

\* The slots below lastMountId are taken and the others are not, as long as
\* the system runs; the root node of each leads back to its slot.
MountTable ==
  mode = "run" =>
    /\ lastMountId <= Slots
    /\ \A i \in Ids :
         IF i < lastMountId
         THEN mountPoints[i] # NULL /\ mountPoints[i].root_node = RootNode(i)
         ELSE mountPoints[i] = NULL

\* A node holds only the number of its mount point, and reads and writes go
\* to the device found there: it is always the device of the mount point the
\* path named when the file was opened, whatever has been mounted, typed,
\* opened and closed since, and although the name of that mount point may
\* read differently now.
DescriptorsFindTheirDevice ==
  \A d \in Fds :
    fd_table[d].node \notin {NULL, Wild} =>
      LET mount == mountPoints[fd_table[d].node.mountingPointId]
      IN  mount # NULL /\ mount.dev = named[d]

\* A location is a pointer into the shell's line, so a mount point may come
\* to read "/ata0" as well; the mount point of start-up is found all the same.
BootMountFirst ==
  mode = "run" /\ mountPoints[0] # NULL /\ mountPoints[0].loc = Literal =>
    \A i \in Ids : IsMountPoint(i, BootWord) <=> i = 0

\* Two mount points never point to the same place in the line, because
\* checkMountPoint sees the text just typed there: so there are at most as
\* many as places, and the one of start-up.
OneMountPerPlace ==
  \A i, j \in Ids : i < j /\ mountPoints[j] # NULL => mountPoints[i].loc # mountPoints[j].loc

\* The descriptors from VFS_FD_START on are a table in which a descriptor is
\* given out when nobody holds it, at offset 0, keeps its node until it is
\* closed, and is refused only when all are held; the four below never are.
Table == INSTANCE DescriptorTable WITH
  Fds <- VFS_FD_START .. MAX_FILE_HANDLES - 1,
  Files <- Node \cup {NULL, Wild},
  NoFile <- NULL,
  table <- [d \in VFS_FD_START .. MAX_FILE_HANDLES - 1 |->
              IF fd_table[d].opened
              THEN [file |-> fd_table[d].node, place |-> fd_table[d].offset] ELSE NULL],
  answer <- ebx

ImplementsTable == Table!TSpec

\* systemcalls.md says of Close: "EAX -1 if error and 0 if good".
CloseReturns ==
  [][\A d \in FdArguments :
       syscall_Close(d) => eax' = IF Opened(d) THEN 0 ELSE -1]_vars
=============================================================================
