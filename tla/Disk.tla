--------------------------------- MODULE Disk ---------------------------------
(***************************************************************************)
(* IDE disks from start-up to a read: the detection of drives              *)
(* (ide_controller.c), their registration as devices (ATA.c, device.c),    *)
(* the mount of "/ata0" (main.c), and ATA_read, which polls the drive's    *)
(* status while the drive works. A drive is known by its position,         *)
(* 2 * Channel + Drive; an IDE controller is in compatibility mode, so     *)
(* that both detections look at the same ports.                            *)
(***************************************************************************)
EXTENDS Integers, Sequences

CONSTANTS Machines,          \* the machines: which drives and controllers there are
          Lbas, Counts,      \* the sectors and numbers of sectors that are asked for
          LbaLimit,          \* 2^24: ata_read_one masks the sector number
          NULL,
          Ahci,              \* the drive of the AHCI driver's device
          Phantom,           \* the drive of a device made from memory behind ide_devices
          Junk               \* words read from a drive that offers none

Positions == 0 .. 3
Channels == {0, 1}
Channel(p) == p \div 2

\* "none" is also a drive of unknown type; a "mute" one never ends IDENTIFY.
Kinds == {"none", "ata", "atapi", "mute"}
Machine == [drive : [Positions -> Kinds], pciIde : BOOLEAN, ahci : BOOLEAN]

Slot == [Reserved : BOOLEAN, Type : {"ata", "atapi"}, drive : Positions]
Device == [id : Nat, drive : Positions \cup {Ahci, Phantom}]
Sector == [drive : Positions, lba : 0 .. LbaLimit - 1]
Requests == [dev : Device, lba : Lbas, n : Counts \cup {1}]

ASSUME DiskAssumption ==
  /\ Machines \subseteq Machine
  /\ Lbas \subseteq Nat /\ 0 \in Lbas
  /\ Counts \subseteq Nat \ {0}
  /\ LbaLimit \in Nat \ {0}
  /\ NULL \notin Device \cup Requests /\ Junk \notin Sector
  /\ Ahci \notin Positions /\ Phantom \notin Positions /\ Ahci # Phantom

VARIABLES
  machine,
  phase,              \* "pci", "detect", "register", "mount", "mounting", "shell",
                      \* "halt" (the loop of main.c), "panic", or "lost" (anything)
  pass, at, count,    \* the detection, its loop over positions, and its local count
  ide_devices, ide_devices_count,
  devices, ata_Device,
  mounted,            \* the device of "/ata0"
  selected, status, lbaRegister,       \* the drives: selection, state, sector registers
  request, step, buf                   \* the read: its arguments, its place, its answer

detection == <<pass, at, count, ide_devices, ide_devices_count>>
registry == <<devices, ata_Device, mounted>>
drives == <<selected, status, lbaRegister>>
reading == <<request, step, buf>>
vars == <<machine, phase, detection, registry, drives, reading>>

ATA_DeviceIndex == IF machine.ahci THEN 33 ELSE 0

EmptySlot == [Reserved |-> FALSE, Type |-> "ata", drive |-> 0]

Init ==
  /\ machine \in Machines
  /\ phase = "pci"
  /\ pass = 0 /\ at = 0 /\ count = 0
  /\ ide_devices = [i \in Positions |-> EmptySlot] /\ ide_devices_count = 0
  /\ devices = <<>> /\ ata_Device = 0 /\ mounted = NULL
  /\ selected = [c \in Channels |-> 0]
  /\ status = [p \in Positions |-> "idle"]
  /\ lbaRegister = [p \in Positions |-> 0]
  /\ request = NULL /\ step = "idle" /\ buf = <<>>

-----------------------------------------------------------------------------
(* Detection *)

\* pciScan: AHCI_init registers its device, and an IDE controller on the bus
\* has its drives detected, which ATA_init does once more.
PciScan ==
  /\ phase = "pci"
  /\ devices' = IF machine.ahci THEN <<[id |-> 32, drive |-> Ahci]>> ELSE <<>>
  /\ pass' = IF machine.pciIde THEN 1 ELSE 2
  /\ phase' = "detect"
  /\ UNCHANGED <<machine, at, count, ide_devices, ide_devices_count, ata_Device, mounted,
                 drives, reading>>

Select(p) == selected' = [selected EXCEPT ![Channel(p)] = p % 2]

\* One turn of the loops of ide_initialize: no drive, or an unknown one.
NoDrive ==
  /\ phase = "detect" /\ at \in Positions
  /\ machine.drive[at] = "none"
  /\ ide_devices' = [ide_devices EXCEPT ![count].Reserved = FALSE]
  /\ at' = at + 1
  /\ Select(at)
  /\ UNCHANGED <<machine, phase, pass, count, ide_devices_count, registry, status, lbaRegister, reading>>

\* A drive. The next slot is taken, not the one of its position. A packet
\* device's identification is read without asking whether it is ready; if
\* it is not, it goes on offering it.
MutTaken == at
Taken == count

Identified(p) == IF machine.drive[p] = "atapi" THEN {"idle", "drq"} ELSE {"idle"}

FoundDrive ==
  /\ phase = "detect" /\ at \in Positions
  /\ machine.drive[at] \in {"ata", "atapi"}
  /\ ide_devices' = [ide_devices EXCEPT ![Taken] =
                       [Reserved |-> TRUE, Type |-> machine.drive[at], drive |-> at]]
  /\ ide_devices_count' = ide_devices_count + 1
  /\ count' = count + 1 /\ at' = at + 1
  /\ Select(at)
  /\ \E s \in Identified(at) : status' = [status EXCEPT ![at] = s]
  /\ UNCHANGED <<machine, phase, pass, registry, lbaRegister, reading>>

\* ide_initialize ends: in pciScan, or in ATA_init, which gives up when it
\* found nothing. ide_devices_count is never set back.
EndDetection ==
  /\ phase = "detect" /\ at = 4
  /\ at' = 0 /\ count' = 0
  /\ pass' = 2
  /\ phase' = IF pass = 1 THEN "detect"
              ELSE IF \E i \in Positions : ide_devices[i].Reserved THEN "register" ELSE "mount"
  /\ UNCHANGED <<machine, ide_devices, ide_devices_count, registry, drives, reading>>

-----------------------------------------------------------------------------
(* Registration and the mount of "/ata0" *)

\* addDevice, called by ATA_init for slot at.
addDevice(drive) ==
  /\ devices' = Append(devices, [id |-> ATA_DeviceIndex + at, drive |-> drive])
  /\ ata_Device' = Len(devices)

MutIsDisk(slot) == slot.Reserved
IsDisk(slot) == slot.Reserved /\ slot.Type = "ata"

\* One turn of the loop of ATA_init, which runs to ide_devices_count; with
\* drives counted twice that is behind the table, where anything may be.
RegisterDrive ==
  /\ phase = "register" /\ at < ide_devices_count
  /\ at' = at + 1
  /\ \/ at \in Positions /\ IsDisk(ide_devices[at]) /\ addDevice(ide_devices[at].drive)
     \/ at \notin Positions /\ addDevice(Phantom)
     \/ (at \in Positions => ~IsDisk(ide_devices[at])) /\ UNCHANGED <<devices, ata_Device>>
  /\ UNCHANGED <<machine, phase, pass, count, ide_devices, ide_devices_count, mounted, drives, reading>>

EndRegistration ==
  /\ phase = "register" /\ at = ide_devices_count
  /\ phase' = "mount"
  /\ UNCHANGED <<machine, detection, registry, drives, reading>>

\* GetDevice: null if there is no device of that index.
GetDevice(i) == IF i < Len(devices) THEN devices[i + 1] ELSE NULL

\* KernelStart. MountDevice refuses the null pointer and the device with id 0.
MutMountable == GetDevice(ata_Device) # NULL
Mountable == LET dev == GetDevice(ata_Device) IN dev # NULL /\ dev.id # 0

WithoutDisk ==
  /\ phase = "mount" /\ ide_devices_count = 0
  /\ phase' = "shell"
  /\ UNCHANGED <<machine, detection, registry, drives, reading>>

Refused ==
  /\ phase = "mount" /\ ide_devices_count > 0 /\ ~Mountable
  /\ phase' = "halt"
  /\ UNCHANGED <<machine, detection, registry, drives, reading>>

\* ATA_read is called: its arguments, and nothing read yet.
Call(dev, lba, n) ==
  /\ request' = [dev |-> dev, lba |-> lba, n |-> n]
  /\ step' = "command" /\ buf' = <<>>

\* FAT_Probe reads the first sector; the AHCI driver's reads are not modelled.
Probe ==
  /\ phase = "mount" /\ ide_devices_count > 0 /\ Mountable
  /\ phase' = "mounting"
  /\ LET dev == GetDevice(ata_Device)
     IN  IF dev.drive = Ahci
         THEN request' = [dev |-> dev, lba |-> 0, n |-> 1] /\ step' = "done" /\ buf' = <<Junk>>
         ELSE Call(dev, 0, 1)
  /\ UNCHANGED <<machine, detection, registry, drives>>

\* FAT_Probe and FAT_Mount succeed, or main.c loops for ever.
EndMount ==
  /\ phase = "mounting" /\ step = "done"
  /\ \/ phase' = "shell" /\ mounted' = request.dev
     \/ phase' = "halt" /\ UNCHANGED mounted
  /\ step' = "idle" /\ request' = NULL /\ buf' = <<>>
  /\ UNCHANGED <<machine, detection, devices, ata_Device, drives>>

-----------------------------------------------------------------------------
(* A read, while the drives work *)

\* The drive ATA_GetIO reaches: priv->drive is a position, but it is taken as
\* the number of a slot. A slot never taken holds zeros.
Target(dev) == ide_devices[dev.drive].drive

\* The shell, or the file system.
Request(dev, lba, n) ==
  /\ phase = "shell" /\ step = "idle"
  /\ dev.drive # Ahci
  /\ Call(dev, lba, n)
  /\ UNCHANGED <<machine, phase, detection, registry, drives>>

\* A phantom's slot lies far behind the table.
WildRead ==
  /\ step = "command" /\ request.dev.drive = Phantom
  /\ phase' = "lost" /\ step' = "idle"
  /\ UNCHANGED <<machine, detection, registry, drives, request, buf>>

\* The registers of the drive are written, the command last. A packet device
\* aborts the command, and nothing happens where there is no drive.
MutAddress(lba) == lba
Address(lba) == lba % LbaLimit

MutCommanded(p) == status[p]
Commanded(p) ==
  CASE machine.drive[p] = "ata" -> "busy"
    [] machine.drive[p] = "atapi" -> "err"
    [] OTHER -> status[p]

SendCommand ==
  /\ step = "command" /\ request.dev.drive # Phantom
  /\ LET p == Target(request.dev)
     IN  /\ Select(p)
         /\ lbaRegister' = [lbaRegister EXCEPT ![p] = Address(request.lba + Len(buf))]
         /\ status' = [status EXCEPT ![p] = Commanded(p)]
  /\ step' = "poll"
  /\ UNCHANGED <<machine, phase, detection, registry, request, buf>>

\* The drive has read the sector, or has failed, or offers data with an error.
Answer(p) ==
  /\ status[p] = "busy"
  /\ \E s \in {"drq", "err", "drq and err"} : status' = [status EXCEPT ![p] = s]
  /\ UNCHANGED <<machine, phase, detection, registry, selected, lbaRegister, reading>>

\* What a status port shows: the state of the selected drive.
Current(c) == 2 * c + selected[c]
Status(c) == status[Current(c)]

\* What a drive offers it offers until it is taken.
Offers(s) == s \in {"drq", "drq and err"}

\* ATA_CheakStatus and ATA_waitBusy, which look at the primary channel.
MutCheakStatus(s) == s # "idle"
ATA_CheakStatus(s) == Offers(s)

PollStatus ==
  /\ step = "poll"
  /\ ATA_CheakStatus(Status(0))
  /\ step' = "check"
  /\ UNCHANGED <<machine, phase, detection, registry, drives, request, buf>>

\* ATA_CheakError, which looks at the drive's own channel.
CheckError ==
  /\ step = "check"
  /\ IF Status(Channel(Target(request.dev))) \in {"err", "drq and err"}
     THEN phase' = "panic" /\ step' = "idle"
     ELSE step' = "data" /\ UNCHANGED phase
  /\ UNCHANGED <<machine, detection, registry, drives, request, buf>>

\* 256 words from the data port, to the next 512 bytes of the buffer.
Words(p) == IF Offers(status[p]) THEN [drive |-> p, lba |-> lbaRegister[p]] ELSE Junk

TakeData ==
  /\ step = "data"
  /\ LET p == Current(Channel(Target(request.dev)))
     IN  /\ buf' = Append(buf, Words(p))
         /\ status' = IF Offers(status[p]) THEN [status EXCEPT ![p] = "idle"] ELSE status
  /\ step' = IF Len(buf) + 1 = request.n THEN "done" ELSE "command"
  /\ UNCHANGED <<machine, phase, detection, registry, selected, lbaRegister, request>>

EndRead ==
  /\ phase = "shell" /\ step = "done"
  /\ step' = "idle" /\ request' = NULL /\ buf' = <<>>
  /\ UNCHANGED <<machine, phase, detection, registry, drives>>

Boot ==
  \/ PciScan \/ NoDrive \/ FoundDrive \/ EndDetection \/ RegisterDrive \/ EndRegistration
  \/ WithoutDisk \/ Refused \/ Probe \/ EndMount

Read == WildRead \/ SendCommand \/ PollStatus \/ CheckError \/ TakeData \/ EndRead

Next ==
  \/ Boot \/ Read
  \/ \E i \in 1 .. Len(devices), lba \in Lbas, n \in Counts : Request(devices[i], lba, n)
  \/ \E p \in Positions : Answer(p)

\* The processor goes on, and a drive ends the command it was given.
Spec ==
  /\ Init /\ [][Next]_vars
  /\ WF_vars(Boot) /\ WF_vars(Read) /\ \A p \in Positions : WF_vars(Answer(p))

-----------------------------------------------------------------------------
(* Properties *)

\* Every variable has its type.
TypeOK ==
  /\ machine \in Machines
  /\ phase \in {"pci", "detect", "register", "mount", "mounting", "shell", "halt", "panic", "lost"}
  /\ pass \in 0 .. 2 /\ at \in 0 .. 8 /\ count \in 0 .. 4
  /\ ide_devices \in [Positions -> Slot] /\ ide_devices_count \in 0 .. 8
  /\ devices \in Seq(Device) /\ ata_Device \in Nat
  /\ mounted \in Device \cup {NULL}
  /\ selected \in [Channels -> {0, 1}]
  /\ status \in [Positions -> {"idle", "busy", "drq", "err", "drq and err"}]
  /\ lbaRegister \in [Positions -> 0 .. LbaLimit - 1]
  /\ request \in Requests \cup {NULL}
  /\ step \in {"idle", "command", "poll", "check", "data", "done"}
  /\ buf \in Seq(Sector \cup {Junk})

IsAta(p) == machine.drive[p] = "ata"
Started == phase \notin {"pci", "detect", "register"}

\* Both detections, the table filled without gaps, and the loop that runs to
\* a count never set back still make one device of each disk and of nothing
\* else, in order and with ids of their own, as long as the count does not
\* lead behind the table.
EachDiskOnce ==
  Started /\ ide_devices_count <= 4 =>
    /\ {devices[k].drive : k \in 1 .. Len(devices)} \ {Ahci} = {p \in Positions : IsAta(p)}
    /\ \A k, l \in 1 .. Len(devices) :
         k < l => /\ devices[k].id < devices[l].id
                  /\ devices[k].drive # Ahci => devices[k].drive < devices[l].drive

\* What is mounted on "/ata0" is the last disk, or the AHCI device if there
\* is no disk; never the disk in the first slot of a machine without AHCI.
BootDisk ==
  mounted # NULL /\ ide_devices_count <= 4 =>
    /\ mounted = devices[Len(devices)]
    /\ mounted.drive = ide_devices[0].drive => machine.ahci

InPlace(dev) == dev.drive \in Positions /\ Target(dev) = dev.drive

\* A disk whose slot has the number of its position, which is so unless a
\* position before it is empty, is read at the sector asked for, as far as
\* 24 bits reach, and block after block, when it stands at the primary
\* channel, whose status is polled. No word is taken before it is offered.
ReadsItsSector ==
  request # NULL /\ InPlace(request.dev) /\ Channel(request.dev.drive) = 0 =>
    \A k \in 1 .. Len(buf) :
      request.lba + k <= LbaLimit =>
        buf[k] = [drive |-> request.dev.drive, lba |-> request.lba + k - 1]

\* The read of such a disk ends, unless the drive reports an error.
ReadsEnd ==
  \A p \in {0, 1} :
    (request # NULL /\ InPlace(request.dev) /\ request.dev.drive = p /\ step = "command")
      ~> (step \in {"done", "idle"} \/ status[p] \in {"err", "drq and err"})
=============================================================================
