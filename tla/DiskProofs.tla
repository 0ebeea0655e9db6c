------------------------------ MODULE DiskProofs ------------------------------
(***************************************************************************)
(* For every set of machines, every sector and count asked for, and every  *)
(* width of the sector registers: the driver stays inside its tables until *)
(* it follows a phantom, and a disk at the primary channel gives back the  *)
(* sectors that were asked for.                                            *)
(***************************************************************************)
EXTENDS Disk, TLAPS

-----------------------------------------------------------------------------
(* The inductive invariant *)

\* The detection never runs past its table, although the count of drives may.
InTable ==
  /\ phase = "pci" => at = 0 /\ count = 0 /\ ide_devices_count = 0
  /\ phase = "detect" => /\ count <= at /\ at <= 4
                         /\ pass = 1 => ide_devices_count <= count
                         /\ ide_devices_count <= 4 + count

\* A read has arguments, and is made when the table is complete.
Asked ==
  /\ step # "idle" => request \in Requests
  /\ request # NULL => phase \in {"mounting", "shell", "panic", "lost"}

\* The reads are of disks: the AHCI driver's are answered at once, and a
\* phantom's never gets as far as a command.
FromTheRegistry ==
  /\ step = "command" => request.dev.drive # Ahci
  /\ step \in {"poll", "check", "data"} => request.dev.drive \in Positions

\* A disk whose slot has its position's number, at the channel whose status
\* is polled.
Primary(dev) == InPlace(dev) /\ Channel(dev.drive) = 0

\* The drive that was given the command is the one that is polled; from then
\* on it offers the sector until it is taken.
CommandHolds ==
  request # NULL /\ Primary(request.dev) =>
    /\ step \in {"poll", "check", "data"} =>
         /\ selected[0] = request.dev.drive
         /\ lbaRegister[request.dev.drive] = Address(request.lba + Len(buf))
    /\ step \in {"check", "data"} => Offers(status[request.dev.drive])

IInv == TypeOK /\ InTable /\ Asked /\ FromTheRegistry /\ CommandHolds /\ ReadsItsSector

-----------------------------------------------------------------------------
(* Places *)

LEMMA OneIsSeq == ASSUME NEW S, NEW x \in S PROVE <<x>> \in Seq(S)
OBVIOUS

LEMMA NoneIsSeq == ASSUME NEW S PROVE <<>> \in Seq(S)
OBVIOUS

LEMMA AppendFacts ==
  ASSUME NEW S, NEW s \in Seq(S), NEW x \in S
  PROVE  /\ Append(s, x) \in Seq(S) /\ Len(s) \in Nat
         /\ Len(Append(s, x)) = Len(s) + 1
         /\ \A k \in 1 .. Len(s) : Append(s, x)[k] = s[k]
         /\ Append(s, x)[Len(s) + 1] = x
OBVIOUS

LEMMA PositionFacts ==
  ASSUME NEW p \in Positions
  PROVE  /\ Channel(p) \in Channels /\ p % 2 \in {0, 1} /\ 2 * Channel(p) + (p % 2) = p
         /\ Channel(p) = 0 => p \in {0, 1} /\ p % 2 = p
<1>1. p = 0 \/ p = 1 \/ p = 2 \/ p = 3
  BY DEF Positions
<1>2. 0 \div 2 = 0 /\ 1 \div 2 = 0 /\ 2 \div 2 = 1 /\ 3 \div 2 = 1
  OBVIOUS
<1>3. 0 % 2 = 0 /\ 1 % 2 = 1 /\ 2 % 2 = 0 /\ 3 % 2 = 1
  OBVIOUS
<1>4. CASE p = 0
  BY <1>2, <1>3, <1>4 DEF Channel, Channels
<1>5. CASE p = 1
  BY <1>2, <1>3, <1>5 DEF Channel, Channels
<1>6. CASE p = 2
  <2>1. Channel(p) = 1 /\ p % 2 = 0
    BY <1>2, <1>3, <1>6 DEF Channel
  <2>2. QED
    BY <1>6, <2>1 DEF Channels
<1>7. CASE p = 3
  <2>1. Channel(p) = 1 /\ p % 2 = 1
    BY <1>2, <1>3, <1>7 DEF Channel
  <2>2. QED
    BY <1>7, <2>1 DEF Channels
<1>8. QED
  BY <1>1, <1>4, <1>5, <1>6, <1>7

LEMMA PrimaryFacts ==
  ASSUME NEW dev, Primary(dev)
  PROVE  /\ dev.drive \in {0, 1} /\ dev.drive \in Positions
         /\ Target(dev) = dev.drive /\ Channel(dev.drive) = 0 /\ dev.drive % 2 = dev.drive
BY PositionFacts DEF Primary, InPlace

LEMMA TargetIsPosition ==
  ASSUME TypeOK, NEW dev \in Device, dev.drive # Phantom, dev.drive # Ahci
  PROVE  dev.drive \in Positions /\ Target(dev) \in Positions
BY DEF TypeOK, Device, Target, Slot

LEMMA AddressFits ==
  ASSUME NEW lba \in Nat
  PROVE  Address(lba) \in 0 .. LbaLimit - 1 /\ (lba < LbaLimit => Address(lba) = lba)
BY DiskAssumption DEF Address

LEMMA Selected ==
  ASSUME TypeOK, NEW p \in Positions, Select(p)
  PROVE  selected' \in [Channels -> {0, 1}] /\ selected'[Channel(p)] = p % 2
BY PositionFacts DEF TypeOK, Select

-----------------------------------------------------------------------------
(* The steps of the start-up, in which nothing is read yet *)

\* Nothing is asked for before the mount.
LEMMA BootAsksNothing ==
  ASSUME IInv, phase \in {"pci", "detect", "register", "mount"}
  PROVE  request = NULL /\ step = "idle"
<1>1. request = NULL
  BY DEF IInv, Asked
<1>2. NULL \notin Requests
  BY DiskAssumption
<1>3. QED
  BY <1>1, <1>2 DEF IInv, Asked

\* The counters of the start-up, as numbers with bounds.
LEMMA Ranges ==
  ASSUME IInv
  PROVE  /\ at \in Nat /\ at <= 8 /\ count \in Nat /\ count <= 4
         /\ ide_devices_count \in Nat /\ ide_devices_count <= 8 /\ pass \in 0 .. 2
<1>1. at \in 0 .. 8 /\ count \in 0 .. 4 /\ ide_devices_count \in 0 .. 8 /\ pass \in 0 .. 2
  BY DEF IInv, TypeOK
<1>2. QED
  BY <1>1

LEMMA Detecting ==
  ASSUME IInv, phase = "detect"
  PROVE  /\ count <= at /\ at <= 4 /\ ide_devices_count <= 4 + count
         /\ pass = 1 => ide_devices_count <= count
BY DEF IInv, InTable

\* The types of the counters, and of everything else.
CountersOK == pass \in 0 .. 2 /\ at \in 0 .. 8 /\ count \in 0 .. 4 /\ ide_devices_count \in 0 .. 8
TablesOK ==
  /\ ide_devices \in [Positions -> Slot]
  /\ devices \in Seq(Device) /\ ata_Device \in Nat
  /\ mounted \in Device \cup {NULL}
DrivesOK ==
  /\ selected \in [Channels -> {0, 1}]
  /\ status \in [Positions -> {"idle", "busy", "drq", "err", "drq and err"}]
  /\ lbaRegister \in [Positions -> 0 .. LbaLimit - 1]
PlacesOK ==
  /\ machine \in Machines
  /\ phase \in {"pci", "detect", "register", "mount", "mounting", "shell", "halt", "panic", "lost"}
  /\ step \in {"idle", "command", "poll", "check", "data", "done"}
ReadingOK == request \in Requests \cup {NULL} /\ buf \in Seq(Sector \cup {Junk})

LEMMA TypeParts == TypeOK <=> PlacesOK /\ CountersOK /\ TablesOK /\ DrivesOK /\ ReadingOK
BY DEF TypeOK, PlacesOK, CountersOK, TablesOK, DrivesOK, ReadingOK

LEMMA TypePartsNext == TypeOK' <=> PlacesOK' /\ CountersOK' /\ TablesOK' /\ DrivesOK' /\ ReadingOK'
BY DEF TypeOK, PlacesOK, CountersOK, TablesOK, DrivesOK, ReadingOK

LEMMA Unmoved ==
  ASSUME TypeOK
  PROVE  /\ UNCHANGED detection => CountersOK'
         /\ UNCHANGED <<pass, at, count, ide_devices_count>> => CountersOK'
         /\ UNCHANGED <<ide_devices, registry>> => TablesOK'
         /\ UNCHANGED drives => DrivesOK'
         /\ UNCHANGED reading => ReadingOK'
         /\ UNCHANGED <<request, buf>> => ReadingOK'
BY TypeParts DEF CountersOK, TablesOK, DrivesOK, ReadingOK, detection, registry, drives, reading

\* Of such a step, what is left to show.
LEMMA BootStep ==
  ASSUME IInv, phase \in {"pci", "detect", "register", "mount"}, UNCHANGED reading, TypeOK', InTable'
  PROVE  IInv'
<1>1. request' = NULL /\ step' = "idle"
  BY BootAsksNothing DEF reading
<1>2. QED
  BY <1>1 DEF IInv, Asked, FromTheRegistry, CommandHolds, ReadsItsSector

LEMMA PciScanKeeps ==
  ASSUME IInv, PciScan
  PROVE  IInv'
<1>1. /\ phase = "pci" /\ phase' = "detect" /\ pass' \in {1, 2}
      /\ devices' = IF machine.ahci THEN <<[id |-> 32, drive |-> Ahci]>> ELSE <<>>
      /\ UNCHANGED <<machine, at, count, ide_devices, ide_devices_count, ata_Device, mounted,
                     drives, reading, step>>
  BY DEF PciScan, reading
<1>2. devices' \in Seq(Device)
  <2>1. [id |-> 32, drive |-> Ahci] \in Device
    BY DEF Device
  <2>2. QED
    BY <1>1, <2>1
<1>3. TypeOK /\ at = 0 /\ count = 0 /\ ide_devices_count = 0
  BY <1>1 DEF IInv, InTable
<1>4. PlacesOK' /\ CountersOK' /\ TablesOK'
  <2>1. PlacesOK'
    BY <1>1, <1>3, TypeParts DEF PlacesOK
  <2>2. CountersOK'
    BY <1>1, <1>3 DEF CountersOK
  <2>3. TablesOK'
    BY <1>1, <1>2, <1>3, TypeParts DEF TablesOK
  <2>4. QED
    BY <2>1, <2>2, <2>3
<1>5. TypeOK'
  BY <1>1, <1>3, <1>4, TypePartsNext, Unmoved
<1>6. InTable'
  BY <1>1, <1>3 DEF InTable
<1>7. QED
  BY <1>1, <1>5, <1>6, BootStep

LEMMA NoDriveKeeps ==
  ASSUME IInv, NoDrive
  PROVE  IInv'
<1>1. /\ phase = "detect" /\ at \in 0 .. 3 /\ at \in Positions /\ at' = at + 1 /\ Select(at)
      /\ ide_devices' = [ide_devices EXCEPT ![count].Reserved = FALSE]
      /\ UNCHANGED <<machine, phase, pass, count, ide_devices_count, devices, ata_Device, mounted,
                     status, lbaRegister, reading, step>>
  BY DEF NoDrive, Positions, registry, reading
<1>2. TypeOK /\ ide_devices \in [Positions -> Slot]
  BY DEF IInv, TypeOK
<1>3. ide_devices' \in [Positions -> Slot]
  <2>1. count \in Positions
    <3>1. count \in Nat /\ at \in Nat /\ at <= 3 /\ count <= at
      BY <1>1, Ranges, Detecting
    <3>2. QED
      BY <3>1 DEF Positions
  <2>2. ide_devices[count] \in Slot
    BY <1>2, <2>1
  <2>3. [ide_devices[count] EXCEPT !.Reserved = FALSE] \in Slot
    BY <2>2 DEF Slot
  <2>4. QED
    BY <1>1, <1>2, <2>1, <2>3
<1>4. CountersOK'
  <2>1. at' \in 0 .. 8
    BY <1>1
  <2>2. QED
    BY <1>1, <1>2, <2>1, TypeParts DEF CountersOK
<1>5. PlacesOK' /\ TablesOK' /\ DrivesOK'
  BY <1>1, <1>2, <1>3, TypeParts, Selected DEF PlacesOK, TablesOK, DrivesOK
<1>6. TypeOK'
  BY <1>1, <1>2, <1>4, <1>5, TypePartsNext, Unmoved
<1>7. InTable'
  <2>1. /\ at \in Nat /\ count \in Nat /\ at <= 3 /\ count <= at
        /\ ide_devices_count <= 4 + count /\ (pass = 1 => ide_devices_count <= count)
    BY <1>1, Ranges, Detecting
  <2>2. phase' = "detect" /\ at' = at + 1 /\ count' = count /\ pass' = pass /\ ide_devices_count' = ide_devices_count
    BY <1>1
  <2>3. count' <= at' /\ at' <= 4
    BY <2>1, <2>2
  <2>4. QED
    BY <2>1, <2>2, <2>3 DEF InTable
<1>8. QED
  BY <1>1, <1>6, <1>7, BootStep

LEMMA FoundDriveKeeps ==
  ASSUME IInv, FoundDrive
  PROVE  IInv'
<1>1. /\ phase = "detect" /\ at \in 0 .. 3 /\ at \in Positions /\ at' = at + 1
      /\ count' = count + 1 /\ Select(at)
      /\ ide_devices_count' = ide_devices_count + 1
      /\ machine.drive[at] \in {"ata", "atapi"}
      /\ ide_devices' = [ide_devices EXCEPT ![count] =
                           [Reserved |-> TRUE, Type |-> machine.drive[at], drive |-> at]]
      /\ UNCHANGED <<machine, phase, pass, devices, ata_Device, mounted, lbaRegister, reading, step>>
  BY DEF FoundDrive, Positions, registry, Taken, reading
<1>2. TypeOK /\ ide_devices \in [Positions -> Slot]
  BY DEF IInv, TypeOK
<1>3. ide_devices' \in [Positions -> Slot]
  <2>1. [Reserved |-> TRUE, Type |-> machine.drive[at], drive |-> at] \in Slot
    BY <1>1 DEF Slot
  <2>2. QED
    BY <1>1, <1>2, <2>1
<1>4. status' \in [Positions -> {"idle", "busy", "drq", "err", "drq and err"}]
  <2>1. PICK s \in Identified(at) : status' = [status EXCEPT ![at] = s]
    BY DEF FoundDrive
  <2>2. s \in {"idle", "drq"}
    BY <2>1 DEF Identified
  <2>3. QED
    BY <2>1, <2>2 DEF IInv, TypeOK
<1>5. /\ at \in Nat /\ count \in Nat /\ ide_devices_count \in Nat /\ at <= 3 /\ count <= at
      /\ ide_devices_count <= 4 + count /\ (pass = 1 => ide_devices_count <= count)
  BY <1>1, Ranges, Detecting
<1>6. CountersOK'
  <2>1. at' \in 0 .. 8 /\ count' \in 0 .. 4
    BY <1>1, <1>5
  <2>2. ide_devices_count' \in 0 .. 8
    BY <1>1, <1>5
  <2>3. QED
    BY <1>1, <2>1, <2>2, Ranges DEF CountersOK
<1>7. PlacesOK' /\ TablesOK' /\ DrivesOK'
  BY <1>1, <1>2, <1>3, <1>4, TypeParts, Selected DEF PlacesOK, TablesOK, DrivesOK
<1>8. TypeOK'
  BY <1>1, <1>2, <1>6, <1>7, TypePartsNext, Unmoved
<1>9. InTable'
  <2>1. phase' = "detect" /\ pass' = pass
    BY <1>1
  <2>2. count' <= at' /\ at' <= 4 /\ ide_devices_count' <= 4 + count'
    BY <1>1, <1>5
  <2>3. pass = 1 => ide_devices_count' <= count'
    BY <1>1, <1>5
  <2>4. QED
    BY <2>1, <2>2, <2>3 DEF InTable
<1>10. QED
  BY <1>1, <1>8, <1>9, BootStep

LEMMA EndDetectionKeeps ==
  ASSUME IInv, EndDetection
  PROVE  IInv'
<1>1. /\ phase = "detect" /\ at' = 0 /\ count' = 0 /\ pass' = 2
      /\ phase' = "detect" => pass = 1
      /\ phase' \in {"detect", "register", "mount"}
      /\ UNCHANGED <<machine, ide_devices, ide_devices_count, registry, drives, reading, step>>
  BY DEF EndDetection, reading
<1>2. TypeOK
  BY DEF IInv
<1>3. PlacesOK' /\ CountersOK'
  BY <1>1, <1>2, TypeParts DEF PlacesOK, CountersOK
<1>4. TypeOK'
  BY <1>1, <1>2, <1>3, TypePartsNext, Unmoved
<1>5. InTable'
  <2>1. pass = 1 => ide_devices_count <= 4
    BY <1>1, Ranges, Detecting
  <2>2. QED
    BY <1>1, <2>1 DEF InTable
<1>6. QED
  BY <1>1, <1>4, <1>5, BootStep

LEMMA RegisterDriveKeeps ==
  ASSUME IInv, RegisterDrive
  PROVE  IInv'
<1>1. /\ phase = "register" /\ at < ide_devices_count /\ at' = at + 1
      /\ UNCHANGED <<machine, phase, pass, count, ide_devices, ide_devices_count, mounted, drives,
                     reading, step>>
  BY DEF RegisterDrive, reading
<1>2. TypeOK /\ devices \in Seq(Device) /\ ata_Device \in Nat /\ ide_devices \in [Positions -> Slot]
  BY DEF IInv, TypeOK
<1>3. at \in Nat /\ at' \in 0 .. 8 /\ ATA_DeviceIndex \in Nat
  <2>1. at \in Nat /\ at' = at + 1 /\ at' <= 8
    BY <1>1, Ranges
  <2>2. QED
    BY <2>1 DEF ATA_DeviceIndex
<1>4. ASSUME NEW drive \in Positions \cup {Ahci, Phantom}, addDevice(drive)
      PROVE  devices' \in Seq(Device) /\ ata_Device' \in Nat
  <2>1. PICK id \in Nat : id = ATA_DeviceIndex + at
    BY <1>3
  <2>2. [id |-> id, drive |-> drive] \in Device
    BY <2>1 DEF Device
  <2>3. devices' = Append(devices, [id |-> id, drive |-> drive]) /\ ata_Device' = Len(devices)
    BY <1>4, <2>1 DEF addDevice
  <2>4. QED
    BY <1>2, <2>2, <2>3
<1>5. devices' \in Seq(Device) /\ ata_Device' \in Nat
  <2>1. CASE at \in Positions /\ addDevice(ide_devices[at].drive)
    <3>1. ide_devices[at].drive \in Positions
      BY <1>2, <2>1 DEF Slot
    <3>2. QED
      BY <1>4, <2>1, <3>1
  <2>2. CASE addDevice(Phantom)
    BY <1>4, <2>2
  <2>3. CASE UNCHANGED <<devices, ata_Device>>
    BY <1>2, <2>3
  <2>4. QED
    BY <2>1, <2>2, <2>3 DEF RegisterDrive
<1>6. PlacesOK' /\ CountersOK' /\ TablesOK'
  BY <1>1, <1>2, <1>3, <1>5, TypeParts DEF PlacesOK, CountersOK, TablesOK
<1>7. TypeOK'
  BY <1>1, <1>2, <1>6, TypePartsNext, Unmoved
<1>8. InTable'
  BY <1>1 DEF InTable
<1>9. QED
  BY <1>1, <1>7, <1>8, BootStep

\* EndRegistration, WithoutDisk, Refused: only the phase changes.
LEMMA PhaseKeeps ==
  ASSUME IInv, EndRegistration \/ WithoutDisk \/ Refused
  PROVE  IInv'
<1>1. /\ phase \in {"register", "mount"} /\ phase' \in {"mount", "shell", "halt"}
      /\ UNCHANGED <<machine, detection, ide_devices, registry, drives, reading, step>>
  BY DEF EndRegistration, WithoutDisk, Refused, detection, reading
<1>2. TypeOK
  BY DEF IInv
<1>3. PlacesOK'
  BY <1>1, <1>2, TypeParts DEF PlacesOK
<1>4. TypeOK'
  BY <1>1, <1>2, <1>3, TypePartsNext, Unmoved
<1>5. InTable'
  BY <1>1 DEF InTable
<1>6. QED
  BY <1>1, <1>4, <1>5, BootStep

LEMMA ProbeKeeps ==
  ASSUME IInv, Probe
  PROVE  IInv'
<1>1. PICK dev : dev = GetDevice(ata_Device)
  OBVIOUS
<1>2. /\ phase = "mount" /\ phase' = "mounting" /\ dev # NULL
      /\ UNCHANGED <<machine, detection, ide_devices, registry, drives>>
      /\ request' = [dev |-> dev, lba |-> 0, n |-> 1]
      /\ step' \in {"done", "command"}
      /\ \/ dev.drive = Ahci /\ step' = "done" /\ buf' = <<Junk>>
         \/ dev.drive # Ahci /\ step' = "command" /\ buf' = <<>>
  BY <1>1 DEF Probe, Call, Mountable, detection
<1>3. TypeOK /\ devices \in Seq(Device) /\ ata_Device \in Nat
  BY DEF IInv, TypeOK
<1>4. dev \in Device
  <2>1. ata_Device < Len(devices) /\ dev = devices[ata_Device + 1]
    BY <1>1, <1>2 DEF GetDevice
  <2>2. ata_Device + 1 \in 1 .. Len(devices)
    BY <1>3, <2>1
  <2>3. QED
    BY <1>3, <2>1, <2>2
<1>5. request' \in Requests
  BY <1>2, <1>4, DiskAssumption DEF Requests
<1>6. buf' \in Seq(Sector \cup {Junk})
  <2>1. CASE buf' = <<Junk>>
    BY <2>1, OneIsSeq
  <2>2. CASE buf' = <<>>
    BY <2>2, NoneIsSeq
  <2>3. QED
    BY <1>2, <2>1, <2>2
<1>7. PlacesOK' /\ ReadingOK'
  BY <1>2, <1>3, <1>5, <1>6, TypeParts DEF PlacesOK, ReadingOK
<1>8. TypeOK'
  BY <1>2, <1>3, <1>7, TypePartsNext, Unmoved
<1>9. InTable' /\ Asked' /\ FromTheRegistry'
  BY <1>2, <1>5 DEF InTable, Asked, FromTheRegistry
<1>10. CommandHolds' /\ ReadsItsSector'
  <2>1. CASE dev.drive = Ahci
    <3>1. request'.dev.drive \notin Positions
      BY <1>2, <2>1, DiskAssumption
    <3>2. QED
      BY <3>1 DEF CommandHolds, ReadsItsSector, Primary, InPlace
  <2>2. CASE step' = "command" /\ buf' = <<>>
    BY <2>2 DEF CommandHolds, ReadsItsSector
  <2>3. QED
    BY <1>2, <2>1, <2>2
<1>11. QED
  BY <1>8, <1>9, <1>10 DEF IInv

\* The mount ends, and with it the read of the first sector.
LEMMA EndMountKeeps ==
  ASSUME IInv, EndMount
  PROVE  IInv'
<1>1. /\ phase = "mounting" /\ phase' \in {"shell", "halt"} /\ step = "done"
      /\ mounted' = request.dev \/ mounted' = mounted
      /\ step' = "idle" /\ request' = NULL /\ buf' = <<>>
      /\ UNCHANGED <<machine, detection, ide_devices, devices, ata_Device, drives>>
  BY DEF EndMount, detection
<1>2. TypeOK /\ request \in Requests /\ mounted \in Device \cup {NULL}
  BY <1>1 DEF IInv, TypeOK, Asked
<1>3. request.dev \in Device
  BY <1>2 DEF Requests
<1>4. PlacesOK' /\ TablesOK' /\ ReadingOK'
  BY <1>1, <1>2, <1>3, TypeParts DEF PlacesOK, TablesOK, ReadingOK
<1>5. TypeOK'
  BY <1>1, <1>2, <1>4, TypePartsNext, Unmoved
<1>6. InTable' /\ Asked' /\ FromTheRegistry' /\ CommandHolds' /\ ReadsItsSector'
  BY <1>1 DEF InTable, Asked, FromTheRegistry, CommandHolds, ReadsItsSector
<1>7. QED
  BY <1>5, <1>6 DEF IInv

-----------------------------------------------------------------------------
(* The steps of a read *)

\* The tables stand still: a disk in its place stays there.
LEMMA SamePlace ==
  ASSUME UNCHANGED ide_devices, NEW dev
  PROVE  /\ Target(dev)' = Target(dev)
         /\ InPlace(dev)' = InPlace(dev)
         /\ Primary(dev)' = Primary(dev)
BY DEF Target, InPlace, Primary

LEMMA RequestKeeps ==
  ASSUME IInv, NEW i \in 1 .. Len(devices), NEW lba \in Lbas, NEW n \in Counts,
         Request(devices[i], lba, n)
  PROVE  IInv'
<1>1. /\ phase = "shell" /\ step' = "command" /\ buf' = <<>> /\ devices[i].drive # Ahci
      /\ request' = [dev |-> devices[i], lba |-> lba, n |-> n]
      /\ UNCHANGED <<machine, phase, detection, ide_devices, registry, drives>>
  BY DEF Request, Call, detection
<1>2. TypeOK /\ devices[i] \in Device
  <2>1. TypeOK /\ devices \in Seq(Device)
    BY DEF IInv, TypeOK
  <2>2. QED
    BY <2>1
<1>3. request' \in Requests
  BY <1>1, <1>2 DEF Requests
<1>4. PlacesOK' /\ ReadingOK'
  BY <1>1, <1>2, <1>3, TypeParts DEF PlacesOK, ReadingOK
<1>5. TypeOK'
  BY <1>1, <1>2, <1>4, TypePartsNext, Unmoved
<1>6. InTable' /\ Asked' /\ FromTheRegistry'
  BY <1>1, <1>3 DEF InTable, Asked, FromTheRegistry
<1>7. CommandHolds' /\ ReadsItsSector'
  BY <1>1 DEF CommandHolds, ReadsItsSector
<1>8. QED
  BY <1>5, <1>6, <1>7 DEF IInv

\* While a read is under way there is something it asks for, of a drive.
LEMMA UnderWay ==
  ASSUME IInv, step # "idle"
  PROVE  /\ request \in Requests /\ request # NULL /\ request.dev \in Device
         /\ request.lba \in Nat /\ request.n \in Nat
         /\ phase \in {"mounting", "shell", "panic", "lost"}
         /\ buf \in Seq(Sector \cup {Junk}) /\ Len(buf) \in Nat
<1>1. request \in Requests
  BY DEF IInv, Asked
<1>2. request # NULL
  BY <1>1, DiskAssumption
<1>3. request.dev \in Device /\ request.lba \in Lbas /\ request.n \in Counts \cup {1}
  BY <1>1 DEF Requests
<1>4. request.lba \in Nat /\ request.n \in Nat
  <2>1. Lbas \subseteq Nat /\ Counts \subseteq Nat /\ 1 \in Nat
    BY DiskAssumption
  <2>2. QED
    BY <1>3, <2>1
<1>5. buf \in Seq(Sector \cup {Junk})
  BY DEF IInv, TypeOK
<1>6. QED
  BY <1>1, <1>2, <1>3, <1>4, <1>5 DEF IInv, Asked

\* WildRead follows a phantom; nothing is known afterwards, but it has types.
LEMMA WildReadKeeps ==
  ASSUME IInv, WildRead
  PROVE  IInv'
<1>1. /\ phase' = "lost" /\ step' = "idle"
      /\ UNCHANGED <<machine, detection, ide_devices, registry, drives, request, buf>>
  BY DEF WildRead, detection
<1>2. TypeOK /\ ReadsItsSector
  BY DEF IInv
<1>3. PlacesOK'
  BY <1>1, <1>2, TypeParts DEF PlacesOK
<1>4. TypeOK'
  BY <1>1, <1>2, <1>3, TypePartsNext, Unmoved
<1>5. InTable' /\ FromTheRegistry' /\ CommandHolds'
  BY <1>1 DEF InTable, FromTheRegistry, CommandHolds
<1>6. Asked'
  BY <1>1 DEF Asked
<1>7. ReadsItsSector'
  BY <1>1, <1>2 DEF ReadsItsSector, InPlace, Target
<1>8. QED
  BY <1>4, <1>5, <1>6, <1>7 DEF IInv

LEMMA SendCommandKeeps ==
  ASSUME IInv, SendCommand
  PROVE  IInv'
<1> DEFINE dev == request.dev
           q == Target(dev)
           a == Address(request.lba + Len(buf))
<1>1. /\ step = "command" /\ step' = "poll" /\ dev.drive # Phantom /\ Select(q)
      /\ lbaRegister' = [lbaRegister EXCEPT ![q] = a]
      /\ status' = [status EXCEPT ![q] = Commanded(q)]
      /\ UNCHANGED <<machine, phase, detection, ide_devices, registry, request, buf>>
  BY DEF SendCommand, detection
<1>2. TypeOK /\ ReadsItsSector
  BY DEF IInv
<1>3. a \in 0 .. LbaLimit - 1
  <2>1. request.lba \in Nat /\ Len(buf) \in Nat
    BY <1>1, UnderWay
  <2>2. request.lba + Len(buf) \in Nat
    BY <2>1
  <2>3. QED
    BY <2>2, AddressFits
<1>4. dev.drive # Ahci
  BY <1>1 DEF IInv, FromTheRegistry
<1>5. q \in Positions
  BY <1>1, <1>2, <1>4, UnderWay, TargetIsPosition
<1> HIDE DEF a
<1>6. selected' \in [Channels -> {0, 1}] /\ selected'[Channel(q)] = q % 2
  BY <1>1, <1>2, <1>5, Selected
<1>7. lbaRegister \in [Positions -> 0 .. LbaLimit - 1]
      /\ status \in [Positions -> {"idle", "busy", "drq", "err", "drq and err"}]
  BY <1>2 DEF TypeOK
<1>8. lbaRegister' \in [Positions -> 0 .. LbaLimit - 1] /\ lbaRegister'[q] = a
  BY <1>1, <1>3, <1>5, <1>7
<1>9. status' \in [Positions -> {"idle", "busy", "drq", "err", "drq and err"}]
  <2>1. Commanded(q) \in {"idle", "busy", "drq", "err", "drq and err"}
    BY <1>5, <1>7 DEF Commanded
  <2>2. QED
    BY <1>1, <1>5, <1>7, <2>1
<1>10. PlacesOK' /\ DrivesOK'
  BY <1>1, <1>2, <1>6, <1>8, <1>9, TypeParts DEF PlacesOK, DrivesOK
<1>11. TypeOK'
  BY <1>1, <1>2, <1>10, TypePartsNext, Unmoved
<1>12. InTable' /\ Asked' /\ FromTheRegistry'
  <2>1. phase' \in {"mounting", "shell", "panic", "lost"} /\ request' \in Requests
    BY <1>1, UnderWay
  <2>2. dev.drive \in Positions
    BY <1>1, <1>2, <1>4, UnderWay, TargetIsPosition
  <2>3. QED
    BY <1>1, <2>1, <2>2 DEF InTable, Asked, FromTheRegistry
<1>13. CommandHolds'
  <2> SUFFICES ASSUME Primary(dev)
               PROVE  selected'[0] = dev.drive /\ lbaRegister'[dev.drive] = a
    BY <1>1, SamePlace DEF CommandHolds, a
  <2>1. q = dev.drive /\ Channel(q) = 0 /\ q % 2 = q
    BY PrimaryFacts
  <2>2. QED
    BY <1>6, <1>8, <2>1
<1>14. ReadsItsSector'
  BY <1>1, <1>2 DEF ReadsItsSector, InPlace, Target
<1>15. QED
  BY <1>11, <1>12, <1>13, <1>14 DEF IInv

\* A drive that answers may offer data, and takes none back.
LEMMA AnswerKeeps ==
  ASSUME IInv, NEW p \in Positions, Answer(p)
  PROVE  IInv'
<1>1. /\ status[p] = "busy"
      /\ UNCHANGED <<machine, phase, detection, ide_devices, registry, selected, lbaRegister,
                     reading, request, step, buf>>
  BY DEF Answer, detection, reading
<1>2. PICK s \in {"drq", "err", "drq and err"} : status' = [status EXCEPT ![p] = s]
  BY DEF Answer
<1>3. TypeOK /\ status \in [Positions -> {"idle", "busy", "drq", "err", "drq and err"}]
  BY DEF IInv, TypeOK
<1>4. PlacesOK' /\ DrivesOK'
  BY <1>1, <1>2, <1>3, TypeParts DEF PlacesOK, DrivesOK
<1>5. TypeOK'
  BY <1>1, <1>3, <1>4, TypePartsNext, Unmoved
<1>6. InTable' /\ Asked' /\ FromTheRegistry' /\ ReadsItsSector'
  <2>1. InTable'
    BY <1>1 DEF IInv, InTable, detection
  <2>2. Asked' /\ FromTheRegistry'
    BY <1>1 DEF IInv, Asked, FromTheRegistry
  <2>3. ReadsItsSector'
    BY <1>1 DEF IInv, ReadsItsSector, InPlace, Target
  <2>4. QED
    BY <2>1, <2>2, <2>3
<1>7. CommandHolds'
  <2> SUFFICES ASSUME request # NULL, Primary(request.dev)
               PROVE  /\ step \in {"poll", "check", "data"} =>
                           /\ selected[0] = request.dev.drive
                           /\ lbaRegister[request.dev.drive] = Address(request.lba + Len(buf))
                      /\ step \in {"check", "data"} => Offers(status'[request.dev.drive])
    BY <1>1, SamePlace DEF CommandHolds
  <2>1. /\ step \in {"poll", "check", "data"} =>
             /\ selected[0] = request.dev.drive
             /\ lbaRegister[request.dev.drive] = Address(request.lba + Len(buf))
        /\ step \in {"check", "data"} => Offers(status[request.dev.drive])
    BY DEF IInv, CommandHolds
  <2>2. step \in {"check", "data"} => request.dev.drive # p
    BY <1>1, <2>1 DEF Offers
  <2>3. request.dev.drive \in Positions
    BY PrimaryFacts
  <2>4. QED
    BY <1>2, <1>3, <2>1, <2>2, <2>3
<1>8. QED
  BY <1>5, <1>6, <1>7 DEF IInv

\* The primary channel shows the drive of a primary disk's command.
LEMMA PollStatusKeeps ==
  ASSUME IInv, PollStatus
  PROVE  IInv'
<1>1. /\ step = "poll" /\ step' = "check" /\ Offers(status[Current(0)])
      /\ UNCHANGED <<machine, phase, detection, ide_devices, registry, drives, selected, status,
                     lbaRegister, request, buf>>
  BY DEF PollStatus, ATA_CheakStatus, Status, detection, drives
<1>2. TypeOK
  BY DEF IInv
<1>3. PlacesOK'
  BY <1>1, <1>2, TypeParts DEF PlacesOK
<1>4. TypeOK'
  BY <1>1, <1>2, <1>3, TypePartsNext, Unmoved
<1>5. InTable' /\ Asked' /\ FromTheRegistry' /\ ReadsItsSector'
  <2>1. InTable'
    BY <1>1 DEF IInv, InTable, detection
  <2>2. Asked' /\ FromTheRegistry'
    BY <1>1 DEF IInv, Asked, FromTheRegistry
  <2>3. ReadsItsSector'
    BY <1>1 DEF IInv, ReadsItsSector, InPlace, Target
  <2>4. QED
    BY <2>1, <2>2, <2>3
<1>6. CommandHolds'
  <2> SUFFICES ASSUME request # NULL, Primary(request.dev)
               PROVE  /\ selected[0] = request.dev.drive
                      /\ lbaRegister[request.dev.drive] = Address(request.lba + Len(buf))
                      /\ Offers(status[request.dev.drive])
    BY <1>1, SamePlace DEF CommandHolds
  <2>1. selected[0] = request.dev.drive /\ lbaRegister[request.dev.drive] = Address(request.lba + Len(buf))
    BY <1>1 DEF IInv, CommandHolds
  <2>2. request.dev.drive \in {0, 1}
    BY PrimaryFacts
  <2>3. Current(0) = request.dev.drive
    BY <2>1, <2>2 DEF Current
  <2>4. QED
    BY <1>1, <2>1, <2>3
<1>7. QED
  BY <1>4, <1>5, <1>6 DEF IInv

LEMMA CheckErrorKeeps ==
  ASSUME IInv, CheckError
  PROVE  IInv'
<1>1. /\ step = "check"
      /\ \/ phase' = "panic" /\ step' = "idle"
         \/ phase' = phase /\ step' = "data"
      /\ UNCHANGED <<machine, detection, ide_devices, registry, drives, selected, status,
                     lbaRegister, request, buf>>
  BY DEF CheckError, detection, drives
<1>2. TypeOK
  BY DEF IInv
<1>3. PlacesOK'
  BY <1>1, <1>2, TypeParts DEF PlacesOK
<1>4. TypeOK'
  BY <1>1, <1>2, <1>3, TypePartsNext, Unmoved
<1>5. phase \in {"mounting", "shell", "panic", "lost"} /\ request \in Requests
  BY <1>1, UnderWay
<1>6. InTable' /\ Asked'
  BY <1>1, <1>5 DEF InTable, Asked
<1>7. FromTheRegistry' /\ ReadsItsSector'
  <2>1. FromTheRegistry'
    BY <1>1 DEF IInv, FromTheRegistry
  <2>2. ReadsItsSector'
    BY <1>1 DEF IInv, ReadsItsSector, InPlace, Target
  <2>3. QED
    BY <2>1, <2>2
<1>8. CommandHolds'
  <2> SUFFICES ASSUME request # NULL, Primary(request.dev)
               PROVE  /\ selected[0] = request.dev.drive
                      /\ lbaRegister[request.dev.drive] = Address(request.lba + Len(buf))
                      /\ Offers(status[request.dev.drive])
    BY <1>1, SamePlace DEF CommandHolds
  <2>1. QED
    BY <1>1 DEF IInv, CommandHolds
<1>9. QED
  BY <1>4, <1>6, <1>7, <1>8 DEF IInv

\* The words taken are those of the sector in the registers.
LEMMA TakeDataKeeps ==
  ASSUME IInv, TakeData
  PROVE  IInv'
<1> DEFINE q == Target(request.dev)
           p == Current(Channel(q))
<1>1. /\ step = "data" /\ step' \in {"done", "command"} /\ request.dev.drive \in Positions
      /\ buf' = Append(buf, Words(p))
      /\ status' = status \/ status' = [status EXCEPT ![p] = "idle"]
      /\ UNCHANGED <<machine, phase, detection, ide_devices, registry, selected, lbaRegister, request>>
  BY DEF TakeData, detection, IInv, FromTheRegistry
<1>2. TypeOK /\ ReadsItsSector /\ CommandHolds
  BY DEF IInv
<1>3. q \in Positions
  BY <1>1, <1>2 DEF Target, TypeOK, Slot
<1>4. p \in Positions
  <2>1. Channel(q) \in {0, 1} /\ selected[Channel(q)] \in {0, 1}
    BY <1>2, <1>3, PositionFacts DEF TypeOK, Channels
  <2>2. QED
    BY <2>1 DEF Current, Positions
<1>5. /\ lbaRegister \in [Positions -> 0 .. LbaLimit - 1]
      /\ status \in [Positions -> {"idle", "busy", "drq", "err", "drq and err"}]
      /\ buf \in Seq(Sector \cup {Junk})
  BY <1>2 DEF TypeOK
<1>6. Words(p) \in Sector \cup {Junk}
  BY <1>4, <1>5 DEF Words, Sector
<1>7. /\ buf' \in Seq(Sector \cup {Junk})
      /\ Len(buf) \in Nat /\ Len(buf') = Len(buf) + 1
      /\ \A k \in 1 .. Len(buf) : buf'[k] = buf[k]
      /\ buf'[Len(buf) + 1] = Words(p)
  <2> DEFINE W == Sector \cup {Junk}
             w == Words(p)
  <2>1. buf \in Seq(W) /\ w \in W /\ buf' = Append(buf, w)
    BY <1>1, <1>5, <1>6
  <2> HIDE DEF W, w
  <2>2. /\ Append(buf, w) \in Seq(W) /\ Len(buf) \in Nat
        /\ Len(Append(buf, w)) = Len(buf) + 1
        /\ \A k \in 1 .. Len(buf) : Append(buf, w)[k] = buf[k]
        /\ Append(buf, w)[Len(buf) + 1] = w
    BY <2>1, AppendFacts
  <2>3. QED
    BY <2>1, <2>2, Zenon DEF W, w
<1>8. PlacesOK' /\ DrivesOK' /\ ReadingOK'
  <2>1. status' \in [Positions -> {"idle", "busy", "drq", "err", "drq and err"}]
    BY <1>1, <1>5
  <2>2. QED
    BY <1>1, <1>2, <1>7, <2>1, TypeParts DEF PlacesOK, DrivesOK, ReadingOK
<1>9. TypeOK'
  BY <1>1, <1>2, <1>8, TypePartsNext, Unmoved
<1>10. InTable' /\ Asked' /\ FromTheRegistry' /\ CommandHolds'
  <2>1. phase' \in {"mounting", "shell", "panic", "lost"} /\ request' \in Requests
    BY <1>1, UnderWay
  <2>2. Ahci \notin Positions
    BY DiskAssumption
  <2>3. QED
    BY <1>1, <2>1, <2>2 DEF InTable, Asked, FromTheRegistry, CommandHolds
<1>11. ReadsItsSector'
  <2> DEFINE d == request.dev.drive
             n == Len(buf)
  <2> SUFFICES ASSUME request # NULL, Primary(request.dev),
                      NEW k \in 1 .. Len(buf'), request.lba + k <= LbaLimit
               PROVE  buf'[k] = [drive |-> d, lba |-> request.lba + k - 1]
    BY <1>1, SamePlace DEF ReadsItsSector, Primary
  <2>1. n \in Nat /\ request.lba \in Nat /\ Len(buf') = n + 1
    BY <1>1, <1>7, UnderWay
  <2>2. CASE k <= n
    <3>1. k \in 1 .. n
      BY <2>1, <2>2
    <3>2. buf'[k] = buf[k]
      BY <1>7, <3>1
    <3>3. buf[k] = [drive |-> d, lba |-> request.lba + k - 1]
      BY <1>2, <3>1 DEF ReadsItsSector, Primary
    <3>4. QED
      BY <3>2, <3>3
  <2>3. CASE k = n + 1
    <3>1. selected[0] = d /\ lbaRegister[d] = Address(request.lba + n) /\ Offers(status[d])
      BY <1>1, <1>2 DEF CommandHolds
    <3>2. p = d
      <4>1. Channel(q) = 0 /\ d \in {0, 1}
        BY PrimaryFacts
      <4>2. QED
        BY <3>1, <4>1 DEF Current
    <3>3. Address(request.lba + n) = request.lba + n
      <4>1. request.lba + n \in Nat /\ request.lba + n < LbaLimit
        BY <2>1, <2>3, DiskAssumption
      <4>2. QED
        BY <4>1, AddressFits
    <3>4. Words(p) = [drive |-> d, lba |-> request.lba + n]
      BY <3>1, <3>2, <3>3 DEF Words
    <3>5. buf'[n + 1] = Words(p)
      BY <1>7
    <3>6. request.lba + k - 1 = request.lba + n
      BY <2>1, <2>3
    <3>7. QED
      BY <2>3, <3>4, <3>5, <3>6
  <2>4. QED
    BY <2>1, <2>2, <2>3
<1>12. QED
  BY <1>9, <1>10, <1>11 DEF IInv

LEMMA EndReadKeeps ==
  ASSUME IInv, EndRead
  PROVE  IInv'
<1>1. /\ phase = "shell" /\ step' = "idle" /\ request' = NULL /\ buf' = <<>>
      /\ UNCHANGED <<machine, phase, detection, ide_devices, registry, drives>>
  BY DEF EndRead, detection
<1>2. TypeOK
  BY DEF IInv
<1>3. PlacesOK' /\ ReadingOK'
  BY <1>1, <1>2, TypeParts DEF PlacesOK, ReadingOK
<1>4. TypeOK'
  BY <1>1, <1>2, <1>3, TypePartsNext, Unmoved
<1>5. InTable' /\ Asked' /\ FromTheRegistry' /\ CommandHolds' /\ ReadsItsSector'
  BY <1>1 DEF InTable, Asked, FromTheRegistry, CommandHolds, ReadsItsSector
<1>6. QED
  BY <1>4, <1>5 DEF IInv

-----------------------------------------------------------------------------
(* The theorems *)

LEMMA Initially == Init => IInv
<1> SUFFICES ASSUME Init PROVE IInv
  OBVIOUS
<1>1. EmptySlot \in Slot /\ 0 \in 0 .. LbaLimit - 1
  BY DiskAssumption DEF EmptySlot, Slot, Positions
<1>2. PlacesOK /\ CountersOK
  BY DEF Init, PlacesOK, CountersOK
<1>3. TablesOK
  BY <1>1 DEF Init, TablesOK
<1>4. DrivesOK /\ ReadingOK
  BY <1>1 DEF Init, DrivesOK, ReadingOK
<1>5. InTable /\ Asked /\ FromTheRegistry /\ CommandHolds /\ ReadsItsSector
  BY DEF Init, InTable, Asked, FromTheRegistry, CommandHolds, ReadsItsSector
<1>6. QED
  BY <1>2, <1>3, <1>4, <1>5, TypeParts DEF IInv

LEMMA Invariance == IInv /\ [Next]_vars => IInv'
<1> SUFFICES ASSUME IInv, [Next]_vars PROVE IInv'
  OBVIOUS
<1>1. CASE Boot
  BY <1>1, PciScanKeeps, NoDriveKeeps, FoundDriveKeeps, EndDetectionKeeps, RegisterDriveKeeps,
     PhaseKeeps, ProbeKeeps, EndMountKeeps DEF Boot
<1>2. CASE Read
  BY <1>2, WildReadKeeps, SendCommandKeeps, PollStatusKeeps, CheckErrorKeeps, TakeDataKeeps,
     EndReadKeeps DEF Read
<1>3. ASSUME NEW i \in 1 .. Len(devices), NEW lba \in Lbas, NEW n \in Counts,
             Request(devices[i], lba, n)
      PROVE  IInv'
  BY <1>3, RequestKeeps
<1>4. ASSUME NEW p \in Positions, Answer(p)
      PROVE  IInv'
  BY <1>4, AnswerKeeps
<1>5. CASE UNCHANGED vars
  <2>1. TypeOK'
    BY <1>5 DEF vars, detection, registry, drives, reading, IInv, TypeOK
  <2>2. InTable' /\ Asked' /\ FromTheRegistry'
    BY <1>5 DEF vars, detection, registry, drives, reading, IInv, InTable, Asked, FromTheRegistry
  <2>3. CommandHolds' /\ ReadsItsSector'
    BY <1>5 DEF vars, detection, registry, drives, reading, IInv, CommandHolds, ReadsItsSector,
       Primary, InPlace, Target
  <2>4. QED
    BY <2>1, <2>2, <2>3 DEF IInv
<1>6. QED
  BY <1>1, <1>2, <1>3, <1>4, <1>5 DEF Next

\* Every variable has its type, whatever drives the machine has and whatever
\* is asked of them: in particular the detection writes inside ide_devices
\* (ide_controller.c) although its count of drives runs to twice the table.
THEOREM DiskTypeCorrect == Spec => []TypeOK
<1>1. IInv => TypeOK
  BY DEF IInv
<1>2. QED
  BY Initially, Invariance, <1>1, PTL DEF Spec

\* ATA_read (ATA.c) gives back the sectors asked for, in their order, of a
\* disk in its place at the primary channel, as far as the mask of the sector
\* number lets it.
THEOREM ReadsRight == Spec => []ReadsItsSector
<1>1. IInv => ReadsItsSector
  BY DEF IInv
<1>2. QED
  BY Initially, Invariance, <1>1, PTL DEF Spec
-----------------------------------------------------------------------------
(* What ReadsEnd rests on. The loop over the sectors stores as many as the  *)
(* caller's buffer has room for, with each of its steps fewer are left, and *)
(* the status it polls is that of a drive which works or has answered.      *)

BufferFits == request # NULL => Len(buf) <= request.n

InLoop == step \in {"command", "poll", "check", "data"}

\* In the loop there is still a sector to read.
Unfinished == InLoop => Len(buf) < request.n

\* The drive polled is the one that was given the command, and it has not
\* gone idle.
PollIsAnswered ==
  step = "poll" /\ Primary(request.dev) =>
    Status(0) = status[request.dev.drive] /\ Status(0) # "idle"

AtWork ==
  step = "poll" /\ Primary(request.dev) => status[request.dev.drive] # "idle"

\* What is registered at a position is a disk, also when the count of drives
\* leads behind the table, and only what is registered is read.
OnlyDisks ==
  /\ \A s \in Positions : IsDisk(ide_devices[s]) => IsAta(ide_devices[s].drive)
  /\ \A k \in 1 .. Len(devices) : devices[k].drive \in Positions => IsAta(devices[k].drive)
  /\ request # NULL /\ request.dev.drive \in Positions => IsAta(request.dev.drive)

RInv == IInv /\ BufferFits /\ Unfinished /\ AtWork /\ OnlyDisks

\* How many steps the read may still take, with four for each sector.
Left ==
  CASE step = "command" -> 4 * (request.n - Len(buf)) + 3
    [] step = "poll"    -> 4 * (request.n - Len(buf)) + 2
    [] step = "check"   -> 4 * (request.n - Len(buf)) + 1
    [] step = "data"    -> 4 * (request.n - Len(buf))
    [] step = "done"    -> 1
    [] OTHER            -> 0

ReadAdvances == [][Read => Left \in Nat /\ Left' \in Nat /\ Left' < Left]_vars

\* Where the arguments of the read stay, so does the disk they are about.
LEMMA SameDisk ==
  ASSUME UNCHANGED <<machine, ide_devices, request>>
  PROVE  Primary(request.dev)' <=> Primary(request.dev)
BY DEF Primary, InPlace, Target

\* The machine stays what it is.
LEMMA SameMachine ==
  ASSUME [Next]_vars
  PROVE  machine' = machine /\ \A p : IsAta(p)' = IsAta(p)
<1>1. machine' = machine
  BY DEF Next, Boot, Read, PciScan, NoDrive, FoundDrive, EndDetection, RegisterDrive, EndRegistration,
     WithoutDisk, Refused, Probe, EndMount, WildRead, SendCommand, PollStatus, CheckError, TakeData,
     EndRead, Request, Answer, vars
<1>2. QED
  BY <1>1 DEF IsAta

\* The slots. A packet device's slot says so.
LEMMA SlotsOfDisks ==
  ASSUME IInv, OnlyDisks, [Next]_vars, NEW s \in Positions, IsDisk(ide_devices'[s])
  PROVE  IsAta(ide_devices'[s].drive)
<1>1. ide_devices \in [Positions -> Slot]
  BY DEF IInv, TypeOK
<1>2. CASE NoDrive
  <2>1. ide_devices' = [ide_devices EXCEPT ![count].Reserved = FALSE]
    BY <1>2 DEF NoDrive
  <2>2. ide_devices'[s] = ide_devices[s] \/ ~ide_devices'[s].Reserved
    BY <1>1, <2>1 DEF Slot
  <2>3. QED
    BY <2>2 DEF OnlyDisks, IsDisk
<1>3. CASE FoundDrive
  <2>1. PICK new : /\ new = [Reserved |-> TRUE, Type |-> machine.drive[at], drive |-> at]
                   /\ ide_devices' = [ide_devices EXCEPT ![count] = new]
    BY <1>3 DEF FoundDrive, Taken
  <2>2. ide_devices'[s] = ide_devices[s] \/ ide_devices'[s] = new
    BY <1>1, <2>1
  <2>3. QED
    BY <2>1, <2>2 DEF OnlyDisks, IsDisk, IsAta
<1>4. CASE ~NoDrive /\ ~FoundDrive
  <2>1. ide_devices' = ide_devices
    BY <1>4 DEF Next, Boot, Read, PciScan, EndDetection, RegisterDrive, EndRegistration,
       WithoutDisk, Refused, Probe, EndMount, WildRead, SendCommand, PollStatus, CheckError, TakeData,
       EndRead, Request, Answer, vars, detection
  <2>2. QED
    BY <2>1 DEF OnlyDisks
<1>5. QED
  BY <1>2, <1>3, <1>4

\* The devices: each was made from a slot, or stands at no position.
LEMMA DevicesAreDisks ==
  ASSUME IInv, OnlyDisks, [Next]_vars, NEW k \in 1 .. Len(devices'), devices'[k].drive \in Positions
  PROVE  IsAta(devices'[k].drive)
<1>1. devices \in Seq(Device) /\ Ahci \notin Positions /\ Phantom \notin Positions
  BY DiskAssumption DEF IInv, TypeOK
<1>2. CASE PciScan
  <2>1. devices' = <<>> \/ devices' = <<[id |-> 32, drive |-> Ahci]>>
    BY <1>2 DEF PciScan
  <2>2. QED
    BY <1>1, <2>1
<1>3. ASSUME NEW drive, addDevice(drive), drive \in Positions => IsAta(drive)
      PROVE  IsAta(devices'[k].drive)
  <2>1. PICK new : new = [id |-> ATA_DeviceIndex + at, drive |-> drive] /\ devices' = Append(devices, new)
    BY <1>3 DEF addDevice
  <2>2. new.drive = drive
    BY <2>1
  <2>3. (k \in 1 .. Len(devices) /\ devices'[k] = devices[k]) \/ devices'[k] = new
    BY <1>1, <2>1
  <2>4. QED
    BY <1>3, <2>2, <2>3 DEF OnlyDisks
<1>4. CASE RegisterDrive
  <2>1. \/ at \in Positions /\ IsDisk(ide_devices[at]) /\ addDevice(ide_devices[at].drive)
        \/ addDevice(Phantom)
        \/ devices' = devices
    BY <1>4 DEF RegisterDrive
  <2>2. QED
    BY <1>1, <1>3, <2>1 DEF OnlyDisks
<1>5. CASE ~PciScan /\ ~RegisterDrive
  <2>1. devices' = devices
    BY <1>5 DEF Next, Boot, Read, NoDrive, FoundDrive, EndDetection, EndRegistration,
       WithoutDisk, Refused, Probe, EndMount, WildRead, SendCommand, PollStatus, CheckError, TakeData,
       EndRead, Request, Answer, vars, registry
  <2>2. QED
    BY <2>1 DEF OnlyDisks
<1>6. QED
  BY <1>2, <1>4, <1>5

\* The reads: of a device, as it was registered.
LEMMA ReadsAreOfDisks ==
  ASSUME IInv, OnlyDisks, [Next]_vars, request' # NULL, request'.dev.drive \in Positions
  PROVE  IsAta(request'.dev.drive)
<1>1. CASE \E i \in 1 .. Len(devices), lba \in Lbas, n \in Counts : Request(devices[i], lba, n)
  BY <1>1 DEF Request, Call, OnlyDisks
<1>2. CASE Probe
  <2> DEFINE dev == GetDevice(ata_Device)
  <2>1. dev # NULL /\ request'.dev = dev
    BY <1>2 DEF Probe, Mountable, Call
  <2>0. ata_Device \in Nat /\ devices \in Seq(Device)
    BY DEF IInv, TypeOK
  <2>2. ata_Device \in Nat /\ Len(devices) \in Nat
    BY <2>0
  <2>3. ata_Device + 1 \in 1 .. Len(devices) /\ dev = devices[ata_Device + 1]
    BY <2>1, <2>2 DEF GetDevice
  <2>4. QED
    BY <2>1, <2>3 DEF OnlyDisks
<1>3. CASE ~Probe /\ ~(\E i \in 1 .. Len(devices), lba \in Lbas, n \in Counts : Request(devices[i], lba, n))
  <2>1. request' = request \/ request' = NULL
    BY <1>3 DEF Next, Boot, Read, PciScan, NoDrive, FoundDrive, EndDetection, RegisterDrive,
       EndRegistration, WithoutDisk, Refused, EndMount, WildRead, SendCommand, PollStatus, CheckError,
       TakeData, EndRead, Answer, vars, reading
  <2>2. QED
    BY <2>1 DEF OnlyDisks
<1>4. QED
  BY <1>1, <1>2, <1>3

LEMMA OnlyDisksStay ==
  ASSUME IInv, OnlyDisks, [Next]_vars
  PROVE  OnlyDisks'
BY SameMachine, SlotsOfDisks, DevicesAreDisks, ReadsAreOfDisks DEF OnlyDisks, IsDisk, IsAta

LEMMA CallFits ==
  ASSUME NEW dev \in Device, NEW lba \in Lbas, NEW n \in Counts \cup {1}, Call(dev, lba, n)
  PROVE  BufferFits' /\ Unfinished' /\ AtWork'
<1>1. n \in Nat /\ n > 0
  BY DiskAssumption
<1>2. /\ request'.n = n /\ step' = "command" /\ Len(buf') = 0
  BY DEF Call
<1>3. QED
  BY <1>1, <1>2 DEF BufferFits, Unfinished, AtWork, InLoop

LEMMA BootFits ==
  ASSUME RInv, Boot
  PROVE  BufferFits' /\ Unfinished' /\ AtWork'
<1>1. CASE PciScan \/ NoDrive \/ FoundDrive \/ EndDetection \/ RegisterDrive \/ EndRegistration
           \/ WithoutDisk \/ Refused
  <2>1. phase \in {"pci", "detect", "register", "mount"} /\ UNCHANGED reading
    BY <1>1 DEF PciScan, NoDrive, FoundDrive, EndDetection, RegisterDrive, EndRegistration,
       WithoutDisk, Refused
  <2>2. request' = NULL /\ step' = "idle"
    BY <2>1, BootAsksNothing DEF reading, RInv
  <2>3. QED
    BY <2>2 DEF BufferFits, Unfinished, AtWork, InLoop
<1>2. CASE Probe
  <2> DEFINE dev == GetDevice(ata_Device)
  <2>1. CASE dev.drive = Ahci
    <3>1. request'.n = 1 /\ step' = "done" /\ Len(buf') = 1
      BY <1>2, <2>1 DEF Probe
    <3>2. QED
      BY <3>1 DEF BufferFits, Unfinished, AtWork, InLoop
  <2>2. CASE dev.drive # Ahci
    <3>1. request'.n = 1 /\ step' = "command" /\ Len(buf') = 0
      BY <1>2, <2>2 DEF Probe, Call
    <3>2. QED
      BY <3>1 DEF BufferFits, Unfinished, AtWork, InLoop
  <2>3. QED
    BY <2>1, <2>2
<1>3. CASE EndMount
  BY <1>3 DEF EndMount, BufferFits, Unfinished, AtWork, InLoop
<1>4. QED
  BY <1>1, <1>2, <1>3 DEF Boot

LEMMA SendCommandFits ==
  ASSUME RInv, SendCommand
  PROVE  BufferFits' /\ Unfinished' /\ AtWork'
<1> DEFINE q == Target(request.dev)
<1>1. /\ step = "command" /\ step' = "poll" /\ status' = [status EXCEPT ![q] = Commanded(q)]
      /\ UNCHANGED <<machine, ide_devices, request, buf>>
  BY DEF SendCommand, detection
<1>2. BufferFits' /\ Unfinished'
  BY <1>1 DEF RInv, BufferFits, Unfinished, InLoop
<1>3. AtWork'
  <2> SUFFICES ASSUME Primary(request.dev)
               PROVE  status'[request.dev.drive] # "idle"
    BY <1>1, SameDisk DEF AtWork
  <2>1. q = request.dev.drive /\ q \in Positions /\ IsAta(q)
    BY <1>1, PrimaryFacts, UnderWay DEF RInv, OnlyDisks
  <2>2. Commanded(q) = "busy"
    BY <2>1 DEF Commanded, IsAta
  <2>3. status'[q] = "busy"
    BY <1>1, <2>1, <2>2 DEF RInv, IInv, TypeOK
  <2>4. QED
    BY <2>1, <2>3
<1>4. QED
  BY <1>2, <1>3

LEMMA TakeDataFits ==
  ASSUME RInv, TakeData
  PROVE  BufferFits' /\ Unfinished' /\ AtWork'
<1>1. /\ step = "data" /\ step' = (IF Len(buf) + 1 = request.n THEN "done" ELSE "command")
      /\ UNCHANGED request
  BY DEF TakeData
<1>2. Len(buf) \in Nat /\ request.n \in Nat /\ Len(buf) < request.n /\ buf \in Seq(Sector \cup {Junk})
  BY <1>1, UnderWay DEF RInv, Unfinished, InLoop
<1>3. PICK w : buf' = Append(buf, w)
  BY DEF TakeData
<1>4. Len(buf') = Len(buf) + 1
  BY <1>2, <1>3
<1>5. QED
  BY <1>1, <1>2, <1>4 DEF BufferFits, Unfinished, AtWork, InLoop

LEMMA ReadFits ==
  ASSUME RInv, Read
  PROVE  BufferFits' /\ Unfinished' /\ AtWork'
<1>1. CASE WildRead \/ PollStatus \/ CheckError
  <2>1. /\ step # "idle" /\ step' \in {"idle", "check", "data"} /\ (step' # "idle" => InLoop)
        /\ UNCHANGED <<request, buf>>
    BY <1>1 DEF WildRead, PollStatus, CheckError, InLoop
  <2>2. QED
    BY <2>1 DEF RInv, BufferFits, Unfinished, AtWork, InLoop
<1>2. CASE EndRead
  BY <1>2 DEF EndRead, BufferFits, Unfinished, AtWork, InLoop
<1>3. QED
  BY <1>1, <1>2, SendCommandFits, TakeDataFits DEF Read

\* A drive that answers is not idle.
LEMMA AnswerFits ==
  ASSUME RInv, NEW p \in Positions, Answer(p)
  PROVE  BufferFits' /\ Unfinished' /\ AtWork'
<1>1. UNCHANGED <<machine, ide_devices, request, step, buf>>
  BY DEF Answer, detection, reading
<1>2. PICK s \in {"drq", "err", "drq and err"} : status' = [status EXCEPT ![p] = s]
  BY DEF Answer
<1>3. BufferFits' /\ Unfinished'
  BY <1>1 DEF RInv, BufferFits, Unfinished, InLoop
<1>4. AtWork'
  <2> SUFFICES ASSUME step = "poll", Primary(request.dev)
               PROVE  status'[request.dev.drive] # "idle"
    BY <1>1, SameDisk DEF AtWork
  <2>1. status[request.dev.drive] # "idle"
    BY DEF RInv, AtWork
  <2>2. request.dev.drive \in Positions
    BY PrimaryFacts
  <2>3. QED
    BY <1>2, <2>1, <2>2 DEF RInv, IInv, TypeOK
<1>5. QED
  BY <1>3, <1>4

LEMMA RInitially == Init => RInv
<1> SUFFICES ASSUME Init PROVE RInv
  OBVIOUS
<1>1. BufferFits /\ Unfinished /\ AtWork
  BY DEF Init, BufferFits, Unfinished, AtWork, InLoop
<1>2. OnlyDisks
  BY DEF Init, OnlyDisks, EmptySlot, IsDisk
<1>3. QED
  BY <1>1, <1>2, Initially DEF RInv

LEMMA RInvariance == RInv /\ [Next]_vars => RInv'
<1> SUFFICES ASSUME RInv, [Next]_vars PROVE RInv'
  OBVIOUS
<1>1. IInv' /\ OnlyDisks'
  BY Invariance, OnlyDisksStay DEF RInv
<1>2. CASE UNCHANGED vars
  <2>1. UNCHANGED <<machine, ide_devices, request, step, buf, status>>
    BY <1>2 DEF vars, detection, drives, reading
  <2>2. BufferFits' /\ Unfinished' /\ AtWork'
    BY <2>1, SameDisk DEF RInv, BufferFits, Unfinished, AtWork, InLoop
  <2>3. QED
    BY <1>1, <2>2 DEF RInv
<1>3. ASSUME NEW i \in 1 .. Len(devices), NEW lba \in Lbas, NEW n \in Counts,
             Request(devices[i], lba, n)
      PROVE  RInv'
  <2>1. devices \in Seq(Device)
    BY DEF RInv, IInv, TypeOK
  <2>2. devices[i] \in Device
    BY <2>1
  <2>3. Call(devices[i], lba, n) /\ n \in Counts \cup {1}
    BY <1>3 DEF Request
  <2>4. QED
    BY <1>1, <2>2, <2>3, CallFits DEF RInv
<1>4. QED
  BY <1>1, <1>2, <1>3, BootFits, ReadFits, AnswerFits DEF Next, RInv

LEMMA LeftFalls ==
  ASSUME RInv, RInv', Read
  PROVE  Left \in Nat /\ Left' \in Nat /\ Left' < Left
<1>1. step # "idle"
  BY DEF Read, WildRead, SendCommand, PollStatus, CheckError, TakeData, EndRead
<1>2. PICK n \in Nat, l \in Nat : n = request.n /\ l = Len(buf)
  BY <1>1, UnderWay DEF RInv
<1>3. InLoop => l < n
  BY <1>2 DEF RInv, Unfinished
<1>4. CASE WildRead \/ EndRead
  <2>1. step' = "idle" /\ step \in {"command", "done"}
    BY <1>4 DEF WildRead, EndRead
  <2>2. Left' = 0
    BY <2>1 DEF Left
  <2>3. Left \in Nat /\ Left > 0
    BY <1>2, <1>3, <2>1 DEF Left, InLoop
  <2>4. QED
    BY <2>2, <2>3
<1>5. CASE SendCommand \/ PollStatus \/ CheckError
  <2>1. /\ UNCHANGED <<request, buf>>
        /\ \/ step = "command" /\ step' = "poll"
           \/ step = "poll" /\ step' = "check"
           \/ step = "check" /\ step' \in {"data", "idle"}
    BY <1>5 DEF SendCommand, PollStatus, CheckError
  <2>2. QED
    BY <1>2, <1>3, <2>1 DEF Left, InLoop
<1>6. CASE TakeData
  <2>1. step = "data" /\ step' = (IF l + 1 = n THEN "done" ELSE "command") /\ UNCHANGED request
    BY <1>2, <1>6 DEF TakeData
  <2>2. l < n
    BY <1>3, <2>1 DEF InLoop
  <2>3. Left = 4 * (n - l)
    BY <1>2, <2>1 DEF Left
  <2>4. PICK w : buf' = Append(buf, w)
    BY <1>6 DEF TakeData
  <2>5. Len(buf') = l + 1
    BY <1>1, <1>2, <2>4, UnderWay DEF RInv
  <2>6. Left' = IF l + 1 = n THEN 1 ELSE 4 * (n - (l + 1)) + 3
    BY <1>2, <2>1, <2>5 DEF Left
  <2>7. QED
    BY <2>2, <2>3, <2>6
<1>7. QED
  BY <1>4, <1>5, <1>6 DEF Read

\* ata_read_one (ATA.c) is never called for more sectors than were asked for,
\* so that the caller's buffer takes them all.
THEOREM ReadsFitTheBuffer == Spec => []BufferFits
<1>1. RInv => BufferFits
  BY DEF RInv
<1>2. QED
  BY RInitially, RInvariance, <1>1, PTL DEF Spec

\* ATA_waitBusy (ATA.c), which looks at the primary channel whatever the drive
\* is, never waits for a disk in its place there that has nothing left to do.
THEOREM PollsAWorkingDrive == Spec => []PollIsAnswered
<1>1. RInv => PollIsAnswered
  <2> SUFFICES ASSUME RInv, step = "poll", Primary(request.dev)
               PROVE  Status(0) = status[request.dev.drive] /\ Status(0) # "idle"
    BY DEF PollIsAnswered
  <2>1. request # NULL
    BY UnderWay DEF RInv
  <2>2. selected[0] = request.dev.drive
    BY <2>1 DEF RInv, IInv, CommandHolds
  <2>3. request.dev.drive \in {0, 1}
    BY PrimaryFacts
  <2>4. Current(0) = request.dev.drive
    BY <2>2, <2>3 DEF Current
  <2>5. QED
    BY <2>4 DEF Status, RInv, AtWork
<1>2. QED
  BY RInitially, RInvariance, <1>1, PTL DEF Spec

\* Each step of a read brings its end nearer, for any number of sectors: only
\* the poll can hold it up.
THEOREM ReadsComeToAnEnd == Spec => ReadAdvances
<1>1. RInv /\ RInv' /\ [Next]_vars => [Read => Left \in Nat /\ Left' \in Nat /\ Left' < Left]_vars
  BY LeftFalls
<1>2. QED
  BY RInitially, RInvariance, <1>1, PTL DEF Spec, ReadAdvances
=============================================================================
