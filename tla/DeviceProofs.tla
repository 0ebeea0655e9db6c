----------------------------- MODULE DeviceProofs -----------------------------
(***************************************************************************)
(* For every machine: two detections that share a table and a count make   *)
(* one device of each disk, and the last device is the one that is mounted *)
(* on "/ata0".                                                             *)
(***************************************************************************)
EXTENDS DiskProofs, SequenceTheorems

-----------------------------------------------------------------------------
(* The inductive invariant *)

HasDrive(p) == machine.drive[p] \in {"ata", "atapi"}

\* Up to the last slot taken, by either detection, the drives go up, and are
\* what they are said to be.
TableInOrder ==
  /\ \A i, j, k \in Positions :
       i < j /\ j <= k /\ ide_devices[k].Reserved => ide_devices[i].drive < ide_devices[j].drive
  /\ \A j, k \in Positions :
       j <= k /\ ide_devices[k].Reserved => machine.drive[ide_devices[j].drive] = ide_devices[j].Type

\* The slots in front of count are those of the drives passed so far; those
\* behind, left by the first detection, are of drives still to come.
Detected ==
  phase = "detect" =>
    /\ count <= ide_devices_count
    /\ \A j \in Positions : j < count => ide_devices[j].Reserved /\ ide_devices[j].drive < at
    /\ \A j, k \in Positions :
         count <= j /\ j <= k /\ ide_devices[k].Reserved => at <= ide_devices[j].drive
    /\ \A p \in Positions :
         p < at /\ HasDrive(p) => \E j \in Positions : j < count /\ ide_devices[j].drive = p

TableComplete ==
  phase \notin {"pci", "detect"} =>
    /\ \A k \in Positions : ide_devices[k].Reserved => k < ide_devices_count
    /\ \A p \in Positions :
         HasDrive(p) => \E j \in Positions : ide_devices[j].Reserved /\ ide_devices[j].drive = p

\* The device of a slot in front of n, or the AHCI driver's.
IsSlotDevice(d, n) ==
  \E j \in Positions :
    /\ j < n /\ IsDisk(ide_devices[j])
    /\ d.drive = ide_devices[j].drive /\ d.id = ATA_DeviceIndex + j

IsAhciDevice(d, k) == d.drive = Ahci /\ d.id = 32 /\ k = 1 /\ machine.ahci

\* The devices are those of the slots in front of n.
Registered(n) ==
  /\ \A k \in 1 .. Len(devices) : IsAhciDevice(devices[k], k) \/ IsSlotDevice(devices[k], n)
  /\ \A j \in Positions :
       j < n /\ IsDisk(ide_devices[j]) =>
         \E k \in 1 .. Len(devices) : devices[k].drive = ide_devices[j].drive
  /\ \A k, l \in 1 .. Len(devices) :
       k < l => /\ devices[k].id < devices[l].id
                /\ devices[k].drive # Ahci => devices[k].drive < devices[l].drive
  /\ devices # <<>> => ata_Device = Len(devices) - 1

InTheTable == ide_devices_count <= 4

RegistryInStep ==
  /\ phase = "pci" => devices = <<>> /\ ata_Device = 0
  /\ phase = "detect" => Registered(0)
  /\ phase = "register" /\ InTheTable => at <= ide_devices_count /\ Registered(at)
  /\ Started /\ InTheTable => Registered(4)

\* What is to be mounted, and what is.
IsLast(d) == devices # <<>> /\ d = devices[Len(devices)] /\ d.id # 0

MountsLast ==
  /\ ~Started => mounted = NULL
  /\ InTheTable =>
       /\ phase = "mounting" => request # NULL /\ IsLast(request.dev)
       /\ mounted # NULL => IsLast(mounted)

DeviceInv == IInv /\ TableInOrder /\ Detected /\ TableComplete /\ RegistryInStep /\ MountsLast

-----------------------------------------------------------------------------
(* Slots and devices *)

LEMMA SlotFacts ==
  ASSUME IInv, NEW j \in Positions
  PROVE  /\ j \in Int /\ 0 <= j /\ j <= 3
         /\ ide_devices[j].drive \in Positions /\ ide_devices[j].drive \in Int
         /\ ide_devices[j].drive <= 3 /\ 0 <= ide_devices[j].drive
         /\ ide_devices[j].Type \in {"ata", "atapi"} /\ ide_devices[j].Reserved \in BOOLEAN
<1>1. ide_devices[j] \in Slot
  BY DEF IInv, TypeOK
<1>2. QED
  BY <1>1 DEF Slot, Positions

LEMMA DeviceFacts ==
  ASSUME IInv, NEW k \in 1 .. Len(devices)
  PROVE  /\ devices[k] \in Device /\ devices[k].id \in Nat /\ k \in Nat /\ 1 <= k
<1>1. devices[k] \in Device
  <2>1. devices \in Seq(Device)
    BY DEF IInv, TypeOK
  <2>2. QED
    BY <2>1
<1>2. QED
  BY <1>1 DEF Device

LEMMA LenFacts ==
  ASSUME IInv
  PROVE  /\ Len(devices) \in Nat /\ ata_Device \in Nat
         /\ devices # <<>> => Len(devices) >= 1
<1>1. devices \in Seq(Device) /\ ata_Device \in Nat
  BY DEF IInv, TypeOK
<1>2. Len(devices) \in Nat /\ (devices # <<>> => Len(devices) # 0)
  BY <1>1, EmptySeq
<1>3. QED
  BY <1>1, <1>2

LEMMA IndexFacts == ATA_DeviceIndex \in Nat /\ (machine.ahci => ATA_DeviceIndex = 33)
                    /\ (~machine.ahci => ATA_DeviceIndex = 0)
BY DEF ATA_DeviceIndex

LEMMA AhciApart == Ahci \notin Positions
BY DiskAssumption

-----------------------------------------------------------------------------
(* The detection *)

LEMMA PciScanSteps ==
  ASSUME DeviceInv, PciScan
  PROVE  DeviceInv'
<1>1. /\ phase = "pci" /\ phase' = "detect"
      /\ devices' = IF machine.ahci THEN <<[id |-> 32, drive |-> Ahci]>> ELSE <<>>
      /\ UNCHANGED <<machine, at, count, ide_devices, ide_devices_count, ata_Device, mounted>>
      /\ ata_Device = 0 /\ at = 0 /\ count = 0 /\ ide_devices_count = 0
  BY DEF PciScan, DeviceInv, IInv, InTable, RegistryInStep
<1>2. IInv'
  BY PciScanKeeps DEF DeviceInv
<1>3. TableInOrder' /\ TableComplete'
  BY <1>1 DEF DeviceInv, TableInOrder, TableComplete
<1>4. Detected'
  <2>1. \A j \in Positions : ~(j < 0) /\ 0 <= ide_devices[j].drive
    BY SlotFacts DEF DeviceInv
  <2>2. \A p \in Positions : ~(p < 0)
    BY DEF Positions
  <2>3. QED
    BY <1>1, <2>1, <2>2 DEF Detected
<1>5. Registered(0)'
  <2>1. \A j \in Positions : ~(j < 0)
    BY DEF Positions
  <2>2. CASE machine.ahci
    <3>1. Len(devices') = 1 /\ devices'[1] = [id |-> 32, drive |-> Ahci]
      BY <1>1, <2>2
    <3>2. \A k \in 1 .. Len(devices') : k = 1
      BY <3>1
    <3>3. \A k \in 1 .. Len(devices') : IsAhciDevice(devices[k], k)'
      BY <1>1, <2>2, <3>1, <3>2 DEF IsAhciDevice
    <3>4. \A k, l \in 1 .. Len(devices') : ~(k < l)
      BY <3>2
    <3>5. ata_Device' = Len(devices') - 1
      BY <1>1, <3>1
    <3>6. QED
      BY <2>1, <3>3, <3>4, <3>5 DEF Registered
  <2>3. CASE ~machine.ahci
    <3>1. devices' = <<>> /\ 1 .. Len(devices') = {}
      BY <1>1, <2>3
    <3>2. QED
      BY <2>1, <3>1 DEF Registered
  <2>4. QED
    BY <2>2, <2>3
<1>6. RegistryInStep' /\ MountsLast'
  BY <1>1, <1>5 DEF RegistryInStep, MountsLast, Started, DeviceInv
<1>7. QED
  BY <1>2, <1>3, <1>4, <1>6 DEF DeviceInv

\* What the detection leaves alone.
LEMMA DetectionLeaves ==
  ASSUME DeviceInv, phase = "detect", phase' = "detect", ide_devices' \in [Positions -> Slot],
         UNCHANGED <<machine, registry>>
  PROVE  TableComplete' /\ RegistryInStep' /\ MountsLast'
<1>1. Registered(0) /\ mounted = NULL
  BY DEF DeviceInv, RegistryInStep, MountsLast, Started
<1>2. UNCHANGED <<machine, devices, ata_Device, mounted>>
  BY DEF registry
<1>3. \A j \in Positions : ~(j < 0)
  BY DEF Positions
<1>4. \A d : ~IsSlotDevice(d, 0) /\ ~IsSlotDevice(d, 0)'
  BY <1>3 DEF IsSlotDevice
<1>5. Registered(0)'
  <2>1. \A k \in 1 .. Len(devices) : IsAhciDevice(devices[k], k)
    BY <1>1, <1>4 DEF Registered
  <2>2. \A k \in 1 .. Len(devices') : IsAhciDevice(devices[k], k)'
    BY <1>2, <2>1 DEF IsAhciDevice
  <2>3. QED
    BY <1>1, <1>2, <1>3, <2>2 DEF Registered
<1>6. QED
  BY <1>1, <1>2, <1>5 DEF TableComplete, RegistryInStep, MountsLast, Started

\* A position without a drive: the slot it clears may hold a drive still to
\* come, but not the one of this position.
LEMMA NoDriveSteps ==
  ASSUME DeviceInv, NoDrive
  PROVE  DeviceInv'
<1>1. /\ phase = "detect" /\ phase' = "detect" /\ at \in Positions /\ at' = at + 1
      /\ machine.drive[at] = "none"
      /\ ide_devices' = [ide_devices EXCEPT ![count].Reserved = FALSE]
      /\ UNCHANGED <<machine, count, ide_devices_count, registry>>
  BY DEF NoDrive
<1>2. IInv /\ IInv'
  BY NoDriveKeeps DEF DeviceInv
<1>3. /\ at \in Int /\ at <= 3 /\ count \in Int /\ 0 <= count /\ count <= at /\ count \in Positions
  BY <1>1, <1>2, Ranges, Detecting DEF Positions
<1>4. ide_devices \in [Positions -> Slot] /\ ide_devices' \in [Positions -> Slot]
  BY <1>2 DEF IInv, TypeOK
<1>5. \A j \in Positions :
        /\ ide_devices'[j].drive = ide_devices[j].drive /\ ide_devices'[j].Type = ide_devices[j].Type
        /\ ide_devices'[j].Reserved => ide_devices[j].Reserved
        /\ j # count => ide_devices'[j].Reserved = ide_devices[j].Reserved
  <2>1. ide_devices[count] \in Slot
    BY <1>3, <1>4
  <2>2. ide_devices'[count] = [ide_devices[count] EXCEPT !.Reserved = FALSE]
    BY <1>1, <1>3, <1>4
  <2>3. /\ ide_devices'[count].drive = ide_devices[count].drive
        /\ ide_devices'[count].Type = ide_devices[count].Type /\ ~ide_devices'[count].Reserved
    BY <2>1, <2>2 DEF Slot
  <2>4. \A j \in Positions : j # count => ide_devices'[j] = ide_devices[j]
    BY <1>1, <1>4
  <2>5. QED
    BY <2>3, <2>4
<1>6. TableInOrder'
  BY <1>1, <1>5 DEF DeviceInv, TableInOrder
<1>7. Detected'
  <2>1. \A j \in Positions : j < count => ide_devices'[j].Reserved /\ ide_devices'[j].drive < at + 1
    <3> SUFFICES ASSUME NEW j \in Positions, j < count
                 PROVE  ide_devices'[j].Reserved /\ ide_devices'[j].drive < at + 1
      OBVIOUS
    <3>1. ide_devices[j].Reserved /\ ide_devices[j].drive < at
      BY <1>1 DEF DeviceInv, Detected
    <3>2. ide_devices[j].drive \in Int /\ j \in Int
      BY <1>2, SlotFacts
    <3>3. QED
      BY <1>3, <1>5, <3>1, <3>2
  <2>2. \A j, k \in Positions :
          count <= j /\ j <= k /\ ide_devices'[k].Reserved => at + 1 <= ide_devices'[j].drive
    <3> SUFFICES ASSUME NEW j \in Positions, NEW k \in Positions, count <= j, j <= k,
                        ide_devices'[k].Reserved
                 PROVE  at + 1 <= ide_devices'[j].drive
      OBVIOUS
    <3>1. at <= ide_devices[j].drive
      <4>1. ide_devices[k].Reserved
        BY <1>5
      <4>2. QED
        BY <1>1, <4>1 DEF DeviceInv, Detected
    <3>2. machine.drive[ide_devices[j].drive] = ide_devices[j].Type
      BY <1>5 DEF DeviceInv, TableInOrder
    <3>3. ide_devices[j].drive \in Int /\ ide_devices[j].Type # "none"
      BY <1>2, SlotFacts
    <3>4. ide_devices[j].drive # at
      BY <1>1, <3>2, <3>3
    <3>5. at + 1 <= ide_devices[j].drive
      BY <1>3, <3>1, <3>3, <3>4
    <3>6. QED
      BY <1>5, <3>5
  <2>3. \A p \in Positions :
          p < at + 1 /\ HasDrive(p) => \E j \in Positions : j < count /\ ide_devices'[j].drive = p
    <3> SUFFICES ASSUME NEW p \in Positions, p < at + 1, HasDrive(p)
                 PROVE  \E j \in Positions : j < count /\ ide_devices'[j].drive = p
      OBVIOUS
    <3>1. p # at
      BY <1>1 DEF HasDrive
    <3>2. p < at
      BY <1>3, <3>1 DEF Positions
    <3>3. QED
      BY <1>1, <1>5, <3>2 DEF DeviceInv, Detected
  <2>4. count <= ide_devices_count
    BY <1>1 DEF DeviceInv, Detected
  <2>5. QED
    BY <1>1, <2>1, <2>2, <2>3, <2>4 DEF Detected, HasDrive
<1>8. QED
  BY <1>1, <1>2, <1>4, <1>6, <1>7, DetectionLeaves DEF DeviceInv

\* A drive takes slot count. A drive that is still to come may have stood
\* there; those behind it come later than this one.
LEMMA FoundDriveSteps ==
  ASSUME DeviceInv, FoundDrive
  PROVE  DeviceInv'
<1> DEFINE Kind == machine.drive[at]
           new == [Reserved |-> TRUE, Type |-> Kind, drive |-> at]
<1>1. /\ phase = "detect" /\ phase' = "detect" /\ at \in Positions /\ at' = at + 1
      /\ count' = count + 1 /\ ide_devices_count' = ide_devices_count + 1
      /\ ide_devices' = [ide_devices EXCEPT ![count] = new]
      /\ UNCHANGED <<machine, registry>>
  BY DEF FoundDrive, Taken
<1>2. IInv /\ IInv'
  BY FoundDriveKeeps DEF DeviceInv
<1>3. /\ at \in Int /\ at <= 3 /\ count \in Int /\ 0 <= count /\ count <= at /\ count \in Positions
      /\ ide_devices_count \in Int /\ count <= ide_devices_count
  BY <1>1, <1>2, Ranges, Detecting DEF Positions, DeviceInv, Detected
<1>4. ide_devices \in [Positions -> Slot] /\ ide_devices' \in [Positions -> Slot]
  BY <1>2 DEF IInv, TypeOK
<1>5. /\ ide_devices'[count].drive = at /\ ide_devices'[count].Type = Kind
      /\ ide_devices'[count].Reserved
      /\ \A j \in Positions : j # count => ide_devices'[j] = ide_devices[j]
  BY <1>1, <1>3, <1>4
<1> HIDE DEF Kind, new
<1>6. \A j \in Positions : j < count => ide_devices[j].Reserved /\ ide_devices[j].drive < at
  BY <1>1 DEF DeviceInv, Detected
<1>7. \A j, k \in Positions :
        count <= j /\ j <= k /\ ide_devices[k].Reserved => at <= ide_devices[j].drive
  BY <1>1 DEF DeviceInv, Detected
<1>8. \A i, j, k \in Positions :
        i < j /\ j <= k /\ ide_devices[k].Reserved => ide_devices[i].drive < ide_devices[j].drive
  BY DEF DeviceInv, TableInOrder
<1>9. \A j \in Positions : j \in Int /\ ide_devices[j].drive \in Int
  BY <1>2, SlotFacts
<1>10. \A i, j, k \in Positions :
         i < j /\ j <= k /\ ide_devices'[k].Reserved => ide_devices'[i].drive < ide_devices'[j].drive
  <2> SUFFICES ASSUME NEW i \in Positions, NEW j \in Positions, NEW k \in Positions,
                      i < j, j <= k, ide_devices'[k].Reserved
               PROVE  ide_devices'[i].drive < ide_devices'[j].drive
    OBVIOUS
  <2>1. CASE k = count
    <3>1. ide_devices[i].drive < at /\ ide_devices'[i] = ide_devices[i]
      BY <1>3, <1>5, <1>6, <1>9, <2>1
    <3>2. CASE j = count
      BY <1>5, <3>1, <3>2
    <3>3. CASE j # count
      <4>1. j < count
        <5>1. j \in Int /\ count \in Int /\ j <= count
          BY <1>3, <1>9, <2>1
        <5>2. QED
          BY <3>3, <5>1
      <4>2. ide_devices[j].Reserved /\ j <= j
        BY <1>6, <1>9, <4>1
      <4>3. ide_devices[i].drive < ide_devices[j].drive
        BY <1>8, <4>2
      <4>4. QED
        BY <1>5, <3>1, <3>3, <4>3
    <3>4. QED
      BY <3>2, <3>3
  <2>2. CASE k # count
    <3>1. ide_devices[k].Reserved /\ ide_devices[i].drive < ide_devices[j].drive
      BY <1>5, <1>8, <2>2
    <3>2. CASE i = count
      <4>1. at <= ide_devices[i].drive
        BY <1>3, <1>7, <1>9, <3>1, <3>2
      <4>2. at < ide_devices[j].drive /\ j # count
        <5>1. /\ at \in Int /\ ide_devices[i].drive \in Int /\ ide_devices[j].drive \in Int
              /\ i \in Int /\ j \in Int
          BY <1>3, <1>9
        <5>2. at < ide_devices[j].drive
          BY <3>1, <4>1, <5>1
        <5>3. QED
          BY <3>2, <5>1, <5>2
      <4>3. QED
        BY <1>5, <3>2, <4>2
    <3>3. CASE j = count
      <4>1. i \in Int /\ j \in Int
        BY <1>9
      <4>2. i < count /\ i # count
        BY <3>3, <4>1
      <4>3. ide_devices[i].drive < at
        BY <1>6, <4>2
      <4>4. QED
        BY <1>5, <3>3, <4>2, <4>3
    <3>4. CASE i # count /\ j # count
      BY <1>5, <3>1, <3>4
    <3>5. QED
      BY <3>2, <3>3, <3>4
  <2>3. QED
    BY <2>1, <2>2
<1>11. \A j, k \in Positions :
         j <= k /\ ide_devices'[k].Reserved => machine.drive[ide_devices'[j].drive] = ide_devices'[j].Type
  <2> SUFFICES ASSUME NEW j \in Positions, NEW k \in Positions, j <= k, ide_devices'[k].Reserved
               PROVE  machine.drive[ide_devices'[j].drive] = ide_devices'[j].Type
    OBVIOUS
  <2>1. CASE j = count
    BY <1>5, <2>1 DEF Kind
  <2>2. CASE j # count /\ k # count
    <3>1. ide_devices[k].Reserved
      BY <1>5, <2>2
    <3>2. QED
      BY <1>5, <2>2, <3>1 DEF DeviceInv, TableInOrder
  <2>3. CASE j # count /\ k = count
    <3>1. j < count
      BY <1>3, <1>9, <2>3
    <3>2. ide_devices[j].Reserved /\ j <= j
      BY <1>6, <1>9, <3>1
    <3>3. QED
      BY <1>5, <2>3, <3>2 DEF DeviceInv, TableInOrder
  <2>4. QED
    BY <2>1, <2>2, <2>3
<1>12. TableInOrder'
  BY <1>1, <1>10, <1>11 DEF TableInOrder
<1>13. Detected'
  <2>1. \A j \in Positions : j < count + 1 => ide_devices'[j].Reserved /\ ide_devices'[j].drive < at + 1
    <3> SUFFICES ASSUME NEW j \in Positions, j < count + 1
                 PROVE  ide_devices'[j].Reserved /\ ide_devices'[j].drive < at + 1
      OBVIOUS
    <3>1. CASE j = count
      <4>1. at < at + 1
        BY <1>3
      <4>2. QED
        BY <1>5, <3>1, <4>1
    <3>2. CASE j # count
      <4>1. j < count
        BY <1>3, <1>9, <3>2
      <4>2. ide_devices[j].Reserved /\ ide_devices[j].drive < at + 1
        BY <1>3, <1>6, <1>9, <4>1
      <4>3. QED
        BY <1>5, <3>2, <4>2
    <3>3. QED
      BY <3>1, <3>2
  <2>2. \A j, k \in Positions :
          count + 1 <= j /\ j <= k /\ ide_devices'[k].Reserved => at + 1 <= ide_devices'[j].drive
    <3> SUFFICES ASSUME NEW j \in Positions, NEW k \in Positions, count + 1 <= j, j <= k,
                        ide_devices'[k].Reserved
                 PROVE  at + 1 <= ide_devices'[j].drive
      OBVIOUS
    <3>1. count < j /\ j # count /\ k # count /\ count <= count /\ count <= k
      BY <1>3, <1>9
    <3>2. ide_devices[k].Reserved
      BY <1>5, <3>1
    <3>3. at <= ide_devices[count].drive
      BY <1>3, <1>7, <3>1, <3>2
    <3>4. ide_devices[count].drive < ide_devices[j].drive
      BY <1>3, <1>8, <3>1, <3>2
    <3>5. at + 1 <= ide_devices[j].drive
      BY <1>3, <1>9, <3>3, <3>4
    <3>6. QED
      BY <1>5, <3>1, <3>5
  <2>3. \A p \in Positions :
          p < at + 1 /\ HasDrive(p) => \E j \in Positions : j < count + 1 /\ ide_devices'[j].drive = p
    <3> SUFFICES ASSUME NEW p \in Positions, p < at + 1, HasDrive(p)
                 PROVE  \E j \in Positions : j < count + 1 /\ ide_devices'[j].drive = p
      OBVIOUS
    <3>1. CASE p = at
      <4>1. count < count + 1
        BY <1>3
      <4>2. QED
        BY <1>3, <1>5, <3>1, <4>1
    <3>2. CASE p # at
      <4>1. p < at
        BY <1>3, <1>9, <3>2
      <4>2. PICK j \in Positions : j < count /\ ide_devices[j].drive = p
        BY <1>1, <4>1 DEF DeviceInv, Detected
      <4>3. j < count + 1 /\ j # count
        BY <1>3, <1>9, <4>2
      <4>4. QED
        BY <1>5, <4>2, <4>3
    <3>3. QED
      BY <3>1, <3>2
  <2>4. count + 1 <= ide_devices_count + 1
    BY <1>3
  <2>5. QED
    BY <1>1, <2>1, <2>2, <2>3, <2>4 DEF Detected, HasDrive
<1>14. QED
  BY <1>1, <1>2, <1>4, <1>12, <1>13, DetectionLeaves DEF DeviceInv

\* A detection has ended: a slot taken is one of its own, as no drive is
\* still to come.
LEMMA TableIsDone ==
  ASSUME DeviceInv, phase = "detect", at = 4
  PROVE  /\ \A k \in Positions : ide_devices[k].Reserved => k < ide_devices_count
         /\ \A p \in Positions :
              HasDrive(p) => \E j \in Positions : ide_devices[j].Reserved /\ ide_devices[j].drive = p
<1>1. IInv /\ count \in Int /\ ide_devices_count \in Int /\ count <= ide_devices_count
  BY Ranges DEF DeviceInv, Detected
<1>2. ASSUME NEW k \in Positions, ide_devices[k].Reserved PROVE k < ide_devices_count
  <2>1. k \in Int /\ ide_devices[k].drive \in Int /\ ide_devices[k].drive <= 3
    BY <1>1, SlotFacts
  <2>2. CASE count <= k
    <3>1. at <= ide_devices[k].drive
      BY <1>2, <2>1, <2>2 DEF DeviceInv, Detected
    <3>2. QED
      BY <2>1, <3>1
  <2>3. QED
    BY <1>1, <2>1, <2>2
<1>3. ASSUME NEW p \in Positions, HasDrive(p)
      PROVE  \E j \in Positions : ide_devices[j].Reserved /\ ide_devices[j].drive = p
  <2>1. p < at
    BY DEF Positions
  <2>2. PICK j \in Positions : j < count /\ ide_devices[j].drive = p
    BY <1>3, <2>1 DEF DeviceInv, Detected
  <2>3. QED
    BY <2>2 DEF DeviceInv, Detected
<1>4. QED
  BY <1>2, <1>3

\* The registry is as it was if nothing it is made of changes.
LEMMA RegisteredStays ==
  ASSUME UNCHANGED <<machine, ide_devices, devices, ata_Device>>, NEW n \in Int, Registered(n)
  PROVE  Registered(n)'
<1>1. ATA_DeviceIndex' = ATA_DeviceIndex
  BY DEF ATA_DeviceIndex
<1>2. \A d : IsSlotDevice(d, n) => IsSlotDevice(d, n)'
  BY <1>1 DEF IsSlotDevice
<1>3. \A k \in 1 .. Len(devices') : IsAhciDevice(devices[k], k)' \/ IsSlotDevice(devices[k], n)'
  BY <1>2 DEF Registered, IsAhciDevice
<1>4. QED
  BY <1>3 DEF Registered

\* Where no slot from m on holds a disk, the slots in front of m are all.
LEMMA RegisteredAll ==
  ASSUME NEW m \in Int, NEW n \in Int, m <= n, Registered(m),
         \A j \in Positions : IsDisk(ide_devices[j]) => j < m
  PROVE  Registered(n)
<1>1. \A j \in Positions : j \in Int
  BY DEF Positions
<1>2. \A d : IsSlotDevice(d, m) => IsSlotDevice(d, n)
  BY <1>1 DEF IsSlotDevice
<1>3. QED
  BY <1>2 DEF Registered

LEMMA EndDetectionSteps ==
  ASSUME DeviceInv, EndDetection
  PROVE  DeviceInv'
<1>1. /\ phase = "detect" /\ at = 4 /\ at' = 0 /\ count' = 0
      /\ phase' \in {"detect", "register", "mount"}
      /\ phase' = "mount" => \A i \in Positions : ~ide_devices[i].Reserved
      /\ UNCHANGED <<machine, ide_devices, ide_devices_count, devices, ata_Device, mounted>>
  BY DEF EndDetection, registry
<1>2. IInv /\ IInv'
  BY EndDetectionKeeps DEF DeviceInv
<1>3. TableInOrder'
  BY <1>1 DEF DeviceInv, TableInOrder
<1>4. Detected'
  <2>1. \A j \in Positions : ~(j < 0) /\ 0 <= ide_devices[j].drive
    BY <1>2, SlotFacts
  <2>2. 0 <= ide_devices_count
    BY <1>2, Ranges
  <2>3. \A p \in Positions : ~(p < 0)
    BY DEF Positions
  <2>4. QED
    BY <1>1, <2>1, <2>2, <2>3 DEF Detected
<1>5. TableComplete'
  BY <1>1, TableIsDone DEF TableComplete, HasDrive
<1>6. Registered(0) /\ Registered(0)' /\ mounted = NULL
  <2>1. Registered(0) /\ mounted = NULL
    BY <1>1 DEF DeviceInv, RegistryInStep, MountsLast, Started
  <2>2. QED
    BY <1>1, <2>1, RegisteredStays
<1>7. phase' = "mount" => Registered(4)'
  <2>1. SUFFICES ASSUME phase' = "mount" PROVE Registered(4)'
    OBVIOUS
  <2>2. \A j \in Positions : IsDisk(ide_devices[j]) => j < 0
    BY <1>1, <2>1 DEF IsDisk
  <2>3. Registered(4)
    BY <1>6, <2>2, RegisteredAll
  <2>4. QED
    BY <1>1, <2>3, RegisteredStays
<1>8. RegistryInStep'
  <2>1. 0 <= ide_devices_count
    BY <1>2, Ranges
  <2>2. QED
    BY <1>1, <1>6, <1>7, <2>1 DEF RegistryInStep, Started
<1>9. MountsLast'
  BY <1>1, <1>6 DEF MountsLast
<1>10. QED
  BY <1>2, <1>3, <1>4, <1>5, <1>8, <1>9 DEF DeviceInv

-----------------------------------------------------------------------------
(* The registration *)

\* A slot with a disk becomes the last device: its id and its drive are above
\* those of all before it.
LEMMA DiskIsAppended ==
  ASSUME IInv, TableInOrder, NEW m \in Positions, m = at, Registered(m), IsDisk(ide_devices[m]),
         addDevice(ide_devices[m].drive), UNCHANGED <<machine, ide_devices>>
  PROVE  Registered(m + 1)'
<1> DEFINE new == [id |-> ATA_DeviceIndex + m, drive |-> ide_devices[m].drive]
           n == Len(devices)
<1>1. devices' = Append(devices, new) /\ ata_Device' = n
  BY DEF addDevice
<1>2. /\ devices \in Seq(Device) /\ n \in Nat /\ new \in Device
      /\ m \in Int /\ m \in Nat /\ ide_devices[m].drive \in Positions
  <2>1. ATA_DeviceIndex + m \in Nat /\ m \in Int /\ m \in Nat
    BY IndexFacts DEF Positions
  <2>2. ide_devices[m].drive \in Positions
    BY SlotFacts
  <2>3. devices \in Seq(Device) /\ n \in Nat
    BY LenFacts DEF IInv, TypeOK
  <2>4. QED
    BY <2>1, <2>2, <2>3 DEF Device
<1>3. new.id = ATA_DeviceIndex + m /\ new.drive = ide_devices[m].drive /\ new.drive # Ahci
  BY <1>2, AhciApart
<1> HIDE DEF new
<1>4. /\ Len(devices') = n + 1 /\ devices' # <<>> /\ devices'[n + 1] = new
      /\ \A k \in 1 .. n : devices'[k] = devices[k]
  <2>1. Len(devices') = n + 1 /\ devices'[n + 1] = new /\ \A k \in 1 .. n : devices'[k] = devices[k]
    BY <1>1, <1>2, AppendFacts
  <2>2. devices' # <<>>
    BY <1>1, <1>2
  <2>3. QED
    BY <2>1, <2>2
<1> HIDE DEF n
<1>5. \A k \in 1 .. n + 1 : k \in 1 .. n \/ k = n + 1
  BY <1>2
<1>6. \A d : IsSlotDevice(d, m) => IsSlotDevice(d, m + 1)'
  <2>1. \A j \in Positions : j \in Int /\ (j < m => j < m + 1)
    BY <1>2 DEF Positions
  <2>2. ATA_DeviceIndex' = ATA_DeviceIndex
    BY DEF ATA_DeviceIndex
  <2>3. QED
    BY <2>1, <2>2 DEF IsSlotDevice
<1>7. \A k \in 1 .. n : IsAhciDevice(devices[k], k) \/ IsSlotDevice(devices[k], m)
  BY DEF Registered, n
<1>8. \A k \in 1 .. n + 1 : IsAhciDevice(devices[k], k)' \/ IsSlotDevice(devices[k], m + 1)'
  <2> SUFFICES ASSUME NEW k \in 1 .. n + 1
               PROVE  IsAhciDevice(devices[k], k)' \/ IsSlotDevice(devices[k], m + 1)'
    OBVIOUS
  <2>1. CASE k \in 1 .. n
    <3>1. devices'[k] = devices[k] /\ (IsAhciDevice(devices[k], k) \/ IsSlotDevice(devices[k], m))
      BY <1>4, <1>7, <2>1
    <3>2. CASE IsAhciDevice(devices[k], k)
      BY <3>1, <3>2 DEF IsAhciDevice
    <3>3. CASE IsSlotDevice(devices[k], m)
      <4>1. PICK d : d = devices[k]
        OBVIOUS
      <4>2. IsSlotDevice(d, m + 1)' /\ devices'[k] = d
        BY <1>6, <3>1, <3>3, <4>1
      <4>3. QED
        BY <4>2 DEF IsSlotDevice
    <3>4. QED
      BY <3>1, <3>2, <3>3
  <2>2. CASE k = n + 1
    <3>1. m < m + 1 /\ ATA_DeviceIndex' = ATA_DeviceIndex
      BY <1>2 DEF ATA_DeviceIndex
    <3>2. devices'[k].id = ATA_DeviceIndex' + m /\ devices'[k].drive = ide_devices'[m].drive
      BY <1>3, <1>4, <2>2, <3>1
    <3>3. IsDisk(ide_devices'[m])
      OBVIOUS
    <3>4. QED
      BY <3>1, <3>2, <3>3 DEF IsSlotDevice
  <2>3. QED
    BY <1>5, <2>1, <2>2
<1>9. \A j \in Positions :
        j < m + 1 /\ IsDisk(ide_devices'[j]) =>
          \E k \in 1 .. n + 1 : devices'[k].drive = ide_devices'[j].drive
  <2> SUFFICES ASSUME NEW j \in Positions, j < m + 1, IsDisk(ide_devices[j])
               PROVE  \E k \in 1 .. n + 1 : devices'[k].drive = ide_devices[j].drive
    OBVIOUS
  <2>1. CASE j = m
    <3>1. n + 1 \in 1 .. n + 1
      BY <1>2
    <3>2. QED
      BY <1>3, <1>4, <2>1, <3>1
  <2>2. CASE j # m
    <3>1. j < m
      BY <1>2, <2>2 DEF Positions
    <3>2. PICK k \in 1 .. n : devices[k].drive = ide_devices[j].drive
      BY <3>1 DEF Registered, n
    <3>3. k \in 1 .. n + 1
      BY <1>2
    <3>4. QED
      BY <1>4, <3>2, <3>3
  <2>3. QED
    BY <2>1, <2>2
<1>10. ASSUME NEW k \in 1 .. n
       PROVE  devices[k].id < new.id /\ (devices[k].drive # Ahci => devices[k].drive < new.drive)
  <2>1. CASE IsAhciDevice(devices[k], k)
    <3>1. devices[k].id = 32 /\ devices[k].drive = Ahci /\ ATA_DeviceIndex = 33
      BY <2>1, IndexFacts DEF IsAhciDevice
    <3>2. QED
      BY <1>2, <1>3, <3>1
  <2>2. CASE IsSlotDevice(devices[k], m)
    <3>1. PICK j \in Positions : /\ j < m /\ devices[k].drive = ide_devices[j].drive
                                 /\ devices[k].id = ATA_DeviceIndex + j
      BY <2>2 DEF IsSlotDevice
    <3>2. ide_devices[j].drive < ide_devices[m].drive
      <4>1. ide_devices[m].Reserved /\ m <= m
        BY <1>2 DEF IsDisk
      <4>2. QED
        BY <3>1, <4>1 DEF TableInOrder
    <3>3. devices[k].id < new.id
      <4>1. j \in Int /\ ATA_DeviceIndex \in Int
        BY IndexFacts DEF Positions
      <4>2. QED
        BY <1>2, <1>3, <3>1, <4>1
    <3>4. QED
      BY <1>3, <3>1, <3>2, <3>3
  <2>3. QED
    BY <1>7, <2>1, <2>2
<1>11. \A k, l \in 1 .. n + 1 :
         k < l => /\ devices'[k].id < devices'[l].id
                  /\ devices'[k].drive # Ahci => devices'[k].drive < devices'[l].drive
  <2> SUFFICES ASSUME NEW k \in 1 .. n + 1, NEW l \in 1 .. n + 1, k < l
               PROVE  /\ devices'[k].id < devices'[l].id
                      /\ devices'[k].drive # Ahci => devices'[k].drive < devices'[l].drive
    OBVIOUS
  <2>1. k \in 1 .. n
    BY <1>2
  <2>2. CASE l \in 1 .. n
    BY <1>4, <2>1, <2>2 DEF Registered, n
  <2>3. CASE l = n + 1
    BY <1>4, <1>10, <2>1, <2>3
  <2>4. QED
    BY <1>5, <2>2, <2>3
<1>12. ata_Device' = Len(devices') - 1
  BY <1>1, <1>2, <1>4
<1>13. QED
  BY <1>4, <1>8, <1>9, <1>11, <1>12 DEF Registered

LEMMA RegisterDriveSteps ==
  ASSUME DeviceInv, RegisterDrive
  PROVE  DeviceInv'
<1>1. /\ phase = "register" /\ phase' = "register" /\ at < ide_devices_count /\ at' = at + 1
      /\ UNCHANGED <<machine, ide_devices, ide_devices_count, mounted>>
  BY DEF RegisterDrive
<1>2. IInv /\ IInv'
  BY RegisterDriveKeeps DEF DeviceInv
<1>3. TableInOrder' /\ Detected' /\ TableComplete'
  BY <1>1 DEF DeviceInv, TableInOrder, Detected, TableComplete, HasDrive
<1>4. ASSUME InTheTable, NEW m \in Nat, m = at
      PROVE  m + 1 <= ide_devices_count /\ Registered(m + 1)'
  <2>1. m \in Nat /\ ide_devices_count \in Nat /\ ide_devices_count <= 4
    BY <1>2, <1>4, Ranges DEF InTheTable
  <2>2. m + 1 <= ide_devices_count /\ m \in Positions
    BY <1>1, <1>4, <2>1 DEF Positions
  <2>3. Registered(m)
    BY <1>1, <1>4 DEF DeviceInv, RegistryInStep
  <2>4. CASE IsDisk(ide_devices[m])
    <3>1. addDevice(ide_devices[m].drive)
      BY <1>4, <2>2, <2>4 DEF RegisterDrive
    <3>2. QED
      BY <1>1, <1>2, <1>4, <2>2, <2>3, <2>4, <3>1, DiskIsAppended DEF DeviceInv
  <2>5. CASE ~IsDisk(ide_devices[m])
    <3>1. UNCHANGED <<devices, ata_Device>>
      BY <1>4, <2>2, <2>5 DEF RegisterDrive
    <3>2. \A j \in Positions : j < m + 1 /\ IsDisk(ide_devices[j]) => j < m
      <4>1. \A j \in Positions : j \in Int /\ (j < m + 1 /\ j # m => j < m)
        BY <2>1 DEF Positions
      <4>2. QED
        BY <2>5, <4>1
    <3>3. \A d : IsSlotDevice(d, m) => IsSlotDevice(d, m + 1)
      <4>1. \A j \in Positions : j \in Int /\ (j < m => j < m + 1)
        BY <2>1 DEF Positions
      <4>2. QED
        BY <4>1 DEF IsSlotDevice
    <3>4. Registered(m + 1)
      BY <2>3, <3>2, <3>3 DEF Registered
    <3>5. m + 1 \in Int
      BY <2>1
    <3>6. QED
      BY <1>1, <2>2, <3>1, <3>4, <3>5, RegisteredStays
  <2>6. QED
    BY <2>2, <2>4, <2>5
<1>5. RegistryInStep'
  <2>1. InTheTable' => InTheTable
    BY <1>1 DEF InTheTable
  <2>2. PICK m \in Nat : m = at
    BY <1>2, Ranges
  <2>3. Registered(m + 1)' => Registered(at)'
    BY <1>1, <2>2 DEF Registered, IsSlotDevice
  <2>4. InTheTable => at' <= ide_devices_count' /\ Registered(at)'
    BY <1>1, <1>4, <2>2, <2>3
  <2>5. QED
    BY <1>1, <2>1, <2>4 DEF RegistryInStep, Started
<1>6. MountsLast'
  BY <1>1 DEF DeviceInv, MountsLast, Started
<1>7. QED
  BY <1>2, <1>3, <1>5, <1>6 DEF DeviceInv

\* All disks are registered when the loop has reached the count.
LEMMA EndRegistrationSteps ==
  ASSUME DeviceInv, EndRegistration
  PROVE  DeviceInv'
<1>1. /\ phase = "register" /\ phase' = "mount" /\ at = ide_devices_count
      /\ UNCHANGED <<machine, ide_devices, ide_devices_count, devices, ata_Device, mounted>>
  BY DEF EndRegistration, detection, registry
<1>2. IInv /\ IInv'
  BY PhaseKeeps DEF DeviceInv
<1>3. TableInOrder' /\ Detected' /\ TableComplete'
  BY <1>1 DEF DeviceInv, TableInOrder, Detected, TableComplete, HasDrive
<1>4. ASSUME InTheTable PROVE Registered(4)'
  <2>1. PICK m \in Int : m = at /\ m <= 4
    BY <1>1, <1>2, <1>4, Ranges DEF InTheTable
  <2>2. Registered(m)
    BY <1>1, <1>4, <2>1 DEF DeviceInv, RegistryInStep
  <2>3. \A j \in Positions : IsDisk(ide_devices[j]) => j < m
    BY <1>1, <2>1 DEF DeviceInv, TableComplete, IsDisk
  <2>4. Registered(4)
    BY <2>1, <2>2, <2>3, RegisteredAll
  <2>5. QED
    BY <1>1, <2>4, RegisteredStays
<1>5. RegistryInStep'
  BY <1>1, <1>4 DEF RegistryInStep, Started, InTheTable
<1>6. MountsLast'
  BY <1>1 DEF DeviceInv, MountsLast, Started
<1>7. QED
  BY <1>2, <1>3, <1>5, <1>6 DEF DeviceInv

-----------------------------------------------------------------------------
(* From the mount on, neither the table nor the registry changes *)

LEMMA StartedStep ==
  ASSUME DeviceInv, Started, phase' \notin {"pci", "detect", "register"}, IInv', MountsLast',
         UNCHANGED <<machine, ide_devices, ide_devices_count, devices, ata_Device>>
  PROVE  DeviceInv'
<1>1. TableInOrder' /\ Detected' /\ TableComplete'
  BY DEF DeviceInv, TableInOrder, Detected, TableComplete, HasDrive, Started
<1>2. InTheTable => Registered(4)'
  BY RegisteredStays DEF DeviceInv, RegistryInStep
<1>3. RegistryInStep'
  BY <1>2 DEF RegistryInStep, Started, InTheTable
<1>4. QED
  BY <1>1, <1>3 DEF DeviceInv

\* A step in which nothing is mounted and no mount begins.
LEMMA MountStays ==
  ASSUME DeviceInv, Started, phase' \notin {"pci", "detect", "register"},
         phase' = "mounting" => phase = "mounting" /\ request' # NULL /\ request'.dev = request.dev,
         UNCHANGED <<ide_devices_count, devices, mounted>>
  PROVE  MountsLast'
BY DEF DeviceInv, MountsLast, Started, InTheTable, IsLast

LEMMA ProbeSteps ==
  ASSUME DeviceInv, Probe
  PROVE  DeviceInv'
<1>1. PICK dev : dev = GetDevice(ata_Device)
  OBVIOUS
<1>2. /\ phase = "mount" /\ phase' = "mounting" /\ dev # NULL /\ dev.id # 0
      /\ request' = [dev |-> dev, lba |-> 0, n |-> 1]
      /\ UNCHANGED <<machine, ide_devices, ide_devices_count, devices, ata_Device, mounted>>
  BY <1>1 DEF Probe, Call, Mountable, detection, registry
<1>3. IInv /\ IInv'
  BY ProbeKeeps DEF DeviceInv
<1>4. request' # NULL /\ request'.dev = dev
  <2>1. request' \in Requests \cup {NULL} /\ dev \in Device
    <3>1. ata_Device < Len(devices) /\ dev = devices[ata_Device + 1]
      BY <1>1, <1>2 DEF GetDevice
    <3>2. ata_Device + 1 \in 1 .. Len(devices)
      BY <1>3, <3>1, LenFacts
    <3>3. dev \in Device
      BY <1>3, <3>1, <3>2, DeviceFacts
    <3>4. QED
      BY <1>3, <3>3 DEF IInv, TypeOK
  <2>2. request' \in Requests
    BY <1>2, <2>1, DiskAssumption DEF Requests
  <2>3. QED
    BY <1>2, <2>2, DiskAssumption
<1>5. InTheTable => IsLast(dev)
  <2> SUFFICES ASSUME InTheTable PROVE IsLast(dev)
    OBVIOUS
  <2>1. Registered(4)
    BY <1>2 DEF DeviceInv, RegistryInStep, Started
  <2>2. ata_Device < Len(devices) /\ dev = devices[ata_Device + 1]
    BY <1>1, <1>2 DEF GetDevice
  <2>3. Len(devices) \in Nat /\ ata_Device \in Nat
    BY <1>3, LenFacts
  <2>4. devices # <<>>
    BY <2>2, <2>3
  <2>5. ata_Device + 1 = Len(devices)
    BY <2>1, <2>3, <2>4 DEF Registered
  <2>6. QED
    BY <1>2, <2>2, <2>4, <2>5 DEF IsLast
<1>6. MountsLast'
  <2>1. mounted' = NULL \/ (InTheTable => IsLast(mounted))
    BY <1>2 DEF DeviceInv, MountsLast
  <2>2. QED
    BY <1>2, <1>4, <1>5, <2>1 DEF MountsLast, Started, InTheTable, IsLast
<1>7. QED
  BY <1>2, <1>3, <1>6, StartedStep DEF Started

LEMMA EndMountSteps ==
  ASSUME DeviceInv, EndMount
  PROVE  DeviceInv'
<1>1. /\ phase = "mounting" /\ phase' \in {"shell", "halt"}
      /\ mounted' = request.dev \/ mounted' = mounted
      /\ UNCHANGED <<machine, ide_devices, ide_devices_count, devices, ata_Device>>
  BY DEF EndMount, detection
<1>2. IInv'
  BY EndMountKeeps DEF DeviceInv
<1>3. MountsLast'
  BY <1>1 DEF DeviceInv, MountsLast, Started, InTheTable, IsLast
<1>4. QED
  BY <1>1, <1>2, <1>3, StartedStep DEF Started

\* Every other step leaves the phase, or ends it.
LEMMA OtherSteps ==
  ASSUME DeviceInv, IInv', Started, phase' \in {phase, "shell", "halt", "panic", "lost"},
         phase' = "mounting" => request' # NULL /\ request'.dev = request.dev,
         UNCHANGED <<machine, ide_devices, ide_devices_count, devices, ata_Device, mounted>>
  PROVE  DeviceInv'
<1>1. phase' \notin {"pci", "detect", "register"} /\ (phase' = "mounting" => phase = "mounting")
  BY DEF Started
<1>2. MountsLast'
  BY <1>1, MountStays
<1>3. QED
  BY <1>1, <1>2, StartedStep

\* Who has asked is under way in a phase after the start-up.
LEMMA AskedIsStarted ==
  ASSUME IInv, step # "idle"
  PROVE  Started /\ request # NULL
BY DiskAssumption DEF IInv, Asked, Started

LEMMA ReadSteps ==
  ASSUME DeviceInv, Read
  PROVE  DeviceInv'
<1>1. IInv /\ IInv'
  BY WildReadKeeps, SendCommandKeeps, PollStatusKeeps, CheckErrorKeeps, TakeDataKeeps, EndReadKeeps
     DEF DeviceInv, Read
<1>2. step # "idle"
  BY DEF Read, WildRead, SendCommand, PollStatus, CheckError, TakeData, EndRead
<1>3. UNCHANGED <<machine, ide_devices, ide_devices_count, devices, ata_Device, mounted>>
  BY DEF Read, WildRead, SendCommand, PollStatus, CheckError, TakeData, EndRead, detection, registry
<1>4. phase' \in {phase, "panic", "lost"}
  BY DEF Read, WildRead, SendCommand, PollStatus, CheckError, TakeData, EndRead
<1>5. phase' = "mounting" => request' = request
  BY DEF Read, WildRead, SendCommand, PollStatus, CheckError, TakeData, EndRead
<1>6. QED
  BY <1>1, <1>2, <1>3, <1>4, <1>5, AskedIsStarted, OtherSteps

LEMMA RestSteps ==
  ASSUME DeviceInv,
         \/ WithoutDisk \/ Refused \/ (\E p \in Positions : Answer(p)) \/ UNCHANGED vars
         \/ \E i \in 1 .. Len(devices), lba \in Lbas, n \in Counts : Request(devices[i], lba, n)
  PROVE  DeviceInv'
<1>1. CASE WithoutDisk \/ Refused
  <2>1. IInv'
    BY <1>1, PhaseKeeps DEF DeviceInv
  <2>2. /\ phase = "mount" /\ phase' \in {"shell", "halt"}
        /\ UNCHANGED <<machine, ide_devices, ide_devices_count, devices, ata_Device, mounted>>
    BY <1>1 DEF WithoutDisk, Refused, detection, registry
  <2>3. QED
    BY <2>1, <2>2, OtherSteps DEF Started
<1>2. ASSUME NEW i \in 1 .. Len(devices), NEW lba \in Lbas, NEW n \in Counts,
             Request(devices[i], lba, n)
      PROVE  DeviceInv'
  <2>1. IInv'
    BY <1>2, RequestKeeps DEF DeviceInv
  <2>2. /\ phase = "shell" /\ phase' = "shell"
        /\ UNCHANGED <<machine, ide_devices, ide_devices_count, devices, ata_Device, mounted>>
    BY <1>2 DEF Request, detection, registry
  <2>3. QED
    BY <2>1, <2>2, OtherSteps DEF Started
<1>3. CASE (\E p \in Positions : Answer(p)) \/ UNCHANGED vars
  <2>1. IInv'
    BY <1>3, Invariance DEF DeviceInv, Next
  <2>2. UNCHANGED <<machine, phase, pass, at, count, ide_devices, ide_devices_count, devices,
                    ata_Device, mounted, request>>
    BY <1>3 DEF Answer, vars, detection, registry, reading
  <2>3. TableInOrder' /\ Detected' /\ TableComplete'
    BY <2>2 DEF DeviceInv, TableInOrder, Detected, TableComplete, HasDrive
  <2>4. \A n \in Int : Registered(n) => Registered(n)'
    BY <2>2, RegisteredStays
  <2>5. PICK m \in Int : m = at
    BY Ranges DEF DeviceInv
  <2>6. RegistryInStep'
    <3>1. (Registered(0) => Registered(0)') /\ (Registered(4) => Registered(4)')
      BY <2>4
    <3>2. Registered(at) => Registered(at)'
      <4>1. Registered(m) => Registered(m)'
        BY <2>4
      <4>2. at' = m /\ at = m
        BY <2>2, <2>5
      <4>3. QED
        BY <4>1, <4>2 DEF Registered, IsSlotDevice
    <3>3. QED
      BY <2>2, <3>1, <3>2 DEF DeviceInv, RegistryInStep, Started, InTheTable
  <2>7. MountsLast'
    BY <2>2 DEF DeviceInv, MountsLast, Started, InTheTable, IsLast
  <2>8. QED
    BY <2>1, <2>3, <2>6, <2>7 DEF DeviceInv
<1>4. QED
  BY <1>1, <1>2, <1>3

-----------------------------------------------------------------------------
(* The theorems *)

LEMMA DeviceInitially == Init => DeviceInv
<1> SUFFICES ASSUME Init PROVE DeviceInv
  OBVIOUS
<1>1. \A k \in Positions : ~ide_devices[k].Reserved
  BY DEF Init, EmptySlot
<1>2. TableInOrder /\ Detected /\ TableComplete
  BY <1>1 DEF Init, TableInOrder, Detected, TableComplete
<1>3. RegistryInStep /\ MountsLast
  BY DEF Init, RegistryInStep, MountsLast, Started
<1>4. QED
  BY <1>2, <1>3, Initially DEF DeviceInv

LEMMA DeviceInvariance == DeviceInv /\ [Next]_vars => DeviceInv'
<1> SUFFICES ASSUME DeviceInv, [Next]_vars PROVE DeviceInv'
  OBVIOUS
<1>1. CASE Boot
  BY <1>1, PciScanSteps, NoDriveSteps, FoundDriveSteps, EndDetectionSteps, RegisterDriveSteps,
     EndRegistrationSteps, RestSteps, ProbeSteps, EndMountSteps DEF Boot
<1>2. CASE Read
  BY <1>2, ReadSteps
<1>3. CASE ~Boot /\ ~Read
  BY <1>3, RestSteps DEF Next
<1>4. QED
  BY <1>1, <1>2, <1>3

\* The registry that is complete, in the words of EachDiskOnce.
LEMMA CompleteIsOnce ==
  ASSUME DeviceInv
  PROVE  EachDiskOnce
<1> SUFFICES ASSUME Started, ide_devices_count <= 4 PROVE EachDiskOnce
  BY DEF EachDiskOnce
<1>1. IInv /\ Registered(4) /\ TableInOrder
  BY DEF DeviceInv, RegistryInStep, InTheTable
<1>2. \A p \in Positions :
        HasDrive(p) => \E j \in Positions : ide_devices[j].Reserved /\ ide_devices[j].drive = p
  BY DEF DeviceInv, TableComplete, Started
<1>3. \A j \in Positions :
        IsDisk(ide_devices[j]) => ide_devices[j].drive \in Positions /\ IsAta(ide_devices[j].drive)
  <2> SUFFICES ASSUME NEW j \in Positions, IsDisk(ide_devices[j])
               PROVE  ide_devices[j].drive \in Positions /\ IsAta(ide_devices[j].drive)
    OBVIOUS
  <2>1. j <= j /\ ide_devices[j].drive \in Positions
    BY <1>1, SlotFacts
  <2>2. machine.drive[ide_devices[j].drive] = "ata"
    BY <1>1, <2>1 DEF TableInOrder, IsDisk
  <2>3. QED
    BY <2>1, <2>2 DEF IsAta
<1>4. ASSUME NEW k \in 1 .. Len(devices), devices[k].drive # Ahci
      PROVE  devices[k].drive \in Positions /\ IsAta(devices[k].drive)
  <2>1. IsSlotDevice(devices[k], 4)
    BY <1>1, <1>4 DEF Registered, IsAhciDevice
  <2>2. QED
    BY <1>3, <2>1 DEF IsSlotDevice
<1>5. ASSUME NEW p \in Positions, IsAta(p)
      PROVE  p # Ahci /\ \E k \in 1 .. Len(devices) : devices[k].drive = p
  <2>1. PICK j \in Positions : ide_devices[j].Reserved /\ ide_devices[j].drive = p
    BY <1>2, <1>5 DEF HasDrive, IsAta
  <2>2. j < 4 /\ j <= j
    BY DEF Positions
  <2>3. ide_devices[j].Type = "ata"
    BY <1>1, <1>5, <2>1, <2>2 DEF TableInOrder, IsAta
  <2>4. QED
    BY <1>1, <2>1, <2>2, <2>3, AhciApart DEF Registered, IsDisk
<1>6. {devices[k].drive : k \in 1 .. Len(devices)} \ {Ahci} = {p \in Positions : IsAta(p)}
  BY <1>4, <1>5
<1>7. QED
  BY <1>1, <1>6 DEF EachDiskOnce, Registered

\* However many drives there are, and however the two detections of
\* ide_controller.c share their table and count, ATA_init (ATA.c) makes one
\* device of each disk, in order, unless the count leads behind the table.
THEOREM DisksRegistered == Spec => []EachDiskOnce
BY DeviceInitially, DeviceInvariance, CompleteIsOnce, PTL DEF Spec

LEMMA LastIsBoot ==
  ASSUME DeviceInv
  PROVE  BootDisk
<1> SUFFICES ASSUME mounted # NULL, ide_devices_count <= 4 PROVE BootDisk
  BY DEF BootDisk
<1>1. IsLast(mounted) /\ Started /\ IInv /\ TableInOrder
  BY DEF DeviceInv, MountsLast, InTheTable
<1>2. Registered(4)
  BY <1>1 DEF DeviceInv, RegistryInStep, InTheTable
<1>3. devices # <<>> /\ mounted = devices[Len(devices)] /\ mounted.id # 0
  BY <1>1 DEF IsLast
<1>4. ASSUME mounted.drive = ide_devices[0].drive PROVE machine.ahci
  <2>1. Len(devices) \in 1 .. Len(devices)
    BY <1>1, <1>3, LenFacts
  <2>2. CASE IsSlotDevice(mounted, 4)
    <3>1. PICK j \in Positions : /\ IsDisk(ide_devices[j]) /\ mounted.drive = ide_devices[j].drive
                                 /\ mounted.id = ATA_DeviceIndex + j
      BY <2>2 DEF IsSlotDevice
    <3>2. 0 \in Positions /\ j \in Int /\ (j # 0 => 0 < j) /\ j <= j
      BY DEF Positions
    <3>3. ide_devices[0].drive \in Int /\ ide_devices[j].drive \in Int
      BY <1>1, <3>2, SlotFacts
    <3>4. j = 0
      <4>1. j # 0 => ide_devices[0].drive < ide_devices[j].drive
        BY <1>1, <3>1, <3>2 DEF TableInOrder, IsDisk
      <4>2. QED
        BY <1>4, <3>1, <3>3, <4>1
    <3>5. ATA_DeviceIndex # 0
      BY <1>3, <3>1, <3>4, IndexFacts
    <3>6. QED
      BY <3>5, IndexFacts
  <2>3. CASE IsAhciDevice(mounted, Len(devices))
    BY <2>3 DEF IsAhciDevice
  <2>4. QED
    BY <1>2, <1>3, <2>1, <2>2, <2>3 DEF Registered
<1>5. QED
  BY <1>3, <1>4 DEF BootDisk

\* What KernelStart (main.c) mounts on "/ata0" is the last device; the disk of
\* the first slot is not it unless there is an AHCI device, because its id
\* would be 0 and MountDevice refuses that.
THEOREM BootIsLast == Spec => []BootDisk
BY DeviceInitially, DeviceInvariance, LastIsBoot, PTL DEF Spec
=============================================================================
