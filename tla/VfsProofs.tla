------------------------------ MODULE VfsProofs ------------------------------
(***************************************************************************)
(* For every number of descriptors, mount slots, devices and places in the *)
(* shell's line: the mount table stays in order, a descriptor finds the    *)
(* device it was opened on, and the table of descriptors implements        *)
(* DescriptorTable.                                                        *)
(***************************************************************************)
EXTENDS Vfs, WellFoundedInduction, TLAPS

-----------------------------------------------------------------------------
(* The inductive invariant. A node holds a number into mountPoints; that   *)
(* the entry there never changes needs MountTable, by which a new mount    *)
(* goes into a slot that held nothing.                                     *)

IInv == /\ TypeOK
        /\ MountTable
        /\ DescriptorsFindTheirDevice
        /\ OneMountPerPlace

\* The root node of a slot is a node, and holds the slot's number.
LEMMA RootNodes ==
  ASSUME NEW id \in Ids
  PROVE  /\ RootNode(id) \in Node
         /\ RootNode(id).mountingPointId = id
         /\ \A s \in Sizes : /\ [RootNode(id) EXCEPT !.size = s] \in Node
                             /\ [RootNode(id) EXCEPT !.size = s].mountingPointId = id
BY VfsAssumption DEF RootNode, Node

LEMMA InitIInv == Init => IInv
<1> SUFFICES ASSUME Init PROVE IInv
  OBVIOUS
<1>1. VFS_FD_START = 4 /\ MAX_FILE_HANDLES \in Nat /\ Slots \in Nat \ {0} /\ Word \in Nat \ {0, 1}
  BY VfsAssumption DEF VFS_FD_START
<1>2. 0 \in Ids /\ 0 \in Places
  BY <1>1 DEF Ids, Places
<1>3. \A d \in Fds : fd_table[d] = [opened |-> FALSE, node |-> NULL, offset |-> 0]
  BY DEF Init
<1>4. [loc |-> Literal, dev |-> BootDev, root_node |-> RootNode(0)] \in MountPoint
  BY <1>2, RootNodes, VfsAssumption DEF MountPoint
<1>5. mountPoints \in [Ids -> MountPoint \cup {NULL}] /\ lastMountId \in Nat
  BY <1>2, <1>4 DEF Init
<1>6. fd_table \in [Fds -> FileDescriptor]
  BY <1>2 DEF Init, FileDescriptor
<1>7. TypeOK
  BY <1>5, <1>6 DEF Init, TypeOK
<1>8. ASSUME lastMountId = 0, mountPoints = [i \in Ids |-> NULL]
      PROVE  MountTable /\ OneMountPerPlace
  BY <1>1, <1>8 DEF MountTable, OneMountPerPlace, Ids
<1>9. ASSUME lastMountId = 1,
             mountPoints = [[i \in Ids |-> NULL] EXCEPT ![0] =
                              [loc |-> Literal, dev |-> BootDev, root_node |-> RootNode(0)]]
      PROVE  MountTable /\ OneMountPerPlace
  <2>1. /\ mountPoints[0] = [loc |-> Literal, dev |-> BootDev, root_node |-> RootNode(0)]
        /\ \A i \in Ids \ {0} : mountPoints[i] = NULL
    BY <1>2, <1>9
  <2>2. mountPoints[0] # NULL
    BY <1>4, <2>1, VfsAssumption
  <2>3. MountTable
    BY <1>1, <1>9, <2>1, <2>2 DEF MountTable, Ids
  <2>4. OneMountPerPlace
    BY <1>1, <2>1 DEF OneMountPerPlace, Ids
  <2>5. QED
    BY <2>3, <2>4
<1>10. DescriptorsFindTheirDevice
  BY <1>3 DEF DescriptorsFindTheirDevice
<1>11. QED
  BY <1>7, <1>8, <1>9, <1>10 DEF IInv, Init

-----------------------------------------------------------------------------

\* A mount fills the first empty slot, with a location no other mount point
\* has: checkMountPoint has just compared the text there with all of them.
LEMMA MountIInv ==
  ASSUME IInv, NEW dev \in DevIds, NEW loc \in Offsets, MountDevice(dev, loc)
  PROVE  IInv'
<1>1. CASE lastMountId \notin Ids
  <2>1. UNCHANGED <<input, mountPoints, filevars, eax>> /\ mode' = "lost" /\ lastMountId' = lastMountId + 1
    BY <1>1 DEF MountDevice
  <2>2. QED
    BY <2>1 DEF IInv, TypeOK, MountTable, DescriptorsFindTheirDevice, OneMountPerPlace, filevars
<1>2. CASE lastMountId \in Ids /\ mode' = mode
  <2> DEFINE k == lastMountId
             new == [loc |-> loc, dev |-> dev, root_node |-> RootNode(k)]
  <2>1. /\ mode = "run" /\ mode' = "run" /\ k \in Ids /\ k \in Nat /\ k < Slots
        /\ mountPoints' = [mountPoints EXCEPT ![k] = new]
        /\ lastMountId' = k + 1
        /\ UNCHANGED <<input, fd_table, ebx, named, eax>>
    BY <1>2, VfsAssumption DEF MountDevice, MountId, Running, filevars, Ids, IInv, TypeOK
  <2>2. new \in MountPoint /\ new # NULL
    BY <2>1, RootNodes, VfsAssumption DEF MountPoint
  <2>3. mountPoints \in [Ids -> MountPoint \cup {NULL}]
    BY DEF IInv, TypeOK
  <2>4. /\ mountPoints[k] = NULL
        /\ \A i \in Ids : IF i < k THEN mountPoints[i] # NULL /\ mountPoints[i].root_node = RootNode(i)
                                   ELSE mountPoints[i] = NULL
    BY <2>1 DEF IInv, MountTable
  <2>5. mountPoints'[k] = new /\ \A i \in Ids \ {k} : mountPoints'[i] = mountPoints[i]
    BY <2>1, <2>3
  <2>6. TypeOK'
    BY <2>1, <2>2, <2>3 DEF IInv, TypeOK
  <2>7. MountTable'
    <3>1. lastMountId' <= Slots
      BY <2>1, VfsAssumption
    <3>2. ASSUME NEW i \in Ids
          PROVE  IF i < lastMountId'
                 THEN mountPoints'[i] # NULL /\ mountPoints'[i].root_node = RootNode(i)
                 ELSE mountPoints'[i] = NULL
      <4>1. CASE i = k
        BY <2>1, <2>2, <2>5, <4>1
      <4>2. CASE i # k
        BY <2>1, <2>4, <2>5, <4>2 DEF Ids
      <4>3. QED
        BY <4>1, <4>2
    <3>3. QED
      BY <3>1, <3>2 DEF MountTable, RootNode
  <2>8. DescriptorsFindTheirDevice'
    BY <2>1, <2>4, <2>5 DEF IInv, TypeOK, FileDescriptor, Node, DescriptorsFindTheirDevice
  <2>9. OneMountPerPlace'
    <3>1. \A i \in Ids : i < k => mountPoints[i].loc # loc
      <4>1. ASSUME NEW i \in Ids, i < k, mountPoints[i].loc = loc PROVE FALSE
        <5>1. i \in 0 .. lastMountId - 1 /\ TextOf(mountPoints[i].loc) = input[loc]
          BY <2>1, <4>1, VfsAssumption DEF TextOf, Ids
        <5>2. QED
          BY <5>1 DEF MountDevice, checkMountPoint
      <4>2. QED
        BY <4>1
    <3>2. ASSUME NEW i \in Ids, NEW j \in Ids, i < j, mountPoints'[j] # NULL
          PROVE  mountPoints'[i].loc # mountPoints'[j].loc
      <4>1. CASE j = k
        BY <2>5, <3>1, <3>2, <4>1 DEF Ids
      <4>2. CASE j # k
        <5>1. mountPoints'[j] = mountPoints[j] /\ j < k
          BY <2>1, <2>4, <2>5, <3>2, <4>2 DEF Ids
        <5>2. mountPoints'[i] = mountPoints[i]
          BY <2>1, <2>5, <3>2, <5>1 DEF Ids
        <5>3. QED
          BY <3>2, <5>1, <5>2 DEF IInv, OneMountPerPlace
      <4>3. QED
        BY <4>1, <4>2
    <3>3. QED
      BY <3>2 DEF OneMountPerPlace
  <2>10. QED
    BY <2>6, <2>7, <2>8, <2>9 DEF IInv
<1>3. QED
  BY <1>1, <1>2 DEF MountDevice

-----------------------------------------------------------------------------

\* What a path resolves to: a node that leads back to a mount point, with the
\* device that mount point has, or no node of the file system at all.
LEMMA ResolvedNodes ==
  ASSUME IInv, Running, NEW path \in Path, NEW target \in vfs_resolve_path(path)
  PROVE  /\ target.node \in Node \cup {NULL, Wild}
         /\ target.dev \in DevIds \cup {NULL}
         /\ target.node \notin {NULL, Wild} =>
              /\ mountPoints[target.node.mountingPointId] # NULL
              /\ mountPoints[target.node.mountingPointId].dev = target.dev
<1>1. CASE target \in {[node |-> n, dev |-> NULL] : n \in {NULL, Wild}}
  BY <1>1
<1>2. ASSUME NEW i \in Found(path), NEW n \in NodesAt(i, path),
             target = [node |-> n, dev |-> mountPoints[i].dev]
      PROVE  /\ target.node \in Node /\ target.dev \in DevIds
             /\ mountPoints[target.node.mountingPointId] # NULL
             /\ mountPoints[target.node.mountingPointId].dev = target.dev
  <2>1. i \in Ids /\ i < lastMountId
    BY DEF Found, IsMountPoint
  <2>2. mountPoints[i] # NULL /\ mountPoints[i].root_node = RootNode(i) /\ mountPoints[i] \in MountPoint
    BY <2>1 DEF IInv, MountTable, TypeOK, Running
  <2>3. n \in {RootNode(i)} \cup {[RootNode(i) EXCEPT !.size = s] : s \in Sizes}
    BY <2>2 DEF NodesAt, vfs_findDir
  <2>4. n \in Node /\ n.mountingPointId = i
    BY <2>1, <2>3, RootNodes
  <2>5. QED
    BY <1>2, <2>2, <2>4 DEF MountPoint
<1>3. CASE path.rest = "bad"
  BY <1>3 DEF vfs_resolve_path
<1>4. CASE path.rest # "bad"
  <2>1. \/ \E i \in Found(path) :
             target \in {[node |-> n, dev |-> mountPoints[i].dev] : n \in NodesAt(i, path)}
        \/ target \in {[node |-> n, dev |-> NULL] : n \in {NULL, Wild}}
    BY <1>4 DEF vfs_resolve_path
  <2>2. QED
    BY <1>1, <1>2, <2>1
<1>5. QED
  BY <1>3, <1>4

\* What an open does to the table of descriptors.
OpensAt(d, target) ==
  /\ IsDescriptor(d)
  /\ fd_table' = [fd_table EXCEPT ![d] = [opened |-> TRUE, node |-> target.node, offset |-> 0]]
  /\ named' = [named EXCEPT ![d] = target.dev]
  /\ ebx' = d

LEMMA OpenIInv ==
  ASSUME IInv, NEW path \in Path, VFS_Open(path)
  PROVE  IInv'
<1>1. PICK target \in vfs_resolve_path(path) :
        \/ \E d \in Fds : OpensAt(d, target)
        \/ ebx' = -1 /\ UNCHANGED <<fd_table, named>>
  BY DEF VFS_Open, OpensAt
<1>2. /\ Running /\ UNCHANGED <<input, mountPoints, lastMountId, mode>> /\ eax' = CallNumber
  BY DEF VFS_Open, mountvars
<1>3. MountTable' /\ OneMountPerPlace'
  BY <1>2 DEF IInv, MountTable, OneMountPerPlace, RootNode
<1>4. CASE ebx' = -1 /\ UNCHANGED <<fd_table, named>>
  BY <1>2, <1>3, <1>4 DEF IInv, TypeOK, DescriptorsFindTheirDevice
<1>5. ASSUME NEW d \in Fds, OpensAt(d, target) PROVE IInv'
  <2>1. /\ target.node \in Node \cup {NULL, Wild} /\ target.dev \in DevIds \cup {NULL}
        /\ target.node \notin {NULL, Wild} =>
              /\ mountPoints[target.node.mountingPointId] # NULL
              /\ mountPoints[target.node.mountingPointId].dev = target.dev
    BY <1>2, ResolvedNodes
  <2>2. fd_table \in [Fds -> FileDescriptor] /\ named \in [Fds -> DevIds \cup {NULL}]
    BY DEF IInv, TypeOK
  <2>3. [opened |-> TRUE, node |-> target.node, offset |-> 0] \in FileDescriptor
    BY <2>1, VfsAssumption DEF FileDescriptor, Places
  <2>4. TypeOK'
    BY <1>2, <1>5, <2>1, <2>2, <2>3 DEF IInv, TypeOK, OpensAt
  <2>5. DescriptorsFindTheirDevice'
    <3>1. /\ fd_table'[d].node = target.node /\ named'[d] = target.dev
          /\ \A e \in Fds \ {d} : fd_table'[e] = fd_table[e] /\ named'[e] = named[e]
      BY <1>5, <2>2 DEF OpensAt
    <3>2. QED
      BY <1>2, <2>1, <3>1 DEF IInv, DescriptorsFindTheirDevice
  <2>6. QED
    BY <1>3, <2>4, <2>5 DEF IInv
<1>6. QED
  BY <1>1, <1>4, <1>5

-----------------------------------------------------------------------------

\* A step that leaves mount points and descriptors alone; what the shell's
\* line holds plays no part in the invariant.
LEMMA QuietIInv ==
  ASSUME IInv, UNCHANGED <<mountvars, filevars>>,
         input' \in [Offsets -> Words], eax' \in {-1, 0, 1, CallNumber},
         mode' \in {"run", "panic", "lost"}, mode' = "run" => mode = "run"
  PROVE  IInv'
BY DEF IInv, TypeOK, MountTable, DescriptorsFindTheirDevice, OneMountPerPlace, RootNode,
       mountvars, filevars

\* A step that changes a descriptor but not the node it holds.
LEMMA SameNodeIInv ==
  ASSUME IInv, UNCHANGED <<input, mountvars, ebx, named, mode>>,
         eax' \in {-1, 0, 1, CallNumber},
         fd_table' \in [Fds -> FileDescriptor],
         \A d \in Fds : fd_table'[d].node = fd_table[d].node
  PROVE  IInv'
<1>1. TypeOK'
  BY DEF IInv, TypeOK, mountvars
<1>2. MountTable' /\ OneMountPerPlace'
  BY DEF IInv, MountTable, OneMountPerPlace, RootNode, mountvars
<1>3. DescriptorsFindTheirDevice'
  BY DEF IInv, DescriptorsFindTheirDevice, mountvars
<1>4. QED
  BY <1>1, <1>2, <1>3 DEF IInv

LEMMA CloseIInv ==
  ASSUME IInv, NEW d \in FdArguments, syscall_Close(d)
  PROVE  IInv'
<1>1. fd_table \in [Fds -> FileDescriptor]
  BY DEF IInv, TypeOK
<1>2. /\ fd_table' \in [Fds -> FileDescriptor]
      /\ \A e \in Fds : fd_table'[e].node = fd_table[e].node
  <2>1. CASE Opened(d)
    <3>1. d \in Fds /\ fd_table' = [fd_table EXCEPT ![d].opened = FALSE]
      BY <2>1 DEF syscall_Close, Opened
    <3>2. [fd_table[d] EXCEPT !.opened = FALSE] \in FileDescriptor
      BY <1>1, <3>1 DEF FileDescriptor
    <3>3. QED
      BY <1>1, <3>1, <3>2 DEF FileDescriptor
  <2>2. CASE ~Opened(d)
    BY <1>1, <2>2 DEF syscall_Close
  <2>3. QED
    BY <2>1, <2>2
<1>3. QED
  BY <1>2, SameNodeIInv DEF syscall_Close, mountvars

\* What VFS_Seek stores is an offset.
LEMMA LowWordRange ==
  ASSUME NEW n \in Int
  PROVE  LowWord(n) \in Places
BY VfsAssumption DEF LowWord, Places

LEMMA BaseIsInt ==
  ASSUME TypeOK, NEW d \in Fds, NEW whence \in {"SEEK_SET", "SEEK_CUR", "SEEK_END"},
         NEW base \in Bases(d, whence)
  PROVE  base \in Int
<1>1. Word \in Int /\ Sizes \subseteq Int /\ Places \subseteq Int
  BY VfsAssumption DEF Places
<1>2. \A n \in Int : Signed(n) \in Int
  BY <1>1 DEF Signed
<1>3. CASE whence = "SEEK_SET"
  BY <1>3 DEF Bases
<1>4. CASE whence = "SEEK_CUR"
  <2>1. fd_table[d].offset \in Int
    BY <1>1 DEF TypeOK, FileDescriptor
  <2>2. VFS_GetOffset(d) \in Int
    BY <1>2, <2>1 DEF VFS_GetOffset
  <2>3. base = VFS_GetOffset(d)
    BY <1>4 DEF Bases
  <2>4. QED
    BY <2>2, <2>3
<1>5. CASE whence = "SEEK_END"
  <2>1. fd_table[d].node \notin {NULL, Wild} => fd_table[d].node.size \in Int
    BY <1>1 DEF TypeOK, FileDescriptor, Node
  <2>2. base \in VFS_GetSize(d)
    BY <1>5 DEF Bases
  <2>3. QED
    BY <1>1, <1>2, <2>1, <2>2 DEF VFS_GetSize
<1>6. QED
  BY <1>3, <1>4, <1>5

\* A seek leaves a position in the word.
LEMMA SeekPlace ==
  ASSUME TypeOK, NEW d \in FdArguments, NEW whence \in {"SEEK_SET", "SEEK_CUR", "SEEK_END"},
         NEW offset \in Moves, lseek(d, whence, offset)
  PROVE  /\ d \in Fds /\ fd_table[d].opened
         /\ \E place \in Places : fd_table' = [fd_table EXCEPT ![d].offset = place]
<1>1. d \in Fds /\ fd_table[d].opened
  BY DEF lseek, Opened
<1>2. PICK base \in Bases(d, whence) :
        fd_table' = [fd_table EXCEPT ![d].offset = LowWord(base + offset)]
  BY DEF lseek
<1>3. base \in Int /\ offset \in Int
  BY <1>1, BaseIsInt, VfsAssumption
<1>4. LowWord(base + offset) \in Places
  BY <1>3, LowWordRange
<1>5. QED
  BY <1>1, <1>2, <1>4

LEMMA SeekIInv ==
  ASSUME IInv, NEW d \in FdArguments, NEW whence \in {"SEEK_SET", "SEEK_CUR", "SEEK_END"},
         NEW offset \in Moves, lseek(d, whence, offset)
  PROVE  IInv'
<1>1. fd_table \in [Fds -> FileDescriptor] /\ eax \in {-1, 0, 1, CallNumber}
  BY DEF IInv, TypeOK
<1>2. d \in Fds
  BY SeekPlace DEF IInv
<1>3. PICK place \in Places : fd_table' = [fd_table EXCEPT ![d].offset = place]
  BY SeekPlace DEF IInv
<1>4. [fd_table[d] EXCEPT !.offset = place] \in FileDescriptor
  BY <1>1, <1>2 DEF FileDescriptor
<1>5. /\ fd_table' \in [Fds -> FileDescriptor]
      /\ \A e \in Fds : fd_table'[e].node = fd_table[e].node
  BY <1>1, <1>2, <1>3, <1>4 DEF FileDescriptor
<1>6. QED
  BY <1>1, <1>5, SameNodeIInv DEF lseek, mountvars

LEMMA TransferIInv ==
  ASSUME IInv, NEW d \in FdArguments, NEW size \in {0, 1}, Transfer(d, size)
  PROVE  IInv'
<1>1. ReadAnswers(d, size) \cup WriteAnswers(d, size) \subseteq {-1, 0, 1, CallNumber}
  BY DEF ReadAnswers, WriteAnswers, TransferAnswers
<1>2. mode' \in {"run", "lost"} /\ mode = "run"
  BY DEF Transfer, Running
<1>3. input' \in [Offsets -> Words]
  BY DEF Transfer, IInv, TypeOK
<1>4. QED
  BY <1>1, <1>2, <1>3, QuietIInv DEF Transfer

LEMMA NextIInv == IInv /\ [Next]_vars => IInv'
<1> SUFFICES ASSUME IInv, [Next]_vars PROVE IInv'
  OBVIOUS
<1>1. input \in [Offsets -> Words] /\ eax \in {-1, 0, 1, CallNumber}
      /\ mode \in {"run", "panic", "lost"}
  BY DEF IInv, TypeOK
<1>2. ASSUME NEW words \in [Offsets -> Words], Command(words) PROVE IInv'
  BY <1>1, <1>2, QuietIInv DEF Command
<1>3. ASSUME NEW dev \in DevIds, NEW loc \in Offsets, MountDevice(dev, loc) PROVE IInv'
  BY <1>3, MountIInv
<1>4. ASSUME NEW path \in Path, VFS_Open(path) PROVE IInv'
  BY <1>4, OpenIInv
<1>5. ASSUME NEW path \in Path, OpenFaults(path) PROVE IInv'
  BY <1>1, <1>5, QuietIInv DEF OpenFaults
<1>6. ASSUME NEW d \in FdArguments, syscall_Close(d) PROVE IInv'
  BY <1>6, CloseIInv
<1>7. ASSUME NEW d \in FdArguments, NEW size \in {0, 1}, Transfer(d, size) PROVE IInv'
  BY <1>7, TransferIInv
<1>8. ASSUME NEW d \in FdArguments, VFS_Readdir(d) PROVE IInv'
  BY <1>1, <1>8, QuietIInv DEF VFS_Readdir
<1>9. ASSUME NEW d \in FdArguments, NEW whence \in {"SEEK_SET", "SEEK_CUR", "SEEK_END"},
             NEW offset \in Moves, lseek(d, whence, offset)
      PROVE  IInv'
  BY <1>9, SeekIInv
<1>10. CASE OutOfMemory
  BY <1>1, <1>10, QuietIInv DEF OutOfMemory
<1>11. CASE UNCHANGED vars
  BY <1>1, <1>11, QuietIInv DEF vars
<1>12. QED
  BY <1>2, <1>3, <1>4, <1>5, <1>6, <1>7, <1>8, <1>9, <1>10, <1>11 DEF Next

LEMMA Invariance == Spec => []IInv
BY InitIInv, NextIInv, PTL DEF Spec

\* Whatever is typed, mounted, opened and closed, the inputs, tables and
\* answers of vfs.c and stdio.c stay what their declarations say.
THEOREM TypeCorrect == Spec => []TypeOK
BY Invariance, PTL DEF IInv

\* MountDevice fills the slots in order, and the root node of each leads back
\* to its slot.
THEOREM MountTableInOrder == Spec => []MountTable
BY Invariance, PTL DEF IInv

\* The device VFS_Read and VFS_Write find for a descriptor is the one the
\* path named when it was opened.
THEOREM DeviceKept == Spec => []DescriptorsFindTheirDevice
BY Invariance, PTL DEF IInv

\* checkMountPoint lets no two mount points keep the same pointer.
THEOREM PlacesDiffer == Spec => []OneMountPerPlace
BY Invariance, PTL DEF IInv

\* getMountPoint finds the disk of start-up under "/ata0" for ever, whatever
\* the line of the shell makes of the other mount points.
THEOREM BootDiskFound == Spec => []BootMountFirst
<1>1. IInv => BootMountFirst
  <2> SUFFICES ASSUME IInv, mode = "run", mountPoints[0] # NULL, mountPoints[0].loc = Literal,
                      NEW i \in Ids
               PROVE  IsMountPoint(i, BootWord) <=> i = 0
    BY DEF BootMountFirst
  <2>1. 0 \in Ids /\ Ids \subseteq Nat /\ lastMountId \in Nat
    BY VfsAssumption DEF Ids, IInv, TypeOK
  <2>2. 0 < lastMountId
    BY <2>1 DEF IInv, MountTable
  <2>3. TextOf(mountPoints[0].loc) = BootWord
    BY DEF TextOf
  <2>4. CASE i = 0
    BY <2>2, <2>3, <2>4 DEF IsMountPoint
  <2>5. CASE i # 0
    <3>1. 0 \in 0 .. i - 1
      BY <2>1, <2>5
    <3>2. QED
      BY <2>3, <2>5, <3>1 DEF IsMountPoint
  <2>6. QED
    BY <2>4, <2>5
<1>2. QED
  BY <1>1, Invariance, PTL

-----------------------------------------------------------------------------
(* The table of descriptors *)

Held == VFS_FD_START .. MAX_FILE_HANDLES - 1
Shown(t, d) == IF t[d].opened THEN [file |-> t[d].node, place |-> t[d].offset] ELSE NULL
TableOf(t) == [d \in Held |-> Shown(t, d)]

LEMMA HeldAreFds == Held \subseteq Fds /\ \A d \in Fds : d >= VFS_FD_START <=> d \in Held
BY VfsAssumption DEF Held, Fds, VFS_FD_START

\* What is shown of an open descriptor is not what is shown of a closed one.
LEMMA ShownIsEntry ==
  ASSUME TypeOK, NEW d \in Held
  PROVE  Shown(fd_table, d) = NULL <=> ~fd_table[d].opened
<1>1. fd_table[d] \in FileDescriptor
  BY HeldAreFds DEF TypeOK
<1>2. [file |-> fd_table[d].node, place |-> fd_table[d].offset] # NULL
  BY <1>1, VfsAssumption DEF FileDescriptor
<1>3. QED
  BY <1>2 DEF Shown

\* vfs_findFileDescriptor finds a descriptor whenever there is a closed one.
LEMMA FreeIsFound ==
  ASSUME NEW e \in Held, ~fd_table[e].opened
  PROVE  \E d \in Fds : IsDescriptor(d)
<1> DEFINE free == {d \in Held : ~fd_table[d].opened}
           less == {pair \in Nat \X Nat : pair[1] < pair[2]}
<1>1. Held \subseteq Nat /\ free \subseteq Held /\ e \in free
  BY VfsAssumption DEF Held, VFS_FD_START
<1>2. IsWellFoundedOn(less, Nat)
  BY NatLessThanWellFounded DEF OpToRel
<1>3. PICK d \in free : \A y \in free : ~(<<y, d>> \in less)
  BY <1>1, <1>2, WFMin
<1>4. d \in Fds /\ d >= VFS_FD_START /\ ~fd_table[d].opened
  BY <1>3, HeldAreFds
<1>5. ASSUME NEW y \in VFS_FD_START .. d - 1 PROVE fd_table[y].opened
  <2>1. y \in Held /\ y \in Nat /\ d \in Nat /\ y < d
    BY <1>1, <1>3, <1>5, VfsAssumption DEF Held, VFS_FD_START
  <2>2. <<y, d>> \in less
    BY <2>1
  <2>3. QED
    BY <1>3, <2>1, <2>2
<1>6. QED
  BY <1>4, <1>5 DEF IsDescriptor

\* The mapping of ImplementsTable, under a name of its own.
LEMMA MappedTable ==
  /\ TableOf(fd_table) = [d \in VFS_FD_START .. MAX_FILE_HANDLES - 1 |->
                            IF fd_table[d].opened
                            THEN [file |-> fd_table[d].node, place |-> fd_table[d].offset] ELSE NULL]
  /\ TableOf(fd_table') = [d \in VFS_FD_START .. MAX_FILE_HANDLES - 1 |->
                            IF fd_table'[d].opened
                            THEN [file |-> fd_table'[d].node, place |-> fd_table'[d].offset] ELSE NULL]
BY DEF TableOf, Held, Shown

LEMMA TableKept ==
  ASSUME NEW t, \A e \in Held : t[e] = fd_table[e]
  PROVE  TableOf(t) = TableOf(fd_table)
BY DEF TableOf, Shown

LEMMA TableUpdate ==
  ASSUME NEW t, NEW d \in Held, \A e \in Held \ {d} : t[e] = fd_table[e]
  PROVE  TableOf(t) = [TableOf(fd_table) EXCEPT ![d] = Shown(t, d)]
<1>1. \A e \in Held \ {d} : Shown(t, e) = Shown(fd_table, e)
  BY DEF Shown
<1>2. QED
  BY <1>1 DEF TableOf

LEMMA OpenTableStep ==
  ASSUME IInv, NEW path \in Path, VFS_Open(path)
  PROVE  Table!TNext
<1>1. PICK target \in vfs_resolve_path(path) :
        \/ \E d \in Fds : OpensAt(d, target)
        \/ /\ \A d \in Fds : ~IsDescriptor(d)
           /\ ebx' = -1 /\ UNCHANGED <<fd_table, named>>
  BY DEF VFS_Open, OpensAt
<1>2. fd_table \in [Fds -> FileDescriptor] /\ Running
  BY DEF IInv, TypeOK, VFS_Open
<1>3. ASSUME NEW d \in Fds, OpensAt(d, target) PROVE Table!TNext
  <2>1. d \in Held /\ ~fd_table[d].opened
    BY <1>3, HeldAreFds DEF OpensAt, IsDescriptor
  <2>2. /\ fd_table'[d] = [opened |-> TRUE, node |-> target.node, offset |-> 0]
        /\ \A e \in Held \ {d} : fd_table'[e] = fd_table[e]
        /\ ebx' = d
    BY <1>2, <1>3, HeldAreFds DEF OpensAt
  <2>3. Shown(fd_table', d) = [file |-> target.node, place |-> 0]
    BY <2>2 DEF Shown
  <2>4. TableOf(fd_table') = [TableOf(fd_table) EXCEPT ![d] = [file |-> target.node, place |-> 0]]
    BY <2>1, <2>2, <2>3, TableUpdate
  <2>5. TableOf(fd_table)[d] = NULL
    BY <2>1 DEF TableOf, Shown
  <2>6. Table!Open(d, target.node)
    BY <2>2, <2>4, <2>5, MappedTable DEF Table!Open
  <2>7. target.node \in Node \cup {NULL, Wild}
    BY <1>2, ResolvedNodes
  <2>8. QED
    BY <2>1, <2>6, <2>7 DEF Table!TNext, Held
<1>4. CASE /\ \A d \in Fds : ~IsDescriptor(d)
           /\ ebx' = -1 /\ UNCHANGED <<fd_table, named>>
  <2>1. \A d \in Held : TableOf(fd_table)[d] # NULL
    <3>1. ASSUME NEW d \in Held PROVE fd_table[d].opened
      BY <1>4, FreeIsFound
    <3>2. ASSUME NEW d \in Held PROVE Shown(fd_table, d) # NULL
      BY <3>1, ShownIsEntry DEF IInv
    <3>3. QED
      BY <3>2 DEF TableOf
  <2>2. TableOf(fd_table') = TableOf(fd_table) /\ ebx' = -1
    BY <1>4
  <2>3. Table!Refuse
    BY <2>1, <2>2, MappedTable DEF Table!Refuse, Held
  <2>4. QED
    BY <2>3 DEF Table!TNext
<1>5. QED
  BY <1>1, <1>3, <1>4

LEMMA CloseTableStep ==
  ASSUME IInv, NEW d \in FdArguments, syscall_Close(d)
  PROVE  Table!TNext \/ UNCHANGED Table!tvars
<1>1. fd_table \in [Fds -> FileDescriptor] /\ ebx' = ebx
  BY DEF IInv, TypeOK, syscall_Close
<1>2. CASE ~Opened(d)
  <2>1. fd_table' = fd_table
    BY <1>2 DEF syscall_Close
  <2>2. QED
    BY <1>1, <2>1 DEF Table!tvars
<1>3. CASE Opened(d)
  <2>1. d \in Fds /\ fd_table[d].opened /\ fd_table' = [fd_table EXCEPT ![d].opened = FALSE]
    BY <1>3 DEF syscall_Close, Opened
  <2>2. /\ fd_table'[d].opened = FALSE
        /\ \A e \in Held \ {d} : fd_table'[e] = fd_table[e]
    BY <1>1, <2>1, HeldAreFds DEF FileDescriptor
  <2>3. CASE d \in Held
    <3>1. TableOf(fd_table') = [TableOf(fd_table) EXCEPT ![d] = NULL]
      <4>1. Shown(fd_table', d) = NULL
        BY <2>2 DEF Shown
      <4>2. QED
        BY <2>2, <2>3, <4>1, TableUpdate
    <3>2. TableOf(fd_table)[d] # NULL
      <4>1. Shown(fd_table, d) # NULL
        BY <2>1, <2>3, ShownIsEntry DEF IInv
      <4>2. QED
        BY <2>3, <4>1 DEF TableOf
    <3>3. Table!Close(d)
      BY <1>1, <3>1, <3>2, MappedTable DEF Table!Close
    <3>4. QED
      BY <2>3, <3>3 DEF Table!TNext, Held
  <2>4. CASE d \notin Held
    <3>1. TableOf(fd_table') = TableOf(fd_table)
      BY <2>2, <2>4, TableKept
    <3>2. QED
      BY <1>1, <3>1, MappedTable DEF Table!tvars
  <2>5. QED
    BY <2>3, <2>4
<1>4. QED
  BY <1>2, <1>3

LEMMA SeekTableStep ==
  ASSUME IInv, NEW d \in FdArguments, NEW whence \in {"SEEK_SET", "SEEK_CUR", "SEEK_END"},
         NEW offset \in Moves, lseek(d, whence, offset)
  PROVE  Table!TNext \/ UNCHANGED Table!tvars
<1>1. fd_table \in [Fds -> FileDescriptor] /\ ebx' = ebx
  BY DEF IInv, TypeOK, lseek
<1>2. d \in Fds /\ fd_table[d].opened
  BY SeekPlace DEF IInv
<1>3. PICK place \in Places : fd_table' = [fd_table EXCEPT ![d].offset = place]
  BY SeekPlace DEF IInv
<1>4. /\ fd_table'[d].opened /\ fd_table'[d].node = fd_table[d].node /\ fd_table'[d].offset = place
      /\ \A e \in Held \ {d} : fd_table'[e] = fd_table[e]
  BY <1>1, <1>2, <1>3, HeldAreFds DEF FileDescriptor
<1>5. CASE d \in Held
  <2> DEFINE old == [file |-> fd_table[d].node, place |-> fd_table[d].offset]
  <2>1. Shown(fd_table, d) = old /\ old # NULL
    BY <1>2, <1>5, ShownIsEntry DEF Shown, IInv
  <2>2. Shown(fd_table', d) = [old EXCEPT !.place = place]
    BY <1>4 DEF Shown
  <2>3. TableOf(fd_table)[d] = old
    BY <1>5, <2>1 DEF TableOf
  <2>4. TableOf(fd_table') = [TableOf(fd_table) EXCEPT ![d] = [old EXCEPT !.place = place]]
    BY <1>4, <1>5, <2>2, TableUpdate
  <2>5. TableOf(fd_table') = [TableOf(fd_table) EXCEPT ![d].place = place]
    BY <2>3, <2>4
  <2>6. Table!Seek(d, place)
    BY <1>1, <2>1, <2>3, <2>5, MappedTable DEF Table!Seek
  <2>7. QED
    BY <1>5, <2>6 DEF Table!TNext, Held
<1>6. CASE d \notin Held
  <2>1. TableOf(fd_table') = TableOf(fd_table)
    BY <1>4, <1>6, TableKept
  <2>2. QED
    BY <1>1, <2>1, MappedTable DEF Table!tvars
<1>7. QED
  BY <1>5, <1>6

\* To a program, the table of descriptors is one in which the kernel gives a
\* descriptor to one holder at a time and refuses only when all are held.
THEOREM VfsImplementsTable == Spec => ImplementsTable
<1>1. Init => Table!TInit
  <2> SUFFICES ASSUME Init PROVE Table!TInit
    OBVIOUS
  <2>1. \A d \in Held : fd_table[d].opened = FALSE
    BY HeldAreFds DEF Init
  <2>2. TableOf(fd_table) = [d \in Held |-> NULL] /\ ebx = -1
    BY <2>1 DEF TableOf, Shown, Init
  <2>3. QED
    BY <2>2, MappedTable DEF Table!TInit, Held
<1>2. IInv /\ [Next]_vars => [Table!TNext]_(Table!tvars)
  <2> SUFFICES ASSUME IInv, [Next]_vars PROVE Table!TNext \/ UNCHANGED Table!tvars
    OBVIOUS
  <2>1. ASSUME UNCHANGED filevars PROVE UNCHANGED Table!tvars
    BY <2>1 DEF filevars, Table!tvars
  <2>2. CASE \/ \E words \in [Offsets -> Words] : Command(words)
             \/ \E dev \in DevIds, loc \in Offsets : MountDevice(dev, loc)
             \/ \E path \in Path : OpenFaults(path)
             \/ \E d \in FdArguments : VFS_Readdir(d) \/ \E size \in {0, 1} : Transfer(d, size)
             \/ UNCHANGED vars
    BY <2>1, <2>2 DEF Command, MountDevice, OpenFaults, VFS_Readdir, Transfer, vars
  <2>3. CASE \E path \in Path : VFS_Open(path)
    BY <2>3, OpenTableStep
  <2>4. CASE \E d \in FdArguments : syscall_Close(d)
    BY <2>4, CloseTableStep
  <2>5. CASE \E d \in FdArguments, whence \in {"SEEK_SET", "SEEK_CUR", "SEEK_END"},
                offset \in Moves : lseek(d, whence, offset)
    BY <2>5, SeekTableStep
  <2>6. CASE OutOfMemory
    BY <2>1, <2>6 DEF OutOfMemory
  <2>7. QED
    BY <2>2, <2>3, <2>4, <2>5, <2>6 DEF Next
<1>3. QED
  BY <1>1, <1>2, Invariance, PTL DEF Spec, ImplementsTable, Table!TSpec
=============================================================================
