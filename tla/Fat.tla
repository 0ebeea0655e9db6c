---------------------------------- MODULE Fat ----------------------------------
(***************************************************************************)
(* Looking names up on a FAT disk: FAT_Probe and FAT_Mount, FAT_FindEntry  *)
(* and FAT_ReadFile of fat32.c, slot by slot. There is one FatData for all *)
(* disks. The buffer of the root directory is freed before it is searched, *)
(* so that copyPath, a copy of the path that is cut up, and the buffer     *)
(* FAT_FindEntry makes for a cluster may lie in it: that depends on        *)
(* whether the heap has free blocks in front of it. A subdirectory is read *)
(* into the same place.                                                    *)
(***************************************************************************)
EXTENDS Integers, Sequences

CONSTANTS Devs, Geometry,     \* the disks, and where each has its directories and data
          Names, Clusters, Root,
          Dirs,               \* the directory in each cluster of each disk
          Paths,              \* the paths that are looked up
          Room,               \* the slots of the root directory's buffer
          ClusterSlots,       \* those a subdirectory's cluster fills
          Covered,            \* those the 256 bytes of copyPath cover: 8
          MaxCount,           \* bound: larger counts count as this one
          NULL,
          End,                \* a slot of zeros
          Text,               \* the slot that shows the path's text
          Junk                \* a slot, or an answer, that may be anything

\* A "long" slot is one with any of the attributes of long names, so labels and
\* read-only files too. n is its first byte less 0x40, the pieces of the name;
\* the code takes that many slots for it.
Slot == [kind : {"file", "dir", "long"}, name : Names, n : Nat, at : Clusters]
Slots == 1 .. Room

ASSUME FatAssumption ==
  /\ Room \in Nat /\ ClusterSlots \in 1 .. Room /\ Covered \in 1 .. Room
  /\ MaxCount \in Nat /\ MaxCount > Room
  /\ Dirs \in [Devs -> [Clusters -> Seq(Slot)]] /\ Root \in Clusters
  /\ DOMAIN Geometry = Devs
  /\ \A d \in Devs, c \in Clusters :
       Len(Dirs[d][c]) \in 1 .. (IF c = Root THEN Room - 1 ELSE ClusterSlots)
  /\ Paths \subseteq Seq(Names) \ {<<>>}
  /\ {End, Text, Junk} \cap Slot = {}
  /\ End # Text /\ End # Junk /\ Text # Junk
  /\ NULL \notin Devs /\ NULL \notin Slot /\ NULL # Junk

VARIABLES
  mounted,            \* the disks with a mount point
  owner, bs,          \* FatData: whose it is, and whose boot sector is in it
  entryCount,         \* RootDirectory.entryCount
  entries,            \* the memory RootDirectory.entries points to, during a call
  ahead,              \* the free blocks in front of it: "none", "copy" (one for
                      \* copyPath), or "both" (one for a cluster as well)
  call, dev, path,    \* "find" or "read", and its arguments
  step, segment,      \* its place: "idle", "scan", "next", "done"; the part of the path
  i, entry,           \* the slot looked at, and the last one found, or 0
  copy,               \* copyPath: "ahead", "root" (in the buffer), or "overwritten"
  answer,             \* what the call returns, the slot it is about with it
  mode                \* "run", or "lost" (memory overwritten, or a fault)

disk == <<mounted, owner, bs, entryCount, entries>>
args == <<call, dev, path>>
place == <<step, segment, i, entry>>
fatvars == <<disk, ahead, args, place, copy, answer, mode>>

Running == mode = "run"
Idle == Running /\ step = "idle"

\* Memory of malloc is zeroed before the sectors are read into it.
Loaded(slots) == [s \in Slots |-> IF s <= Len(slots) THEN slots[s] ELSE End]
JunkSlots == [s \in Slots |-> Junk]

NoAnswer == [found |-> FALSE, slot |-> NULL]

NoEntries == [s \in Slots |-> End]

FatInit ==
  /\ mounted = {} /\ owner = NULL /\ bs = NULL
  /\ entryCount = 0
  /\ ahead \in {"none", "copy", "both"}
  /\ call = "find" /\ dev = NULL /\ path = <<>>
  /\ step = "idle" /\ segment = 1 /\ i = 1 /\ entry = 0
  /\ entries = NoEntries /\ copy = "ahead" /\ answer = NoAnswer
  /\ mode = "run"

\* The other callers of malloc and free.
HeapChanges ==
  /\ Idle
  /\ ahead' \in {"none", "copy", "both"}
  /\ UNCHANGED <<disk, args, place, copy, answer, mode>>

\* FAT_Probe makes a new FatData, FAT_Mount reads the root directory. Neither
\* ever fails on a device that can be read.
Mount(d) ==
  /\ Idle
  /\ mounted' = mounted \cup {d}
  /\ owner' = d /\ bs' = d
  /\ entryCount' = Len(Dirs[d][Root])
  /\ UNCHANGED <<entries, ahead, args, place, copy, answer, mode>>

-----------------------------------------------------------------------------
(* The beginning of FAT_FindEntry and FAT_ReadFile *)

\* FatData says where the root directory and the data begin.
Right(d) == Geometry[owner] = Geometry[d]

\* FAT_ReadRootDirectory: the entries are counted on top of those counted
\* before, and the buffer is freed. Elsewhere on the disk is anything.
ReadRoot(d, found, counted) ==
  \/ Right(d) /\ found = Loaded(Dirs[d][Root]) /\ counted = Len(Dirs[d][Root])
  \/ ~Right(d) /\ found = JunkSlots /\ counted \in 0 .. Room

\* Behind the buffer one count is like another.
Counted(counted) == IF entryCount + counted > MaxCount THEN MaxCount ELSE entryCount + counted

WithCopy(found) ==
  [s \in Slots |-> IF s = 1 THEN Text ELSE IF s <= Covered THEN End ELSE found[s]]

\* copyPath falls into the freed buffer unless a block in front of it is free.
MutCopyPlace == IF ahead = "both" THEN "ahead" ELSE "root"
CopyPlace == IF ahead = "none" THEN "root" ELSE "ahead"

Begin(c, d, p) ==
  /\ Idle
  /\ d \in mounted
  /\ call' = c /\ dev' = d /\ path' = p
  /\ \E found \in {Loaded(Dirs[d][Root]), JunkSlots}, counted \in 0 .. Room :
       /\ ReadRoot(d, found, counted)
       /\ entryCount' = Counted(counted)
       /\ copy' = CopyPlace
       /\ entries' = IF copy' = "root" THEN WithCopy(found) ELSE found
  /\ segment' = 1 /\ i' = 1 /\ entry' = 0
  /\ step' = "scan" /\ answer' = NoAnswer
  /\ UNCHANGED <<mounted, owner, bs, ahead, mode>>

-----------------------------------------------------------------------------
(* The loop over the slots *)

\* Behind the buffer is other memory.
At(s) == IF s \in Slots THEN entries[s] ELSE Junk

Scanning == Running /\ step = "scan" /\ i <= entryCount

\* A short name, or a long one of at least two pieces.
Compared(s) == s \in Slot /\ (s.kind = "long" => s.n > 1)

IsPath(s) == Compared(s) /\ s.name = path[segment]

\* FAT_GetLfn puts the pieces together in a small block of its own, which may
\* fall into the buffer as well.
Pieces(s) == s \in Slot /\ s.kind = "long" /\ s.n > 1

Scratched(s) ==
  IF Pieces(s) /\ copy = "ahead" /\ ahead # "both"
  THEN {entries, [entries EXCEPT ![1] = Junk]} ELSE {entries}

Match ==
  /\ Scanning /\ IsPath(At(i))
  /\ entry' = i /\ step' = "next"
  /\ entries' \in Scratched(At(i))
  /\ UNCHANGED <<mounted, owner, bs, entryCount, ahead, args, segment, i, copy, answer, mode>>

\* The index has moved over the pieces when the loop moves it once more, over
\* the short name that belongs to them.
MutStride(s) == IF Pieces(s) THEN s.n + 2 ELSE 1
Stride(s) == IF Pieces(s) THEN s.n + 1 ELSE 1

Pass ==
  /\ Scanning /\ At(i) # Junk /\ ~IsPath(At(i))
  /\ i' = i + Stride(At(i))
  /\ entries' \in Scratched(At(i))
  /\ UNCHANGED <<mounted, owner, bs, entryCount, ahead, args, step, segment, entry, copy, answer, mode>>

\* Anything may look like the name, or like none; it may also look like a long
\* name of a negative number of pieces, and so may the path's text.
MeetJunk ==
  /\ Scanning /\ At(i) = Junk
  /\ \/ entry' = i /\ step' = "next" /\ i' = i
     \/ i' = i + 1 /\ UNCHANGED <<entry, step>>
  /\ UNCHANGED <<disk, ahead, args, segment, copy, answer, mode>>

Overrun ==
  /\ Scanning /\ At(i) \in {Junk, Text}
  /\ mode' = "lost"
  /\ UNCHANGED <<disk, ahead, args, place, copy, answer>>

EndScan ==
  /\ Running /\ step = "scan" /\ i > entryCount
  /\ step' = "next"
  /\ UNCHANGED <<disk, ahead, args, segment, i, entry, copy, answer, mode>>

-----------------------------------------------------------------------------
(* The next part of the path, and the end. entry is not cleared between the *)
(* parts: a name not found leaves that of the directory there.              *)

Deciding == Running /\ step = "next"
IsDirectory(s) == s = Junk \/ (s \in Slot /\ s.kind = "dir")
IsNoDirectory(s) == s \in {Junk, End, Text} \/ (s \in Slot /\ s.kind # "dir")

\* The cluster's buffer falls into the one of the root directory, and erases
\* the entry that is about to be read from there.
Erased == call = "find" /\ copy = "ahead" /\ ahead # "both"

\* FAT_GetDir.
GetDir(s) ==
  IF s \in Slot /\ Right(dev) /\ ~Erased
  THEN [t \in Slots |-> IF t <= ClusterSlots THEN Loaded(Dirs[dev][s.at])[t] ELSE entries[t]]
  ELSE JunkSlots

Descend ==
  /\ Deciding /\ entry # 0 /\ segment < Len(path) /\ IsDirectory(At(entry))
  /\ bs' = dev
  /\ entries' = GetDir(At(entry))
  /\ copy' = IF copy = "root" THEN "overwritten" ELSE copy
  /\ segment' = segment + 1 /\ i' = 1 /\ step' = "scan"
  /\ UNCHANGED <<mounted, owner, entryCount, ahead, args, entry, answer, mode>>

Fail ==
  /\ Deciding
  /\ \/ entry = 0
     \/ entry # 0 /\ segment < Len(path) /\ IsNoDirectory(At(entry))
  /\ step' = "done"
  /\ UNCHANGED <<disk, ahead, args, segment, i, entry, copy, answer, mode>>

\* FAT_FindEntry returns what the slot says; FAT_ReadFile reads the file's
\* first cluster, and then sectors of another place than the FAT as its chain.
\* Of a long name the size and the cluster are letters of it.
Told(s) == IF s \in Slot /\ s.kind # "long" THEN s ELSE Junk

ReadTold(s) == IF Geometry[bs] = Geometry[dev] /\ Right(dev) THEN Told(s) ELSE Junk

Finish ==
  /\ Deciding /\ entry # 0 /\ segment = Len(path)
  /\ \/ call = "find" /\ answer' = [found |-> TRUE, slot |-> Told(At(entry))]
     \/ /\ call = "read" /\ IsNoDirectory(At(entry))
        /\ answer' = [found |-> TRUE, slot |-> ReadTold(At(entry))]
     \/ call = "read" /\ IsDirectory(At(entry)) /\ UNCHANGED answer
  /\ step' = "done"
  /\ UNCHANGED <<disk, ahead, args, segment, i, entry, copy, mode>>

\* The call returns. What its local variables and the freed memory held is
\* never looked at again.
Return ==
  /\ Running /\ step = "done"
  /\ call' = "find" /\ dev' = NULL /\ path' = <<>>
  /\ step' = "idle" /\ segment' = 1 /\ i' = 1 /\ entry' = 0
  /\ entries' = NoEntries /\ copy' = "ahead" /\ answer' = NoAnswer
  /\ UNCHANGED <<mounted, owner, bs, entryCount, ahead, mode>>

Lookup == Match \/ Pass \/ MeetJunk \/ Overrun \/ EndScan \/ Descend \/ Fail \/ Finish

-----------------------------------------------------------------------------
(* Properties *)

\* Every variable has its type.
FatTypeOK ==
  /\ mounted \subseteq Devs /\ owner \in Devs \cup {NULL} /\ bs \in Devs \cup {NULL}
  /\ entryCount \in 0 .. MaxCount
  /\ entries \in [Slots -> Slot \cup {End, Text, Junk}]
  /\ ahead \in {"none", "copy", "both"}
  /\ call \in {"find", "read"} /\ dev \in Devs \cup {NULL} /\ path \in Seq(Names)
  /\ step \in {"idle", "scan", "next", "done"}
  /\ segment \in Nat /\ i \in Nat /\ entry \in Nat
  /\ copy \in {"ahead", "root", "overwritten"}
  /\ answer \in [found : BOOLEAN, slot : Slot \cup {NULL, Junk}]
  /\ mode \in {"run", "lost"}

\* Slot k of a directory is the first of its name, and no longer name or label
\* in front of it takes it.
Visible(slots, name, k) ==
  /\ k \in 1 .. Len(slots)
  /\ slots[k].kind # "long" /\ slots[k].name = name
  /\ \A j \in 1 .. k - 1 :
       /\ slots[j].name # name
       /\ slots[j].kind = "long" /\ slots[j].n > 1 => j + slots[j].n < k

Ended == Running /\ step = "done"
FileOrFind(slot) == call = "find" \/ slot.kind = "file"

\* The heap spares the buffer, and FatData fits the disk.
Undisturbed == ahead # "none" /\ Right(dev) /\ Geometry[bs] = Geometry[dev]

\* However many lookups on however many disks came before, a file or directory
\* in the root directory is found, and what is told of it is what its slot
\* says; a name that is not there is not found, as long as the count, which
\* only grows, has not left the buffer.
RootLookups ==
  Ended /\ Undisturbed /\ Len(path) = 1 =>
    LET slots == Dirs[dev][Root]
    IN  /\ \A k \in 1 .. Len(slots) :
             Visible(slots, path[1], k) /\ FileOrFind(slots[k]) =>
               answer = [found |-> TRUE, slot |-> slots[k]]
        /\ entryCount <= Room /\ (\A k \in 1 .. Len(slots) : slots[k].name # path[1]) =>
             ~answer.found

\* A file in a subdirectory is found as well if the cluster's buffer does not
\* erase the entry, within as many slots as have been counted in the root.
DeepLookups ==
  Ended /\ Undisturbed /\ Len(path) = 2 /\ ~Erased =>
    LET slots == Dirs[dev][Root]
    IN  \A k \in 1 .. Len(slots) :
          Visible(slots, path[1], k) /\ slots[k].kind = "dir" =>
            LET inner == Dirs[dev][slots[k].at]
            IN  \A l \in 1 .. Len(inner) :
                  Visible(inner, path[2], l) /\ l <= entryCount /\ FileOrFind(inner[l]) =>
                    answer = [found |-> TRUE, slot |-> inner[l]]
=============================================================================
