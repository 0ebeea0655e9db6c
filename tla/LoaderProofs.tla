----------------------------- MODULE LoaderProofs -----------------------------
(***************************************************************************)
(* For all disks, directories and paths, and whatever the heap and the     *)
(* mounts did before: what a lookup finds is what the slot says, as far as *)
(* the buffer is spared and FatData fits the disk; every lookup comes to   *)
(* an end; and a program that has been loaded begins as the file does.     *)
(***************************************************************************)
EXTENDS Loader, TLAPS

-----------------------------------------------------------------------------
(* The inductive invariant *)

Begun == Running /\ step \in {"scan", "next"}
Spared == ahead # "none" /\ Right(dev)

RootDir(d) == Dirs[d][Root]

\* A lookup has a disk and a path, and is at a part of it. What is put back of
\* the path is the path if the heap has a free block for the copy.
Placed ==
  /\ 1 <= i /\ 1 <= segment
  /\ Begun => dev \in Devs /\ segment <= Len(path)
  /\ user = "open" => dev \in Devs /\ path # <<>>
  /\ step = "idle" \/ ahead # "none" => copy = "ahead"

\* The buffer shows a directory, but for its first slot when FAT_GetLfn's small
\* block may have fallen there: by then that slot has been passed.
Passed(s) == s = 1 /\ ~(step = "scan" /\ i = 1)
Shown(slots) == \A s \in 1 .. Len(slots) : entries[s] = slots[s] \/ Passed(s)

\* A slot that is visible under the name, and within the count, is still in
\* front of the scan, or is the one it ended at.
Sought(slots, name) ==
  \A k \in 1 .. Len(slots) :
    Visible(slots, name, k) /\ k <= entryCount =>
      IF step = "scan" THEN i <= k ELSE entry = k /\ entries[k] = slots[k]

Missing(slots, name) == \A k \in 1 .. Len(slots) : slots[k].name # name

\* The count is never smaller than the directory, so that the end of the
\* directory is not overlooked; behind the end the buffer is empty.
RootScan ==
  Begun /\ Spared /\ segment = 1 =>
    /\ copy = "ahead" /\ answer = NoAnswer
    /\ Shown(RootDir(dev))
    /\ \A s \in Slots : s > Len(RootDir(dev)) => entries[s] = End
    /\ Sought(RootDir(dev), path[1])
    /\ step = "scan" \/ (entryCount <= Room /\ Missing(RootDir(dev), path[1])) => entry = 0

\* The subdirectory in the visible slot of its name is scanned, over what is
\* left of the root directory.
DeepScan ==
  Begun /\ Spared /\ ~Erased /\ segment = 2 =>
    /\ bs = dev
    /\ \A k \in 1 .. Len(RootDir(dev)) :
         Visible(RootDir(dev), path[1], k) /\ RootDir(dev)[k].kind = "dir" =>
           LET inner == Dirs[dev][RootDir(dev)[k].at]
           IN  Shown(inner) /\ Sought(inner, path[2])

\* The count, too, is never smaller than the directory.
CountCovers ==
  Running /\ step # "idle" /\ Spared /\ path # <<>> => Len(RootDir(dev)) <= entryCount

\* DeepLookups, whatever boot sector was in FatData before.
DeepEnd ==
  Ended /\ Spared /\ Len(path) = 2 /\ ~Erased =>
    \A k \in 1 .. Len(RootDir(dev)) :
      Visible(RootDir(dev), path[1], k) /\ RootDir(dev)[k].kind = "dir" =>
        LET inner == Dirs[dev][RootDir(dev)[k].at]
        IN  \A l \in 1 .. Len(inner) :
              Visible(inner, path[2], l) /\ l <= entryCount /\ FileOrFind(inner[l]) =>
                answer = [found |-> TRUE, slot |-> inner[l]]

Lookups == Placed /\ RootScan /\ DeepScan /\ CountCovers /\ RootLookups /\ DeepEnd

\* The shell's loop asks while it has too little, fread while it wants more.
Asking ==
  /\ user = "load" /\ step # "idle" => bytes < node.size
  /\ user = "fread" /\ step # "idle" => bytes > 0

\* The reads of a loop are of its node.
Reading ==
  Running /\ user = "load" /\ step # "idle" =>
    call = "read" /\ dev = node.dev /\ path = node.name

IInv == TypeOK /\ Lookups /\ Asking /\ Reading

-----------------------------------------------------------------------------
(* Further properties *)

\* The premises of LoadEnds, but for the boot sector of a deep path, which a
\* read sets right itself.
Loadable ==
  /\ node.name # <<>> /\ ahead # "none" /\ owner # NULL
  /\ Geometry[owner] = Geometry[node.dev]
  /\ Len(node.name) = 2 \/ Geometry[bs] = Geometry[node.dev]
  /\ FilesAt(node.dev, node.name) # {} /\ Fits

\* The safe half of LoadEnds: when the loop of the shell has its bytes, what
\* the last of the reads put at the beginning of the buffer is the first
\* cluster of the file.
LoadsTheFile == user = "load" /\ Loadable /\ bytes > 0 => held \in FilesAt(node.dev, node.name)

\* The other half up to the end of each lookup: every read of the loop adds to
\* the bytes it counts, leaves the node its path, and writes nothing behind
\* the buffer.
LoadGoesOn ==
  [][/\ LoadedMore /\ Loadable => bytes' > bytes /\ node' = node
     /\ user = "load" /\ Loadable => ~WriteTooFar]_vars

\* fread comes nearer to its end with each call, however it is answered. With a
\* bad descriptor its count goes up, until the word is full and it is zero.
FreadGoesOn ==
  [][/\ FreadReturned => bytes' < bytes
     /\ BadFread => bytes' > bytes \/ bytes' = 0]_vars

\* How many steps a lookup may still take, with a round of them for each part
\* of the path.
Round == MaxCount + 3

Scanned == IF i > entryCount THEN MaxCount + 1 ELSE i

Remaining ==
  CASE step = "scan" -> (Len(path) - segment) * Round + Round - Scanned
    [] step = "next" -> (Len(path) - segment) * Round + 1
    [] OTHER -> 0

\* No lookup scans for ever, whatever it meets in the buffer or behind it.
LookupEnds == [][Lookup => mode' = "lost" \/ (Remaining \in Nat /\ Remaining' \in Nat /\ Remaining' < Remaining)]_vars

-----------------------------------------------------------------------------
(* Directories and the buffer *)

Cell == Slot \cup {End, Text, Junk}

LEMMA SlotFacts ==
  ASSUME NEW s \in Slot
  PROVE  s.kind \in {"file", "dir", "long"} /\ s.name \in Names /\ s.n \in Nat /\ s.at \in Clusters
BY DEF Slot

LEMMA SpecialCells == End \notin Slot /\ Text \notin Slot /\ Junk \notin Slot /\ End # Text
                      /\ End # Junk /\ Text # Junk /\ NULL \notin Slot /\ NULL # Junk
BY FatAssumption

LEMMA Sizes0 ==
  /\ Room \in Nat /\ ClusterSlots \in Nat /\ Covered \in Nat /\ MaxCount \in Nat
  /\ 1 <= ClusterSlots /\ ClusterSlots <= Room /\ 1 <= Covered /\ Covered <= Room
  /\ Room < MaxCount /\ Slots = 1 .. Room /\ 1 \in Slots
BY FatAssumption DEF Slots

LEMMA DirFacts ==
  ASSUME NEW d \in Devs, NEW c \in Clusters
  PROVE  /\ Dirs[d][c] \in Seq(Slot) /\ Len(Dirs[d][c]) \in Nat
         /\ 1 <= Len(Dirs[d][c]) /\ Len(Dirs[d][c]) <= Room
         /\ c = Root => Len(Dirs[d][c]) < Room
         /\ c # Root => Len(Dirs[d][c]) <= ClusterSlots
         /\ \A k \in 1 .. Len(Dirs[d][c]) : Dirs[d][c][k] \in Slot /\ k \in Slots
<1>1. Dirs[d][c] \in Seq(Slot)
  BY FatAssumption
<1>2. Len(Dirs[d][c]) \in 1 .. (IF c = Root THEN Room - 1 ELSE ClusterSlots)
  BY FatAssumption
<1>3. Len(Dirs[d][c]) \in Nat /\ 1 <= Len(Dirs[d][c]) /\ Len(Dirs[d][c]) <= Room
  BY <1>2, Sizes0
<1>4. \A k \in 1 .. Len(Dirs[d][c]) : Dirs[d][c][k] \in Slot
  BY <1>1
<1>5. QED
  BY <1>1, <1>2, <1>3, <1>4, Sizes0

LEMMA RootFacts ==
  ASSUME NEW d \in Devs
  PROVE  /\ RootDir(d) = Dirs[d][Root] /\ RootDir(d) \in Seq(Slot) /\ Len(RootDir(d)) \in Nat
         /\ 1 <= Len(RootDir(d)) /\ Len(RootDir(d)) < Room
         /\ \A k \in 1 .. Len(RootDir(d)) : RootDir(d)[k] \in Slot /\ k \in Slots
BY DirFacts, FatAssumption DEF RootDir

LEMMA LoadedFacts ==
  ASSUME NEW slots \in Seq(Slot)
  PROVE  /\ Loaded(slots) \in [Slots -> Cell]
         /\ \A s \in Slots : Loaded(slots)[s] = IF s <= Len(slots) THEN slots[s] ELSE End
<1>1. \A s \in Slots : s <= Len(slots) => slots[s] \in Slot
  BY DEF Slots
<1>2. QED
  BY <1>1 DEF Loaded, Cell

LEMMA JunkFacts == JunkSlots \in [Slots -> Cell] /\ \A s \in Slots : JunkSlots[s] = Junk
BY DEF JunkSlots, Cell

LEMMA NoAnswerFacts == NoAnswer \in [found : BOOLEAN, slot : Slot \cup {NULL, Junk}] /\ ~NoAnswer.found
BY DEF NoAnswer

LEMMA AtFacts ==
  ASSUME FatTypeOK, NEW s
  PROVE  At(s) \in Cell /\ (At(s) # Junk => s \in Slots) /\ (s \in Slots => At(s) = entries[s])
BY DEF At, FatTypeOK, Cell

\* Of a slot the scratch block may lie in the first one, and moves the scan on.
LEMMA ScratchFacts ==
  ASSUME FatTypeOK, NEW s \in Cell, NEW e \in Scratched(s)
  PROVE  /\ e \in [Slots -> Cell]
         /\ \A t \in Slots : e[t] = entries[t] \/ (t = 1 /\ Pieces(s))
<1>1. entries \in [Slots -> Cell]
  BY DEF FatTypeOK, Cell
<1>2. CASE e = entries
  BY <1>1, <1>2
<1>3. CASE e = [entries EXCEPT ![1] = Junk] /\ Pieces(s)
  BY <1>1, <1>3 DEF Cell
<1>4. QED
  BY <1>2, <1>3 DEF Scratched

LEMMA StrideFacts ==
  ASSUME NEW s
  PROVE  /\ Stride(s) \in Nat /\ Stride(s) >= 1
         /\ Pieces(s) => s \in Slot /\ s.kind = "long" /\ s.n \in Nat /\ s.n > 1 /\ Stride(s) = s.n + 1
         /\ ~Pieces(s) => Stride(s) = 1
BY SlotFacts DEF Stride, Pieces

-----------------------------------------------------------------------------
(* Types *)

LEMMA BeginTypes ==
  ASSUME FatTypeOK, NEW c \in {"find", "read"}, NEW d, NEW p \in Seq(Names), Begin(c, d, p)
  PROVE  FatTypeOK' /\ d \in Devs
<1>1. d \in Devs
  BY DEF Begin, FatTypeOK
<1>2. PICK found \in {Loaded(Dirs[d][Root]), JunkSlots}, counted \in 0 .. Room :
        /\ entryCount' = Counted(counted)
        /\ copy' = CopyPlace
        /\ entries' = IF copy' = "root" THEN WithCopy(found) ELSE found
  BY DEF Begin
<1>3. found \in [Slots -> Cell]
  BY <1>1, RootFacts, LoadedFacts, JunkFacts
<1>4. WithCopy(found) \in [Slots -> Cell]
  BY <1>3 DEF WithCopy, Cell
<1>5. entries' \in [Slots -> Slot \cup {End, Text, Junk}]
  BY <1>2, <1>3, <1>4 DEF Cell
<1>6. entryCount' \in 0 .. MaxCount
  <2>1. entryCount \in 0 .. MaxCount /\ MaxCount \in Nat /\ Room \in Nat
    BY Sizes0 DEF FatTypeOK
  <2>2. QED
    BY <1>2, <2>1 DEF Counted
<1>7. copy' \in {"ahead", "root", "overwritten"}
  BY <1>2 DEF CopyPlace
<1>8. /\ UNCHANGED <<mounted, owner, bs, ahead, mode>>
      /\ call' = c /\ dev' = d /\ path' = p /\ segment' = 1 /\ i' = 1 /\ entry' = 0
      /\ step' = "scan" /\ answer' = NoAnswer
  BY DEF Begin
<1>9. FatTypeOK'
  BY <1>1, <1>5, <1>6, <1>7, <1>8, NoAnswerFacts DEF FatTypeOK
<1>10. QED
  BY <1>1, <1>9

LEMMA MatchTypes ==
  ASSUME FatTypeOK, Match
  PROVE  FatTypeOK'
<1>1. At(i) \in Cell
  BY AtFacts
<1>2. entries' \in [Slots -> Cell]
  BY <1>1, ScratchFacts DEF Match
<1>3. QED
  BY <1>2 DEF Match, args, FatTypeOK, Cell

LEMMA PassTypes ==
  ASSUME FatTypeOK, Pass
  PROVE  FatTypeOK'
<1>1. At(i) \in Cell
  BY AtFacts
<1>2. entries' \in [Slots -> Cell]
  BY <1>1, ScratchFacts DEF Pass
<1>3. i' = i + Stride(At(i)) /\ Stride(At(i)) \in Nat /\ i \in Nat
  BY StrideFacts DEF Pass, FatTypeOK
<1>4. QED
  BY <1>2, <1>3 DEF Pass, args, FatTypeOK, Cell

LEMMA GetDirFacts ==
  ASSUME FatTypeOK, dev \in Devs, NEW s \in Cell
  PROVE  /\ GetDir(s) \in [Slots -> Cell]
         /\ s \in Slot /\ Right(dev) /\ ~Erased =>
              \A t \in Slots : GetDir(s)[t] = IF t <= ClusterSlots THEN Loaded(Dirs[dev][s.at])[t]
                                              ELSE entries[t]
<1>1. CASE s \in Slot /\ Right(dev) /\ ~Erased
  <2>1. Loaded(Dirs[dev][s.at]) \in [Slots -> Cell]
    BY <1>1, SlotFacts, DirFacts, LoadedFacts
  <2>2. entries \in [Slots -> Cell]
    BY DEF FatTypeOK, Cell
  <2>3. GetDir(s) = [t \in Slots |-> IF t <= ClusterSlots THEN Loaded(Dirs[dev][s.at])[t] ELSE entries[t]]
    BY <1>1 DEF GetDir
  <2>4. QED
    BY <2>1, <2>2, <2>3
<1>2. CASE ~(s \in Slot /\ Right(dev) /\ ~Erased)
  <2>1. GetDir(s) = JunkSlots
    BY <1>2 DEF GetDir
  <2>2. QED
    BY <1>2, <2>1, JunkFacts
<1>3. QED
  BY <1>1, <1>2

LEMMA DescendTypes ==
  ASSUME FatTypeOK, dev \in Devs, Descend
  PROVE  FatTypeOK'
<1>1. entries' \in [Slots -> Cell]
  BY AtFacts, GetDirFacts DEF Descend
<1>2. /\ copy' \in {"ahead", "root", "overwritten"} /\ bs' \in Devs
      /\ segment' = segment + 1 /\ segment' \in Nat /\ i' = 1 /\ step' = "scan"
  BY DEF Descend, FatTypeOK
<1>3. QED
  BY <1>1, <1>2 DEF Descend, args, FatTypeOK, Cell

LEMMA ToldFacts ==
  ASSUME NEW s \in Cell
  PROVE  /\ Told(s) \in Slot \cup {NULL, Junk} /\ ReadTold(s) \in Slot \cup {NULL, Junk}
         /\ s \in Slot /\ s.kind # "long" => Told(s) = s
BY DEF Told, ReadTold

LEMMA FinishTypes ==
  ASSUME FatTypeOK, Finish
  PROVE  FatTypeOK'
<1>1. At(entry) \in Cell
  BY AtFacts
<1>2. \/ answer' = [found |-> TRUE, slot |-> Told(At(entry))]
      \/ answer' = [found |-> TRUE, slot |-> ReadTold(At(entry))]
      \/ answer' = answer
  BY DEF Finish
<1>3. answer' \in [found : BOOLEAN, slot : Slot \cup {NULL, Junk}]
  <2>1. \A x \in Slot \cup {NULL, Junk} :
          [found |-> TRUE, slot |-> x] \in [found : BOOLEAN, slot : Slot \cup {NULL, Junk}]
    OBVIOUS
  <2>2. Told(At(entry)) \in Slot \cup {NULL, Junk} /\ ReadTold(At(entry)) \in Slot \cup {NULL, Junk}
    BY <1>1, ToldFacts
  <2>3. answer \in [found : BOOLEAN, slot : Slot \cup {NULL, Junk}]
    BY DEF FatTypeOK
  <2>4. QED
    BY <1>2, <2>1, <2>2, <2>3
<1>4. QED
  BY <1>3 DEF Finish, disk, args, FatTypeOK

LEMMA LookupTypes ==
  ASSUME FatTypeOK, Placed, Lookup
  PROVE  FatTypeOK'
<1>1. CASE MeetJunk
  BY <1>1 DEF MeetJunk, disk, args, FatTypeOK
<1>2. CASE Overrun
  BY <1>2 DEF Overrun, disk, args, place, FatTypeOK
<1>3. CASE EndScan
  BY <1>3 DEF EndScan, disk, args, FatTypeOK
<1>4. CASE Descend
  BY <1>4, DescendTypes DEF Descend, Deciding, Placed, Begun
<1>5. CASE Fail
  BY <1>5 DEF Fail, disk, args, FatTypeOK
<1>6. QED
  BY <1>1, <1>2, <1>3, <1>4, <1>5, MatchTypes, PassTypes, FinishTypes DEF Lookup

LEMMA ReturnTypes ==
  ASSUME FatTypeOK, Return
  PROVE  FatTypeOK'
<1>1. <<>> \in Seq(Names) /\ NoEntries \in [Slots -> Cell]
  BY DEF NoEntries, Cell
<1>2. QED
  BY <1>1, NoAnswerFacts DEF Return, FatTypeOK, Cell

-----------------------------------------------------------------------------
(* One step of a scan *)

ScanStep == Match \/ Pass \/ MeetJunk \/ EndScan

LEMMA ScanKeeps ==
  ASSUME ScanStep
  PROVE  /\ Running /\ Running' /\ step = "scan" /\ step' \in {"scan", "next"}
         /\ UNCHANGED <<mounted, owner, bs, entryCount, ahead, call, dev, path, segment, copy, answer, mode>>
BY DEF ScanStep, Match, Pass, MeetJunk, EndScan, Scanning, disk, args, Running

\* Each step leaves the scan or goes on behind the first slot, which is the
\* only one it may spoil.
LEMMA ScanMoves ==
  ASSUME FatTypeOK, 1 <= i, ScanStep
  PROVE  /\ i' \in Nat /\ i <= i' /\ (step' = "scan" => i < i' /\ i <= entryCount)
         /\ \A s : Passed(s)' <=> s = 1
         /\ entries' \in [Slots -> Cell]
         /\ \A s \in Slots : entries'[s] = entries[s] \/ s = 1
<1>1. i \in Nat /\ entries \in [Slots -> Cell]
  BY DEF FatTypeOK, Cell
<1>2. i' \in Nat /\ i <= i' /\ (step' = "scan" => i < i' /\ i <= entryCount)
  <2>1. CASE Match
    BY <1>1, <2>1 DEF Match
  <2>2. CASE Pass
    BY <1>1, <2>2, StrideFacts DEF Pass, Scanning
  <2>3. CASE MeetJunk
    BY <1>1, <2>3 DEF MeetJunk, Scanning
  <2>4. CASE EndScan
    BY <1>1, <2>4 DEF EndScan
  <2>5. QED
    BY <2>1, <2>2, <2>3, <2>4 DEF ScanStep
<1>3. \A s : Passed(s)' <=> s = 1
  BY <1>1, <1>2 DEF Passed
<1>4. entries' = entries \/ entries' \in Scratched(At(i))
  BY DEF ScanStep, Match, Pass, MeetJunk, EndScan, disk
<1>5. At(i) \in Cell
  BY AtFacts
<1>6. entries' \in [Slots -> Cell] /\ \A s \in Slots : entries'[s] = entries[s] \/ s = 1
  BY <1>1, <1>4, <1>5, ScratchFacts
<1>7. QED
  BY <1>2, <1>3, <1>6

LEMMA ShownStays ==
  ASSUME FatTypeOK, 1 <= i, ScanStep, NEW slots \in Seq(Slot), Len(slots) <= Room, Shown(slots)
  PROVE  Shown(slots)'
<1>1. \A s \in 1 .. Len(slots) : s \in Slots /\ (entries[s] = slots[s] \/ s = 1)
  BY Sizes0 DEF Shown, Passed
<1>2. QED
  BY <1>1, ScanMoves DEF Shown

\* The slot looked at is one of the directory's as long as a visible slot is
\* not passed.
LEMMA SlotLookedAt ==
  ASSUME FatTypeOK, 1 <= i, step = "scan",
         NEW slots \in Seq(Slot), Len(slots) <= Room, Shown(slots), i <= Len(slots)
  PROVE  At(i) = slots[i] /\ slots[i] \in Slot /\ i \in Slots /\ entries[i] = slots[i]
<1>1. i \in 1 .. Len(slots) /\ i \in Slots
  BY Sizes0 DEF FatTypeOK
<1>2. ~Passed(i)
  BY DEF Passed
<1>3. entries[i] = slots[i]
  BY <1>1, <1>2 DEF Shown
<1>4. QED
  BY <1>1, <1>3, AtFacts

LEMMA SoughtStays ==
  ASSUME FatTypeOK, 1 <= i, ScanStep, NEW slots \in Seq(Slot), Len(slots) <= Room, Shown(slots),
         NEW name, name = path[segment], Sought(slots, name)
  PROVE  Sought(slots, name)'
<1> SUFFICES ASSUME NEW k \in 1 .. Len(slots), Visible(slots, name, k), k <= entryCount
             PROVE  IF step' = "scan" THEN i' <= k ELSE entry' = k /\ entries'[k] = slots[k]
  BY ScanKeeps DEF Sought, Visible
<1>1. step = "scan" /\ i <= k /\ i \in Nat /\ k \in Nat
  BY ScanKeeps DEF Sought, FatTypeOK
<1>2. At(i) = slots[i] /\ slots[i] \in Slot /\ i \in Slots /\ entries[i] = slots[i]
  BY <1>1, SlotLookedAt
<1>3. ~MeetJunk /\ ~EndScan /\ entryCount \in Nat
  BY <1>1, <1>2, SpecialCells DEF MeetJunk, EndScan, FatTypeOK
<1>4. CASE i = k
  <2>1. IsPath(At(i)) /\ ~Pieces(At(i))
    BY <1>2, <1>4 DEF IsPath, Compared, Visible, Pieces
  <2>2. Match /\ ~Pass
    BY <1>3, <2>1 DEF ScanStep, Pass
  <2>3. entries' = entries
    BY <2>1, <2>2 DEF Match, Scratched
  <2>4. QED
    BY <1>2, <1>4, <2>2, <2>3 DEF Match
<1>5. CASE i < k
  <2>1. /\ slots[i].name # name
        /\ slots[i].kind = "long" /\ slots[i].n > 1 => i + slots[i].n < k
    BY <1>1, <1>5 DEF Visible
  <2>2. ~IsPath(At(i))
    BY <1>2, <2>1 DEF IsPath
  <2>3. Pass
    BY <1>3, <2>2 DEF ScanStep, Match
  <2>4. step' = "scan" /\ i' = i + Stride(slots[i])
    BY <1>1, <1>2, <2>3 DEF Pass
  <2>5. i + Stride(slots[i]) <= k
    <3>1. CASE Pieces(slots[i])
      <4>1. slots[i].kind = "long" /\ slots[i].n \in Nat /\ slots[i].n > 1 /\ Stride(slots[i]) = slots[i].n + 1
        BY <3>1, StrideFacts
      <4>2. i + slots[i].n < k
        BY <2>1, <4>1
      <4>3. QED
        BY <1>1, <4>1, <4>2
    <3>2. CASE ~Pieces(slots[i])
      BY <1>1, <1>5, <3>2, StrideFacts
    <3>3. QED
      BY <3>1, <3>2
  <2>6. QED
    BY <2>4, <2>5
<1>6. QED
  BY <1>1, <1>4, <1>5

-----------------------------------------------------------------------------
(* The steps of a lookup *)

LEMMA LookupKeeps ==
  ASSUME Lookup
  PROVE  /\ Running /\ step \in {"scan", "next"}
         /\ UNCHANGED <<mounted, owner, entryCount, ahead, call, dev, path>>
         /\ Right(dev)' = Right(dev) /\ Spared' = Spared
         /\ RootDir(dev)' = RootDir(dev)
         /\ Running' => mode' = mode
<1>1. /\ Running /\ step \in {"scan", "next"}
      /\ UNCHANGED <<mounted, owner, entryCount, ahead, call, dev, path>>
  BY DEF Lookup, Match, Pass, MeetJunk, Overrun, EndScan, Descend, Fail, Finish, Scanning, Deciding,
     disk, args, place
<1>2. Running' => mode' = mode
  BY <1>1 DEF Running
<1>3. Right(dev)' = Right(dev) /\ RootDir(dev)' = RootDir(dev)
  BY <1>1 DEF Right, RootDir
<1>4. Spared' = Spared
  BY <1>1, <1>3 DEF Spared
<1>5. QED
  BY <1>1, <1>2, <1>3, <1>4

LEMMA LookupCases ==
  ASSUME Lookup
  PROVE  ScanStep \/ Overrun \/ Descend \/ Fail \/ Finish
BY DEF Lookup, ScanStep

LEMMA LookupPlaced ==
  ASSUME FatTypeOK, Placed, Lookup, UNCHANGED callers
  PROVE  Placed'
<1>1. UNCHANGED <<dev, path, user, node>>
  BY LookupKeeps DEF callers
<1>2. i \in Nat /\ segment \in Nat /\ Len(path) \in Nat
  BY DEF FatTypeOK
<1>3. /\ 1 <= i /\ 1 <= segment
      /\ Begun => dev \in Devs /\ segment <= Len(path)
      /\ user = "open" => dev \in Devs /\ path # <<>>
      /\ step = "idle" \/ ahead # "none" => copy = "ahead"
  BY DEF Placed
<1>4. Begun
  BY LookupKeeps DEF Begun
<1>5. 1 <= i' /\ 1 <= segment' /\ segment' <= Len(path)
  <2>1. CASE ScanStep
    <3>1. i' \in Nat /\ i <= i' /\ segment' = segment
      BY <2>1, <1>3, ScanMoves, ScanKeeps
    <3>2. QED
      BY <1>2, <1>3, <1>4, <3>1
  <2>2. CASE Overrun \/ Fail \/ Finish
    BY <1>3, <1>4, <2>2 DEF Overrun, Fail, Finish, place
  <2>3. CASE Descend
    BY <1>2, <1>3, <2>3 DEF Descend
  <2>4. QED
    BY <2>1, <2>2, <2>3, LookupCases
<1>6. step' # "idle" /\ (ahead' # "none" => copy' = "ahead")
  <2>1. ahead' = ahead /\ step \in {"scan", "next"}
    BY LookupKeeps
  <2>2. step' # "idle" /\ (copy' = copy \/ (copy = "root" /\ copy' = "overwritten"))
    BY <2>1 DEF Lookup, Match, Pass, MeetJunk, Overrun, EndScan, Descend, Fail, Finish, place
  <2>3. QED
    BY <1>3, <2>1, <2>2
<1>7. QED
  BY <1>1, <1>3, <1>4, <1>5, <1>6 DEF Placed

LEMMA LookupCovers ==
  ASSUME CountCovers, Lookup
  PROVE  CountCovers'
BY LookupKeeps DEF CountCovers

\* A name that is not there, within the buffer, is matched by nothing.
LEMMA NothingMatches ==
  ASSUME FatTypeOK, 1 <= i, ScanStep, NEW slots \in Seq(Slot), Len(slots) <= Room, Shown(slots),
         \A s \in Slots : s > Len(slots) => entries[s] = End,
         entryCount <= Room, Missing(slots, path[segment])
  PROVE  entry' = entry
<1>1. SUFFICES ASSUME Match \/ MeetJunk PROVE FALSE
  BY DEF ScanStep, Pass, EndScan
<1>2. i \in Slots /\ step = "scan" /\ Len(slots) \in Nat
  BY <1>1, Sizes0 DEF Match, MeetJunk, Scanning, FatTypeOK
<1>3. CASE i <= Len(slots)
  <2>1. At(i) = slots[i] /\ slots[i] \in Slot /\ i \in 1 .. Len(slots)
    BY <1>2, <1>3, SlotLookedAt, Sizes0
  <2>2. slots[i].name # path[segment]
    BY <2>1 DEF Missing
  <2>3. QED
    BY <1>1, <2>1, <2>2, SpecialCells DEF Match, MeetJunk, IsPath
<1>4. CASE i > Len(slots)
  <2>1. At(i) = End
    BY <1>2, <1>4, AtFacts
  <2>2. QED
    BY <1>1, <2>1, SpecialCells DEF Match, MeetJunk, IsPath, Compared
<1>5. QED
  BY <1>2, <1>3, <1>4, Sizes0

LEMMA ScanKeepsEntry ==
  ASSUME ScanStep, step' = "scan"
  PROVE  entry' = entry
BY DEF ScanStep, Match, Pass, MeetJunk, EndScan

LEMMA ScanRoot ==
  ASSUME FatTypeOK, Placed, RootScan, ScanStep
  PROVE  RootScan'
<1>1. SUFFICES ASSUME Begun', Spared', segment' = 1
               PROVE  RootScan'
  BY DEF RootScan
<1>2. /\ Running /\ step = "scan" /\ step' \in {"scan", "next"} /\ segment = 1
      /\ UNCHANGED <<entryCount, dev, path, copy, answer>>
  BY <1>1, ScanKeeps
<1>3. Lookup /\ Begun /\ Spared /\ dev \in Devs /\ 1 <= i
  BY <1>1, <1>2, LookupKeeps DEF ScanStep, Lookup, Begun, Placed
<1>4. PICK root \in Seq(Slot) : root = RootDir(dev)
  BY <1>3, RootFacts
<1>5. RootDir(dev)' = root /\ Len(root) <= Room /\ Len(root) \in Nat /\ 1 <= Len(root)
  BY <1>3, <1>4, LookupKeeps, RootFacts, Sizes0
<1>6. /\ copy = "ahead" /\ answer = NoAnswer /\ Shown(root) /\ Sought(root, path[1])
      /\ \A s \in Slots : s > Len(root) => entries[s] = End
      /\ entry = 0
  BY <1>2, <1>3, <1>4 DEF RootScan
<1>7. Shown(root)' /\ Sought(root, path[1])'
  <2>1. PICK name : name = path[1]
    OBVIOUS
  <2>2. Sought(root, name)'
    BY <1>2, <1>3, <1>5, <1>6, <2>1, SoughtStays
  <2>3. path[1]' = name
    BY <1>2, <2>1
  <2>4. QED
    BY <1>3, <1>5, <1>6, <2>2, <2>3, ShownStays
<1>8. \A s \in Slots : s > Len(root) => entries'[s] = End
  BY <1>3, <1>5, <1>6, ScanMoves, Sizes0
<1>9. step' = "scan" \/ (entryCount' <= Room /\ Missing(root, path[1])') => entry' = 0
  <2>1. CASE step' = "scan"
    BY <1>6, <2>1, ScanKeepsEntry
  <2>2. CASE entryCount <= Room /\ Missing(root, path[1])
    BY <1>2, <1>3, <1>5, <1>6, <2>2, NothingMatches
  <2>3. QED
    BY <1>2, <2>1, <2>2 DEF Missing
<1>10. QED
  BY <1>2, <1>5, <1>6, <1>7, <1>8, <1>9 DEF RootScan

LEMMA ScanDeep ==
  ASSUME FatTypeOK, Placed, DeepScan, ScanStep
  PROVE  DeepScan'
<1>1. SUFFICES ASSUME Begun', Spared', ~Erased', segment' = 2
               PROVE  DeepScan'
  BY DEF DeepScan
<1>2. /\ Running /\ step = "scan" /\ segment = 2
      /\ UNCHANGED <<bs, entryCount, dev, path, call, copy, ahead>>
  BY <1>1, ScanKeeps
<1>3. Begun /\ Spared /\ ~Erased /\ dev \in Devs /\ 1 <= i /\ RootDir(dev)' = RootDir(dev)
  BY <1>1, <1>2, LookupKeeps DEF ScanStep, Lookup, Begun, Placed, Erased
<1>4. ASSUME NEW k \in 1 .. Len(RootDir(dev)), Visible(RootDir(dev), path[1], k),
             RootDir(dev)[k].kind = "dir",
             NEW inner, inner = Dirs[dev][RootDir(dev)[k].at]
      PROVE  Shown(inner)' /\ Sought(inner, path[2])'
  <2>1. RootDir(dev)[k] \in Slot
    BY <1>3, <1>4, RootFacts
  <2>2. inner \in Seq(Slot) /\ Len(inner) <= Room
    BY <1>3, <1>4, <2>1, SlotFacts, DirFacts
  <2>3. Shown(inner) /\ Sought(inner, path[2])
    BY <1>2, <1>3, <1>4 DEF DeepScan
  <2>4. PICK name : name = path[2]
    OBVIOUS
  <2>5. Shown(inner)' /\ Sought(inner, name)'
    BY <1>2, <1>3, <2>2, <2>3, <2>4, ShownStays, SoughtStays
  <2>6. path[2]' = name
    BY <1>2, <2>4
  <2>7. QED
    BY <2>5, <2>6
<1>5. bs' = dev'
  BY <1>2, <1>3 DEF DeepScan
<1>6. QED
  BY <1>2, <1>3, <1>4, <1>5 DEF DeepScan, Visible

\* The visible slot of a directory is the entry found, when the scan of the
\* root directory has ended.
LEMMA RootFound ==
  ASSUME FatTypeOK, Placed, RootScan, CountCovers, Begun, step = "next", Spared, segment = 1,
         NEW k \in 1 .. Len(RootDir(dev)), Visible(RootDir(dev), path[1], k)
  PROVE  /\ entry = k /\ At(entry) = RootDir(dev)[k] /\ RootDir(dev)[k] \in Slot /\ entry # 0
<1>1. dev \in Devs /\ Len(RootDir(dev)) <= entryCount /\ Sought(RootDir(dev), path[1])
  <2>1. dev \in Devs /\ segment <= Len(path)
    BY DEF Placed
  <2>2. path # <<>>
    BY <2>1 DEF FatTypeOK
  <2>3. QED
    BY <2>1, <2>2 DEF CountCovers, RootScan, Begun
<1>2. RootDir(dev)[k] \in Slot /\ k \in Slots /\ Len(RootDir(dev)) \in Nat
  BY <1>1, RootFacts
<1>3. k <= entryCount
  BY <1>1, <1>2 DEF FatTypeOK
<1>4. entry = k /\ entries[k] = RootDir(dev)[k]
  BY <1>1, <1>3 DEF Sought
<1>5. QED
  BY <1>2, <1>4, AtFacts

\* The same for a subdirectory, within the count.
LEMMA DeepFound ==
  ASSUME FatTypeOK, Placed, DeepScan, Begun, step = "next", Spared, ~Erased, segment = 2,
         NEW k \in 1 .. Len(RootDir(dev)), Visible(RootDir(dev), path[1], k),
         RootDir(dev)[k].kind = "dir",
         NEW inner, inner = Dirs[dev][RootDir(dev)[k].at],
         NEW l \in 1 .. Len(inner), Visible(inner, path[2], l), l <= entryCount
  PROVE  entry = l /\ At(entry) = inner[l] /\ inner[l] \in Slot /\ entry # 0 /\ bs = dev
<1>1. dev \in Devs
  BY DEF Placed
<1>2. RootDir(dev)[k] \in Slot
  BY <1>1, RootFacts
<1>3. inner[l] \in Slot /\ l \in Slots
  BY <1>1, <1>2, SlotFacts, DirFacts
<1>4. Sought(inner, path[2]) /\ bs = dev
  BY DEF DeepScan
<1>5. entry = l /\ entries[l] = inner[l]
  BY <1>4 DEF Sought
<1>6. QED
  BY <1>3, <1>4, <1>5, AtFacts

\* The subdirectory read into the buffer is whole, even when it is the root
\* directory itself and longer than a cluster: the rest of it is still there.
LEMMA SubdirectoryShown ==
  ASSUME FatTypeOK, Placed, RootScan, CountCovers, Descend, Spared, ~Erased, segment = 1,
         NEW k \in 1 .. Len(RootDir(dev)), Visible(RootDir(dev), path[1], k),
         NEW inner, inner = Dirs[dev][RootDir(dev)[k].at]
  PROVE  \A s \in 1 .. Len(inner) : entries'[s] = inner[s]
<1>1. Begun /\ step = "next" /\ dev \in Devs
  BY DEF Descend, Deciding, Begun, Placed
<1>2. At(entry) = RootDir(dev)[k] /\ RootDir(dev)[k] \in Slot
  BY <1>1, RootFound
<1>3. RootDir(dev)[k].at \in Clusters
  BY <1>2, SlotFacts
<1>4. /\ inner \in Seq(Slot) /\ Len(inner) \in Nat
      /\ RootDir(dev)[k].at # Root => Len(inner) <= ClusterSlots
      /\ \A s \in 1 .. Len(inner) : s \in Slots
  BY <1>1, <1>3, DirFacts
<1>5. \A t \in Slots : entries'[t] = IF t <= ClusterSlots THEN Loaded(inner)[t] ELSE entries[t]
  <2>1. RootDir(dev)[k] \in Cell /\ Right(dev) /\ entries' = GetDir(RootDir(dev)[k])
    BY <1>2 DEF Cell, Spared, Descend
  <2>2. QED
    BY <1>1, <1>2, <2>1, GetDirFacts
<1>6. ASSUME NEW s \in 1 .. Len(inner)
      PROVE  entries'[s] = inner[s]
  <2>1. s \in Slots /\ s \in Nat /\ s <= Len(inner)
    BY <1>4
  <2>2. CASE s <= ClusterSlots
    BY <1>4, <1>5, <2>1, <2>2, LoadedFacts
  <2>3. CASE s > ClusterSlots
    <3>1. inner = RootDir(dev) /\ s # 1
      BY <1>4, <2>1, <2>3, Sizes0 DEF RootDir
    <3>2. Shown(inner)
      BY <1>1, <3>1 DEF RootScan
    <3>3. entries[s] = inner[s]
      BY <3>1, <3>2 DEF Shown, Passed
    <3>4. QED
      BY <1>5, <2>1, <2>3, <3>3, Sizes0
  <2>4. QED
    BY <2>1, <2>2, <2>3, Sizes0
<1>7. QED
  BY <1>6

LEMMA DescendKeeps ==
  ASSUME FatTypeOK, Placed, RootScan, CountCovers, Descend
  PROVE  RootScan' /\ DeepScan'
<1>1. /\ Lookup /\ Begun /\ step = "next" /\ segment' = segment + 1 /\ segment \in Nat
      /\ step' = "scan" /\ i' = 1 /\ bs' = dev /\ dev \in Devs /\ 1 <= segment
  BY DEF Descend, Deciding, Lookup, Begun, Placed, FatTypeOK
<1>2. /\ UNCHANGED <<entryCount, dev, path, call, ahead>>
      /\ Spared' = Spared /\ RootDir(dev)' = RootDir(dev)
  BY <1>1, LookupKeeps
<1>3. RootScan'
  BY <1>1 DEF RootScan
<1>4. ASSUME Begun', Spared', ~Erased', segment' = 2
      PROVE  /\ bs' = dev'
             /\ \A k \in 1 .. Len(RootDir(dev)) :
                  Visible(RootDir(dev), path[1], k) /\ RootDir(dev)[k].kind = "dir" =>
                    LET inner == Dirs[dev][RootDir(dev)[k].at]
                    IN  Shown(inner)' /\ Sought(inner, path[2])'
  <2>1. Spared /\ segment = 1
    BY <1>1, <1>2, <1>4
  <2>2. copy = "ahead" /\ copy' = copy /\ ~Erased
    BY <1>1, <1>2, <1>4, <2>1 DEF RootScan, Descend, Erased
  <2>3. ASSUME NEW k \in 1 .. Len(RootDir(dev)), Visible(RootDir(dev), path[1], k),
               NEW inner, inner = Dirs[dev][RootDir(dev)[k].at]
        PROVE  Shown(inner)' /\ Sought(inner, path[2])'
    <3>1. \A s \in 1 .. Len(inner) : entries'[s] = inner[s]
      BY <2>1, <2>2, <2>3, SubdirectoryShown
    <3>2. RootDir(dev)[k] \in Slot
      BY <1>1, RootFacts
    <3>3. Len(inner) \in Nat
      BY <1>1, <2>3, <3>2, SlotFacts, DirFacts
    <3>4. \A l \in 1 .. Len(inner) : i' <= l
      BY <1>1, <3>3
    <3>5. QED
      BY <1>1, <3>1, <3>4 DEF Shown, Sought
  <2>4. QED
    BY <1>1, <1>2, <2>3
<1>5. DeepScan'
  BY <1>2, <1>4 DEF DeepScan, Visible
<1>6. QED
  BY <1>3, <1>5

LEMMA DirectoryOrNot ==
  ASSUME NEW s \in Slot
  PROVE  (IsDirectory(s) <=> s.kind = "dir") /\ (IsNoDirectory(s) <=> s.kind # "dir")
BY SpecialCells DEF IsDirectory, IsNoDirectory

LEMMA EndRoot ==
  ASSUME FatTypeOK, Placed, RootScan, CountCovers, Fail \/ Finish
  PROVE  RootLookups'
<1>1. /\ Lookup /\ Begun /\ step = "next" /\ dev \in Devs /\ 1 <= segment /\ segment <= Len(path)
      /\ segment \in Nat /\ bs' = bs
  BY DEF Fail, Finish, Deciding, Lookup, Begun, Placed, FatTypeOK, disk
<1>2. /\ UNCHANGED <<owner, entryCount, dev, path, call, ahead>>
      /\ Spared' = Spared /\ Right(dev)' = Right(dev)
  BY <1>1, LookupKeeps
<1>3. SUFFICES ASSUME Undisturbed', Len(path) = 1
               PROVE  /\ \A k \in 1 .. Len(RootDir(dev)) :
                           Visible(RootDir(dev), path[1], k) /\ FileOrFind(RootDir(dev)[k]) =>
                             answer' = [found |-> TRUE, slot |-> RootDir(dev)[k]]
                      /\ entryCount <= Room /\ Missing(RootDir(dev), path[1]) => ~answer'.found
  BY <1>2 DEF RootLookups, RootDir, Missing, FileOrFind, Visible
<1>4. Spared /\ Right(dev) /\ Geometry[bs] = Geometry[dev] /\ segment = 1
  BY <1>1, <1>2, <1>3 DEF Undisturbed, Spared
<1>5. ASSUME NEW k \in 1 .. Len(RootDir(dev)), Visible(RootDir(dev), path[1], k),
             FileOrFind(RootDir(dev)[k])
      PROVE  answer' = [found |-> TRUE, slot |-> RootDir(dev)[k]]
  <2>1. At(entry) = RootDir(dev)[k] /\ RootDir(dev)[k] \in Slot /\ entry # 0
    BY <1>1, <1>4, <1>5, RootFound
  <2>2. Told(RootDir(dev)[k]) = RootDir(dev)[k] /\ ReadTold(RootDir(dev)[k]) = RootDir(dev)[k]
    BY <1>4, <1>5, <2>1 DEF Told, ReadTold, Visible
  <2>3. Finish
    BY <1>3, <1>4, <2>1 DEF Fail
  <2>4. call = "find" \/ ~IsDirectory(RootDir(dev)[k])
    BY <1>5, <2>1, DirectoryOrNot DEF FileOrFind
  <2>5. QED
    BY <2>1, <2>2, <2>3, <2>4 DEF Finish
<1>6. ASSUME entryCount <= Room, Missing(RootDir(dev), path[1])
      PROVE  ~answer'.found
  <2>1. entry = 0 /\ answer = NoAnswer
    BY <1>1, <1>4, <1>6 DEF RootScan
  <2>2. Fail
    BY <2>1 DEF Finish
  <2>3. QED
    BY <2>1, <2>2, NoAnswerFacts DEF Fail
<1>7. QED
  BY <1>5, <1>6

LEMMA EndDeep ==
  ASSUME FatTypeOK, Placed, RootScan, DeepScan, CountCovers, Fail \/ Finish
  PROVE  DeepEnd'
<1>1. /\ Lookup /\ Begun /\ step = "next" /\ dev \in Devs /\ 1 <= segment /\ segment <= Len(path)
      /\ segment \in Nat /\ bs' = bs /\ copy' = copy
  BY DEF Fail, Finish, Deciding, Lookup, Begun, Placed, FatTypeOK, disk
<1>2. /\ UNCHANGED <<owner, entryCount, dev, path, call, ahead>>
      /\ Spared' = Spared /\ RootDir(dev)' = RootDir(dev) /\ Erased' = Erased
      /\ \A slot : FileOrFind(slot)' = FileOrFind(slot)
  BY <1>1, LookupKeeps DEF Erased, FileOrFind
<1>3. SUFFICES
        ASSUME Spared, Len(path) = 2, ~Erased,
               NEW k \in 1 .. Len(RootDir(dev)), Visible(RootDir(dev), path[1], k),
               RootDir(dev)[k].kind = "dir",
               NEW inner, inner = Dirs[dev][RootDir(dev)[k].at],
               NEW l \in 1 .. Len(inner), Visible(inner, path[2], l), l <= entryCount,
               FileOrFind(inner[l])
        PROVE  answer' = [found |-> TRUE, slot |-> inner[l]]
  BY <1>2 DEF DeepEnd
<1>4. CASE segment = 1
  <2>1. At(entry) = RootDir(dev)[k] /\ RootDir(dev)[k] \in Slot /\ entry # 0
    BY <1>1, <1>3, <1>4, RootFound
  <2>2. ~IsNoDirectory(At(entry))
    BY <1>3, <2>1, DirectoryOrNot
  <2>3. QED
    BY <1>3, <1>4, <2>1, <2>2 DEF Fail, Finish
<1>5. CASE segment = 2
  <2>1. At(entry) = inner[l] /\ inner[l] \in Slot /\ entry # 0 /\ bs = dev
    BY <1>1, <1>3, <1>5, DeepFound
  <2>2. Told(inner[l]) = inner[l] /\ ReadTold(inner[l]) = inner[l]
    BY <1>3, <2>1 DEF Told, ReadTold, Visible, Spared
  <2>3. Finish
    BY <1>3, <1>5, <2>1 DEF Fail
  <2>4. call = "find" \/ ~IsDirectory(inner[l])
    BY <1>3, <2>1, DirectoryOrNot DEF FileOrFind
  <2>5. QED
    BY <2>1, <2>2, <2>3, <2>4 DEF Finish
<1>6. QED
  BY <1>1, <1>3, <1>4, <1>5

\* Every step of a lookup keeps what is known of it.
LEMMA LookupLookups ==
  ASSUME FatTypeOK, Lookups, Lookup, UNCHANGED callers
  PROVE  Lookups'
<1>1. Placed' /\ CountCovers'
  BY LookupPlaced, LookupCovers DEF Lookups
<1>2. CASE ScanStep
  <2>1. RootScan' /\ DeepScan'
    BY <1>2, ScanRoot, ScanDeep DEF Lookups
  <2>2. step' # "done"
    BY <1>2, ScanKeeps
  <2>3. RootLookups' /\ DeepEnd'
    BY <2>2 DEF RootLookups, DeepEnd, Ended
  <2>4. QED
    BY <1>1, <2>1, <2>3 DEF Lookups
<1>3. CASE Overrun
  BY <1>1, <1>3 DEF Lookups, Overrun, Running, Begun, Ended, RootScan, DeepScan, RootLookups, DeepEnd
<1>4. CASE Descend
  <2>1. RootScan' /\ DeepScan'
    BY <1>4, DescendKeeps DEF Lookups
  <2>2. RootLookups' /\ DeepEnd'
    BY <1>4 DEF Descend, RootLookups, DeepEnd, Ended
  <2>3. QED
    BY <1>1, <2>1, <2>2 DEF Lookups
<1>5. CASE Fail \/ Finish
  <2>1. step' = "done"
    BY <1>5 DEF Fail, Finish
  <2>2. RootScan' /\ DeepScan'
    BY <2>1 DEF RootScan, DeepScan, Begun
  <2>3. RootLookups' /\ DeepEnd'
    BY <1>5, EndRoot, EndDeep DEF Lookups
  <2>4. QED
    BY <1>1, <2>2, <2>3 DEF Lookups
<1>6. QED
  BY <1>2, <1>3, <1>4, <1>5, LookupCases

-----------------------------------------------------------------------------
(* The beginning of a lookup, and the time between two *)

LEMMA BeginLookups ==
  ASSUME FatTypeOK, NEW c \in {"find", "read"}, NEW d, NEW p \in Seq(Names), p # <<>>, Begin(c, d, p)
  PROVE  /\ RootScan' /\ DeepScan' /\ CountCovers' /\ RootLookups' /\ DeepEnd'
         /\ 1 <= i' /\ 1 <= segment' /\ dev' \in Devs /\ path' # <<>> /\ segment' <= Len(path')
         /\ step' # "idle" /\ (ahead' # "none" => copy' = "ahead")
<1>1. /\ step' = "scan" /\ segment' = 1 /\ i' = 1 /\ entry' = 0 /\ answer' = NoAnswer
      /\ call' = c /\ dev' = d /\ path' = p /\ d \in Devs
      /\ UNCHANGED <<owner, ahead>> /\ Len(p) \in Nat /\ Len(p) # 0
  BY BeginTypes DEF Begin
<1>2. DeepScan' /\ RootLookups' /\ DeepEnd'
  BY <1>1 DEF DeepScan, RootLookups, DeepEnd, Ended
<1>3. PICK root \in Seq(Slot) : root = RootDir(d)
  BY <1>1, RootFacts
<1>4. Len(root) \in Nat /\ Len(root) < Room /\ RootDir(dev)' = root
      /\ \A k \in 1 .. Len(root) : k \in Slots
  BY <1>1, <1>3, RootFacts DEF RootDir
<1>5. ASSUME Spared'
      PROVE  copy' = "ahead" /\ entries' = Loaded(root) /\ Len(root) <= entryCount'
  <2>1. ahead # "none" /\ Right(d)
    BY <1>1, <1>5 DEF Spared, Right
  <2>2. PICK found \in {Loaded(Dirs[d][Root]), JunkSlots}, counted \in 0 .. Room :
          /\ ReadRoot(d, found, counted)
          /\ entryCount' = Counted(counted)
          /\ copy' = CopyPlace
          /\ entries' = IF copy' = "root" THEN WithCopy(found) ELSE found
    BY DEF Begin
  <2>3. found = Loaded(root) /\ counted = Len(root)
    BY <1>3, <2>1, <2>2 DEF ReadRoot, RootDir
  <2>4. copy' = "ahead" /\ entries' = Loaded(root)
    BY <2>1, <2>2, <2>3 DEF CopyPlace
  <2>5. entryCount \in Nat /\ MaxCount \in Nat /\ Room < MaxCount /\ Room \in Nat
    BY Sizes0 DEF FatTypeOK
  <2>6. Len(root) <= Counted(Len(root))
    BY <1>4, <2>5 DEF Counted
  <2>7. QED
    BY <2>2, <2>3, <2>4, <2>6
<1>6. CountCovers'
  BY <1>4, <1>5 DEF CountCovers
<1>7. ASSUME Spared'
      PROVE  /\ Shown(root)' /\ Sought(root, path[1])'
             /\ \A s \in Slots : s > Len(root) => entries'[s] = End
  <2>1. \A s \in Slots : entries'[s] = IF s <= Len(root) THEN root[s] ELSE End
    BY <1>5, <1>7, LoadedFacts
  <2>2. \A s \in 1 .. Len(root) : entries'[s] = root[s]
    BY <1>4, <2>1
  <2>3. \A s \in Slots : s > Len(root) => entries'[s] = End
    BY <1>4, <2>1, Sizes0
  <2>4. \A k \in 1 .. Len(root) : i' <= k
    BY <1>1, <1>4
  <2>5. QED
    BY <1>1, <2>2, <2>3, <2>4 DEF Shown, Sought
<1>8. RootScan'
  BY <1>1, <1>4, <1>5, <1>7 DEF RootScan
<1>9. ahead' # "none" => copy' = "ahead"
  BY <1>1 DEF Begin, CopyPlace
<1>10. QED
  BY <1>1, <1>2, <1>6, <1>8, <1>9

LEMMA IdleLookups ==
  ASSUME step' = "idle"
  PROVE  RootScan' /\ DeepScan' /\ CountCovers' /\ RootLookups' /\ DeepEnd'
BY DEF RootScan, DeepScan, CountCovers, RootLookups, DeepEnd, Begun, Ended

LEMMA IdlePlaced ==
  ASSUME step' = "idle", 1 <= i', 1 <= segment', user' # "open", copy' = "ahead"
  PROVE  Placed'
BY DEF Placed, Begun

LEMMA ReturnLookups ==
  ASSUME Return, user' # "open"
  PROVE  Lookups'
<1>1. step' = "idle" /\ i' = 1 /\ segment' = 1 /\ copy' = "ahead"
  BY DEF Return
<1>2. QED
  BY <1>1, IdleLookups, IdlePlaced DEF Lookups

LEMMA QuietLookups ==
  ASSUME Lookups, step = "idle", UNCHANGED <<place, copy>>, user' # "open"
  PROVE  Lookups'
<1>1. step' = "idle" /\ 1 <= i' /\ 1 <= segment' /\ copy' = "ahead"
  BY DEF place, Lookups, Placed
<1>2. QED
  BY <1>1, IdleLookups, IdlePlaced DEF Lookups

\* A read of a node, or the failure of one whose name was spoilt.
LEMMA ReadAgainKeeps ==
  ASSUME TypeOK, Lookups, ReadAgain, UNCHANGED callers, user # "open"
  PROVE  FatTypeOK' /\ Lookups'
<1>1. /\ FatTypeOK /\ node.dev \in Devs \cup {NULL} /\ node.name \in Seq(Names)
      /\ UNCHANGED <<user, node>>
  BY DEF TypeOK, callers
<1>3. CASE node.name # <<>> /\ Begin("read", node.dev, node.name)
  <2>1. FatTypeOK' /\ node.dev \in Devs
    BY <1>1, <1>3, BeginTypes
  <2>3. /\ RootScan' /\ DeepScan' /\ CountCovers' /\ RootLookups' /\ DeepEnd'
        /\ 1 <= i' /\ 1 <= segment' /\ dev' \in Devs /\ path' # <<>> /\ segment' <= Len(path')
        /\ step' # "idle" /\ (ahead' # "none" => copy' = "ahead")
    BY <1>1, <1>3, BeginLookups
  <2>4. Placed'
    BY <2>3 DEF Placed
  <2>5. QED
    BY <2>1, <2>3, <2>4 DEF Lookups
<1>4. CASE /\ node.name = <<>> /\ Idle
           /\ call' = "read" /\ dev' = node.dev /\ path' = <<>>
           /\ step' = "done" /\ answer' = NoAnswer
           /\ UNCHANGED <<disk, ahead, segment, i, entry, copy, mode>>
  <2>1. <<>> \in Seq(Names) /\ path' = <<>> /\ Len(path') = 0
    BY <1>4
  <2>2. FatTypeOK'
    BY <1>1, <1>4, <2>1, NoAnswerFacts DEF FatTypeOK, disk
  <2>3. RootScan' /\ DeepScan' /\ CountCovers' /\ RootLookups' /\ DeepEnd'
    BY <1>4, <2>1 DEF RootScan, DeepScan, CountCovers, RootLookups, DeepEnd, Begun
  <2>4. Placed'
    BY <1>1, <1>4 DEF Lookups, Placed, Begun, Idle
  <2>5. QED
    BY <2>2, <2>3, <2>4 DEF Lookups
<1>5. QED
  BY <1>3, <1>4 DEF ReadAgain

-----------------------------------------------------------------------------
(* The callers *)

Node == [dev : Devs \cup {NULL}, name : Seq(Names), size : Sizes]

CallersOK ==
  /\ user \in {"none", "open", "load", "fread", "bad fread"}
  /\ node \in Node
  /\ bytes \in 0 .. Word - 1
  /\ held \in Slot \cup {Junk, NULL}

LEMMA TypeParts == TypeOK <=> FatTypeOK /\ CallersOK
BY DEF TypeOK, CallersOK, Node

LEMMA SizeFacts == /\ Word \in Nat /\ 1 <= Word /\ 0 \in 0 .. Word - 1
                   /\ 0 \in Sizes /\ FileSize \in Sizes /\ Sizes \subseteq 0 .. Word - 1 /\ Sizes \subseteq Nat
BY LoaderAssumption

LEMMA NoNodeFacts == NoNode \in Node /\ NoNode.dev = NULL
BY SizeFacts DEF NoNode, Node

LEMMA IInvNode ==
  ASSUME IInv
  PROVE  /\ FatTypeOK /\ CallersOK /\ Lookups /\ Placed
         /\ node.size \in Sizes /\ node.dev \in Devs \cup {NULL} /\ node.name \in Seq(Names)
<1>1. FatTypeOK /\ CallersOK /\ Lookups /\ Placed
  BY TypeParts DEF IInv, Lookups
<1>2. QED
  BY <1>1 DEF CallersOK, Node

LEMMA IInvAgain ==
  ASSUME FatTypeOK', CallersOK', Lookups', Asking', Reading'
  PROVE  IInv'
BY DEF IInv, TypeOK, CallersOK, Node

\* Steps that do not touch the callers.
LEMMA CallersStay ==
  ASSUME CallersOK, UNCHANGED callers
  PROVE  CallersOK'
BY DEF CallersOK, callers

LEMMA FatStays ==
  ASSUME FatTypeOK, UNCHANGED fatvars
  PROVE  FatTypeOK' /\ UNCHANGED <<place, copy>>
BY DEF FatTypeOK, fatvars, disk, args, place

\* Between two calls nothing is asked for or read.
LEMMA IdleCallers ==
  ASSUME step' = "idle"
  PROVE  Asking' /\ Reading'
BY DEF Asking, Reading

LEMMA LookupKeepsIInv ==
  ASSUME IInv, Lookup, UNCHANGED callers
  PROVE  IInv'
<1>1. FatTypeOK' /\ CallersOK' /\ Lookups'
  BY IInvNode, LookupTypes, CallersStay, LookupLookups
<1>2. /\ UNCHANGED <<call, dev, path, user, node, bytes>>
      /\ step # "idle" /\ Running
  BY LookupKeeps DEF callers
<1>3. Asking' /\ Reading'
  BY <1>2 DEF IInv, Asking, Reading
<1>4. QED
  BY <1>1, <1>3, IInvAgain

LEMMA RestKeeps ==
  ASSUME IInv, Rest
  PROVE  IInv'
<1>1. /\ FatTypeOK /\ CallersOK /\ Lookups
      /\ user = "none" /\ step = "idle" /\ UNCHANGED <<place, copy>> /\ UNCHANGED callers
  BY IInvNode DEF Rest, HeapChanges, Mount, Idle
<1>2. step' = "idle" /\ user' # "open"
  BY <1>1 DEF place, callers
<1>3. FatTypeOK'
  <2>1. CASE HeapChanges
    BY <1>1, <2>1 DEF HeapChanges, disk, args, place, FatTypeOK
  <2>2. ASSUME NEW d \in Devs, Mount(d)
        PROVE  FatTypeOK'
    <3>1. entryCount' \in 0 .. MaxCount
      BY <2>2, RootFacts, Sizes0 DEF Mount, RootDir
    <3>2. QED
      BY <1>1, <2>2, <3>1 DEF Mount, args, place, FatTypeOK
  <2>3. QED
    BY <2>1, <2>2 DEF Rest
<1>4. QED
  BY <1>1, <1>2, <1>3, CallersStay, QuietLookups, IdleCallers, IInvAgain

LEMMA OpenKeeps ==
  ASSUME IInv, NEW d \in Devs, NEW p \in Paths, Open(d, p)
  PROVE  IInv'
<1>1. p \in Seq(Names) /\ p # <<>>
  BY FatAssumption
<1>2. FatTypeOK /\ Begin("find", d, p) /\ user' = "open" /\ node' = NoNode /\ bytes' = 0 /\ held' = NULL
  BY IInvNode DEF Open
<1>3. /\ FatTypeOK'
      /\ RootScan' /\ DeepScan' /\ CountCovers' /\ RootLookups' /\ DeepEnd'
      /\ 1 <= i' /\ 1 <= segment' /\ dev' \in Devs /\ path' # <<>> /\ segment' <= Len(path')
      /\ step' # "idle" /\ (ahead' # "none" => copy' = "ahead")
  BY <1>1, <1>2, BeginTypes, BeginLookups
<1>4. Placed' /\ CallersOK'
  BY <1>2, <1>3, NoNodeFacts, SizeFacts DEF Placed, CallersOK
<1>5. Asking' /\ Reading'
  BY <1>2 DEF Asking, Reading
<1>6. QED
  BY <1>3, <1>4, <1>5, IInvAgain DEF Lookups

\* What is put back is a path, or none.
LEMMA PutBackType ==
  ASSUME FatTypeOK
  PROVE  PutBack \subseteq Seq(Names)
<1>1. path \in Seq(Names) /\ <<>> \in Seq(Names)
  BY DEF FatTypeOK
<1>2. Paths \subseteq Seq(Names)
  BY FatAssumption
<1>3. {path} \subseteq Seq(Names) /\ {<<>>} \subseteq Seq(Names)
  BY <1>1
<1>4. Paths \cup {<<>>} \subseteq Seq(Names)
  BY <1>2, <1>3
<1>5. QED
  BY <1>3, <1>4 DEF PutBack

LEMMA OpenedKeeps ==
  ASSUME IInv, Opened
  PROVE  IInv'
<1>1. FatTypeOK /\ CallersOK /\ Return /\ user' = "none" /\ UNCHANGED <<bytes, held>>
  BY IInvNode DEF Opened
<1>2. node' \in Node
  <2>1. CASE node' = NoNode
    BY <2>1, NoNodeFacts
  <2>2. CASE node' # NoNode
    <3>1. PICK size \in ToldSize(answer), name \in IF LeftOver THEN {<<>>} ELSE PutBack :
            node' = [dev |-> dev, name |-> name, size |-> size]
      BY <2>2 DEF Opened
    <3>2. size \in Sizes
      BY <3>1, SizeFacts DEF ToldSize
    <3>3. name \in Seq(Names)
      <4>1. <<>> \in Seq(Names)
        OBVIOUS
      <4>2. name = <<>> \/ name \in PutBack
        BY <3>1
      <4>3. QED
        BY <1>1, <4>1, <4>2, PutBackType
    <3>4. dev \in Devs \cup {NULL}
      BY <1>1 DEF FatTypeOK
    <3>5. QED
      BY <3>1, <3>2, <3>3, <3>4 DEF Node
  <2>3. QED
    BY <2>1, <2>2
<1>5. CallersOK'
  BY <1>1, <1>2 DEF CallersOK
<1>6. FatTypeOK' /\ Lookups' /\ step' = "idle"
  BY <1>1, ReturnTypes, ReturnLookups DEF Return
<1>7. QED
  BY <1>5, <1>6, IdleCallers, IInvAgain

\* The memory that is overwritten is not that of the lookup, which goes no
\* further.
LEMMA WriteTooFarKeeps ==
  ASSUME IInv, WriteTooFar
  PROVE  IInv'
<1>1. /\ FatTypeOK /\ CallersOK /\ Lookups /\ Placed /\ Asking
      /\ mode' = "lost" /\ UNCHANGED callers
      /\ UNCHANGED <<disk, ahead, args, place, copy, answer>>
  BY IInvNode DEF WriteTooFar, IInv
<1>2. FatTypeOK'
  BY <1>1 DEF FatTypeOK, disk, args, place
<1>3. ~Running' /\ CallersOK'
  BY <1>1, CallersStay DEF Running
<1>4. Placed' /\ Asking'
  BY <1>1, <1>3 DEF Placed, Asking, Begun, args, place, callers
<1>5. Lookups'
  BY <1>3, <1>4 DEF Lookups, RootScan, DeepScan, CountCovers, RootLookups, DeepEnd, Begun, Ended
<1>6. Reading'
  BY <1>3 DEF Reading
<1>7. QED
  BY <1>2, <1>3, <1>4, <1>5, <1>6, IInvAgain

LEMMA QuietKeeps ==
  ASSUME IInv, Idle, UNCHANGED <<fatvars, node>>, user' # "open", CallersOK'
  PROVE  IInv'
<1>1. FatTypeOK' /\ UNCHANGED <<place, copy>> /\ step = "idle" /\ Lookups
  BY IInvNode, FatStays DEF Idle
<1>2. step' = "idle"
  BY <1>1 DEF place
<1>3. QED
  BY <1>1, <1>2, QuietLookups, IdleCallers, IInvAgain

LEMMA StartLoadKeeps ==
  ASSUME IInv, StartLoad
  PROVE  IInv'
BY IInvNode, QuietKeeps, SizeFacts DEF StartLoad, CallersOK

LEMMA EndLoadKeeps ==
  ASSUME IInv, EndLoad
  PROVE  IInv'
BY IInvNode, QuietKeeps, SizeFacts DEF EndLoad, CallersOK

LEMMA StartFreadKeeps ==
  ASSUME IInv, NEW n \in Wanted, StartFread(n)
  PROVE  IInv'
<1>1. n \in 0 .. Word - 1
  BY LoaderAssumption
<1>2. user' \in {"fread", "bad fread"}
  BY DEF StartFread
<1>3. QED
  BY <1>1, <1>2, IInvNode, QuietKeeps DEF StartFread, CallersOK

LEMMA BadFreadKeeps ==
  ASSUME IInv, BadFread
  PROVE  IInv'
<1>0. Word \in Nat /\ 1 <= Word /\ bytes \in 0 .. Word - 1
  BY IInvNode, SizeFacts, Zenon DEF CallersOK
<1>1. bytes \in Int /\ Word \in Nat /\ 1 <= Word
  BY <1>0
<1>2. \A n \in Int : Less(n, -1) \in 0 .. Word - 1
  BY <1>1 DEF Less, Wrap
<1>3. QED
  BY <1>1, <1>2, IInvNode, QuietKeeps DEF BadFread, CallersOK

LEMMA EndFreadKeeps ==
  ASSUME IInv, EndFread
  PROVE  IInv'
BY IInvNode, QuietKeeps DEF EndFread, CallersOK

LEMMA LoadMoreKeeps ==
  ASSUME IInv, LoadMore
  PROVE  IInv'
<1>1. UNCHANGED callers /\ ReadAgain /\ user = "load" /\ bytes < node.size
  BY DEF LoadMore
<1>2. FatTypeOK' /\ Lookups' /\ CallersOK'
  BY <1>1, IInvNode, ReadAgainKeeps, CallersStay DEF IInv
<1>3. Asking'
  BY <1>1 DEF Asking, callers
<1>4. Reading'
  BY <1>1 DEF Reading, callers, ReadAgain, Begin
<1>5. QED
  BY <1>2, <1>3, <1>4, IInvAgain

LEMMA FreadMoreKeeps ==
  ASSUME IInv, FreadMore
  PROVE  IInv'
<1>1. UNCHANGED callers /\ ReadAgain /\ user = "fread" /\ user' = "fread" /\ bytes > 0 /\ bytes' = bytes
  BY DEF FreadMore, callers
<1>2. FatTypeOK' /\ Lookups' /\ CallersOK'
  BY <1>1, IInvNode, ReadAgainKeeps, CallersStay DEF IInv
<1>3. Asking' /\ Reading'
  BY <1>1 DEF Asking, Reading
<1>4. QED
  BY <1>2, <1>3, IInvAgain

\* What the answer puts into the buffer.
LEMMA HeldType ==
  ASSUME FatTypeOK, CallersOK, held' = IF answer.found THEN answer.slot ELSE held
  PROVE  held' \in Slot \cup {Junk, NULL}
BY DEF FatTypeOK, CallersOK

\* What becomes of the name.
LEMMA NameType ==
  ASSUME FatTypeOK, CallersOK, NameAfterRead
  PROVE  node' \in Node
<1>1. PICK name \in PutBack : node' = [node EXCEPT !.name = name]
  BY DEF NameAfterRead
<1>2. name \in Seq(Names) /\ node \in Node
  BY <1>1, PutBackType DEF CallersOK
<1>3. QED
  BY <1>1, <1>2 DEF Node

LEMMA AnsweredFacts ==
  ASSUME NEW found \in BOOLEAN
  PROVE  Answered(found) \in {0, 1}
BY DEF Answered

LEMMA LoadedMoreKeeps ==
  ASSUME IInv, LoadedMore
  PROVE  IInv'
<1>1. /\ FatTypeOK /\ CallersOK /\ Return /\ user = "load" /\ UNCHANGED user /\ NameAfterRead
      /\ held' = IF answer.found THEN answer.slot ELSE held
      /\ bytes' = bytes + Answered(answer.found)
  BY IInvNode DEF LoadedMore
<1>2. bytes < node.size /\ node.size \in 0 .. Word - 1 /\ bytes \in 0 .. Word - 1 /\ Word \in Nat
  BY <1>1, IInvNode, SizeFacts DEF IInv, Asking, Return, CallersOK
<1>3. bytes' \in 0 .. Word - 1
  BY <1>1, <1>2, AnsweredFacts DEF FatTypeOK
<1>4. CallersOK'
  BY <1>1, <1>3, HeldType, NameType DEF CallersOK
<1>5. FatTypeOK' /\ Lookups' /\ step' = "idle"
  BY <1>1, <1>4, ReturnTypes, ReturnLookups DEF Return
<1>6. QED
  BY <1>4, <1>5, IdleCallers, IInvAgain

LEMMA FreadReturnedKeeps ==
  ASSUME IInv, FreadReturned
  PROVE  IInv'
<1>1. /\ FatTypeOK /\ CallersOK /\ Return /\ user = "fread" /\ UNCHANGED user /\ NameAfterRead
      /\ held' = IF answer.found THEN answer.slot ELSE held
      /\ bytes' = Less(bytes, Answered(answer.found))
  BY IInvNode DEF FreadReturned
<1>2. bytes \in Int /\ Word \in Nat /\ 1 <= Word
  BY <1>1, SizeFacts DEF CallersOK
<1>3. \A n \in Int, a \in {0, 1} : Less(n, a) \in 0 .. Word - 1
  BY <1>2 DEF Less, Wrap
<1>4. bytes' \in 0 .. Word - 1
  BY <1>1, <1>2, <1>3, AnsweredFacts DEF FatTypeOK
<1>5. CallersOK'
  BY <1>1, <1>4, HeldType, NameType DEF CallersOK
<1>6. FatTypeOK' /\ Lookups' /\ step' = "idle"
  BY <1>1, <1>5, ReturnTypes, ReturnLookups DEF Return
<1>7. QED
  BY <1>5, <1>6, IdleCallers, IInvAgain

LEMMA StutterKeeps ==
  ASSUME IInv, UNCHANGED vars
  PROVE  IInv'
<1>1. FatTypeOK' /\ CallersOK'
  BY IInvNode, FatStays, CallersStay DEF vars
<1>2. UNCHANGED <<disk, ahead, args, place, copy, answer, mode, user, node, bytes>>
  BY DEF vars, fatvars, callers
<1>3. Placed' /\ CountCovers' /\ Asking' /\ Reading'
  BY <1>2 DEF IInv, Lookups, Placed, CountCovers, Asking, Reading, disk, args, place, Begun, Running,
     Spared, Right, RootDir
<1>4. /\ Begun' = Begun /\ Ended' = Ended /\ Spared' = Spared /\ Erased' = Erased
      /\ Undisturbed' = Undisturbed /\ RootDir(dev)' = RootDir(dev)
      /\ \A slot : FileOrFind(slot)' = FileOrFind(slot)
  BY <1>2 DEF disk, args, place, Begun, Ended, Running, Spared, Right, RootDir, Erased, FileOrFind,
     Undisturbed
<1>5. \A slots, name : /\ Shown(slots)' = Shown(slots) /\ Sought(slots, name)' = Sought(slots, name)
  BY <1>2 DEF Shown, Sought, Passed, Visible, disk, place
<1>6. RootScan'
  BY <1>2, <1>4, <1>5 DEF IInv, Lookups, RootScan, disk, args, place, Missing
<1>7. DeepScan'
  BY <1>2, <1>4, <1>5 DEF IInv, Lookups, DeepScan, disk, args, place, Visible
<1>8. RootLookups'
  BY <1>2, <1>4 DEF IInv, Lookups, RootLookups, disk, args, place, Visible
<1>9. DeepEnd'
  BY <1>2, <1>4 DEF IInv, Lookups, DeepEnd, disk, args, place, Visible
<1>10. QED
  BY <1>1, <1>3, <1>6, <1>7, <1>8, <1>9, IInvAgain DEF Lookups

LEMMA Initially == Init => IInv
<1> SUFFICES ASSUME Init PROVE IInv
  OBVIOUS
<1>1. <<>> \in Seq(Names) /\ NoEntries \in [Slots -> Cell] /\ 0 \in 0 .. MaxCount
  BY Sizes0 DEF NoEntries, Cell
<1>2. FatTypeOK
  BY <1>1, NoAnswerFacts DEF Init, FatInit, FatTypeOK, Cell
<1>3. CallersOK
  BY NoNodeFacts, SizeFacts DEF Init, CallersOK
<1>4. /\ step = "idle" /\ i = 1 /\ segment = 1 /\ user = "none" /\ copy = "ahead"
  BY DEF Init, FatInit
<1>5. Placed /\ RootScan /\ DeepScan /\ CountCovers /\ RootLookups /\ DeepEnd
  BY <1>4 DEF Placed, RootScan, DeepScan, CountCovers, RootLookups, DeepEnd, Begun, Ended
<1>6. Asking /\ Reading
  BY <1>4 DEF Asking, Reading
<1>7. QED
  BY <1>2, <1>3, <1>5, <1>6, TypeParts DEF IInv, Lookups

LEMMA Invariance == IInv /\ [Next]_vars => IInv'
<1> SUFFICES ASSUME IInv, [Next]_vars PROVE IInv'
  OBVIOUS
<1>1. CASE Work
  BY <1>1, LookupKeepsIInv, OpenedKeeps, WriteTooFarKeeps, LoadMoreKeeps, LoadedMoreKeeps, EndLoadKeeps, FreadMoreKeeps,
     FreadReturnedKeeps, BadFreadKeeps, EndFreadKeeps DEF Work
<1>2. CASE Rest
  BY <1>2, RestKeeps
<1>3. ASSUME NEW d \in Devs, NEW p \in Paths, Open(d, p)
      PROVE  IInv'
  BY <1>3, OpenKeeps
<1>4. CASE StartLoad
  BY <1>4, StartLoadKeeps
<1>5. ASSUME NEW n \in Wanted, StartFread(n)
      PROVE  IInv'
  BY <1>5, StartFreadKeeps
<1>6. CASE UNCHANGED vars
  BY <1>6, StutterKeeps
<1>7. QED
  BY <1>1, <1>2, <1>3, <1>4, <1>5, <1>6 DEF Next

-----------------------------------------------------------------------------
(* What a program loaded is *)

LEMMA NoFiles ==
  ASSUME NEW d, NEW p, FilesAt(d, p) # {}
  PROVE  d # NULL /\ Len(p) \in {1, 2}
BY DEF FilesAt

LEMMA RootFiles ==
  ASSUME NEW d, NEW p, d # NULL, Len(p) = 1
  PROVE  FilesAt(d, p) = FilesOf(Dirs[d][Root], p[1], "file")
BY DEF FilesAt

LEMMA SubFiles ==
  ASSUME NEW d, NEW p, d # NULL, Len(p) = 2
  PROVE  FilesAt(d, p) = UNION {FilesOf(Reached(Dirs[d][s.at], Dirs[d][Root]), p[2], "file") :
                                  s \in FilesOf(Dirs[d][Root], p[1], "dir")}
BY DEF FilesAt

LEMMA ReachedFacts ==
  ASSUME NEW slots \in Seq(Slot), NEW root \in Seq(Slot), NEW name,
         NEW l \in 1 .. Len(Reached(slots, root)), Visible(Reached(slots, root), name, l)
  PROVE  /\ l \in 1 .. Len(slots) /\ l <= Len(root)
         /\ Reached(slots, root)[l] = slots[l] /\ Visible(slots, name, l)
<1> DEFINE m == IF Len(slots) < Len(root) THEN Len(slots) ELSE Len(root)
           part == Reached(slots, root)
<1>1. Len(slots) \in Nat /\ Len(root) \in Nat
  OBVIOUS
<1>2. m \in Nat /\ m <= Len(slots) /\ m <= Len(root)
  BY <1>1
<1>3. Len(part) = m /\ \A j \in 1 .. m : part[j] = slots[j]
  BY <1>1, <1>2 DEF Reached
<1>4. l \in 1 .. m
  BY <1>3
<1>5. \A j \in 1 .. l : part[j] = slots[j]
  BY <1>2, <1>3, <1>4
<1> HIDE DEF m, part
<1>6. l \in 1 .. Len(slots) /\ l <= Len(root)
  BY <1>1, <1>2, <1>4
<1>7. Visible(part, name, l)
  BY DEF part
<1>8. \A j \in 1 .. l - 1 : part[j] = slots[j]
  BY <1>5, <1>6
<1>9. part[l] = slots[l]
  BY <1>5, <1>6
<1>10. Visible(slots, name, l)
  BY <1>6, <1>7, <1>8, <1>9 DEF Visible
<1>11. QED
  BY <1>6, <1>9, <1>10 DEF part

\* The answer to a read of the shell's loop is the file.
LEMMA AnswerIsFile ==
  ASSUME IInv, Ended, user = "load", Loadable
  PROVE  answer.found /\ answer.slot \in FilesAt(node.dev, node.name) /\ answer.slot \in Slot
<1>1. call = "read" /\ dev = node.dev /\ path = node.name
  BY DEF IInv, Reading, Ended, Loadable
<1>2. /\ dev # NULL /\ dev \in Devs /\ Len(path) \in {1, 2} /\ path # <<>>
      /\ FilesAt(dev, path) # {}
  <2>1. FilesAt(dev, path) # {}
    BY <1>1 DEF Loadable
  <2>2. dev # NULL /\ Len(path) \in {1, 2}
    BY <2>1, NoFiles
  <2>3. dev \in Devs /\ path # <<>>
    BY <1>1, <2>2, IInvNode DEF Loadable
  <2>4. QED
    BY <2>1, <2>2, <2>3
<1>3. Spared
  BY <1>1 DEF Spared, Right, Loadable
<1>4. PICK root \in Seq(Slot) : root = RootDir(dev) /\ root = Dirs[dev][Root]
  BY <1>2, RootFacts
<1>5. CASE Len(path) = 1
  <2>1. PICK k \in 1 .. Len(root) : Visible(root, path[1], k) /\ root[k].kind = "file"
    BY <1>2, <1>4, <1>5, RootFiles DEF FilesOf
  <2>2. Undisturbed
    BY <1>1, <1>3, <1>5 DEF Undisturbed, Loadable, Spared
  <2>3. answer = [found |-> TRUE, slot |-> root[k]]
    BY <1>4, <1>5, <2>1, <2>2 DEF IInv, Lookups, RootLookups, FileOrFind
  <2>4. root[k] \in FilesAt(dev, path)
    BY <1>2, <1>4, <1>5, <2>1, RootFiles DEF FilesOf
  <2>5. root[k] \in Slot
    BY <1>4, <2>1
  <2>6. QED
    BY <1>1, <2>3, <2>4, <2>5
<1>6. CASE Len(path) = 2
  <2>1. PICK s \in FilesOf(root, path[1], "dir") :
          FilesOf(Reached(Dirs[dev][s.at], root), path[2], "file") # {}
    <3>1. PICK f : f \in FilesAt(dev, path)
      BY <1>2
    <3>2. f \in UNION {FilesOf(Reached(Dirs[dev][s.at], root), path[2], "file") :
                         s \in FilesOf(root, path[1], "dir")}
      BY <1>2, <1>4, <1>6, <3>1, SubFiles
    <3>3. QED
      BY <3>2
  <2>2. PICK k \in 1 .. Len(root) : s = root[k] /\ Visible(root, path[1], k) /\ root[k].kind = "dir"
    BY <2>1 DEF FilesOf
  <2>3. PICK inner : inner = Dirs[dev][root[k].at]
    OBVIOUS
  <2>4. inner \in Seq(Slot)
    <3>1. root[k] \in Slot
      BY <1>2, <1>4, RootFacts
    <3>2. QED
      BY <1>2, <2>3, <3>1, SlotFacts, DirFacts
  <2>5. PICK l \in 1 .. Len(Reached(inner, root)) :
          Visible(Reached(inner, root), path[2], l) /\ Reached(inner, root)[l].kind = "file"
    BY <2>1, <2>2, <2>3 DEF FilesOf
  <2>6. /\ l \in 1 .. Len(inner) /\ l <= Len(root) /\ Reached(inner, root)[l] = inner[l]
        /\ Visible(inner, path[2], l) /\ inner[l].kind = "file"
    BY <1>4, <2>4, <2>5, ReachedFacts
  <2>7. l <= entryCount
    <3>1. Len(root) <= entryCount
      BY <1>2, <1>3, <1>4 DEF IInv, Lookups, CountCovers, Ended
    <3>2. l \in Nat /\ Len(root) \in Nat /\ entryCount \in Nat
      BY <2>6, IInvNode DEF FatTypeOK
    <3>3. QED
      BY <2>6, <3>1, <3>2
  <2>8. answer = [found |-> TRUE, slot |-> inner[l]]
    <3>1. ~Erased
      BY <1>1 DEF Erased
    <3>2. DeepEnd
      BY DEF IInv, Lookups
    <3>3. QED
      BY <1>3, <1>4, <1>6, <2>2, <2>3, <2>6, <2>7, <3>1, <3>2 DEF DeepEnd, FileOrFind
  <2>9. inner[l] \in FilesOf(Reached(inner, root), path[2], "file")
    BY <2>5, <2>6 DEF FilesOf
  <2>10. inner[l] \in FilesAt(dev, path)
    BY <1>2, <1>4, <1>6, <2>1, <2>2, <2>3, <2>9, SubFiles
  <2>11. inner[l] \in Slot
    BY <2>4, <2>6
  <2>12. QED
    BY <1>1, <2>8, <2>10, <2>11
<1>7. QED
  BY <1>2, <1>5, <1>6

\* What makes a node loadable does not come about while it is being loaded.
LEMMA LookupLoadable ==
  ASSUME IInv, Lookup, UNCHANGED callers, user = "load", Loadable'
  PROVE  Loadable
<1>1. UNCHANGED <<owner, ahead, node>>
  BY LookupKeeps DEF callers
<1>2. /\ node.name # <<>> /\ ahead # "none" /\ owner # NULL /\ Geometry[owner] = Geometry[node.dev]
      /\ Len(node.name) = 2 \/ Geometry[bs'] = Geometry[node.dev]
      /\ FilesAt(node.dev, node.name) # {} /\ Fits
  BY <1>1 DEF Loadable, Fits
<1>3. CASE bs' = bs
  BY <1>2, <1>3 DEF Loadable
<1>4. CASE Descend
  <2>1. path = node.name
    BY <1>2, <1>4 DEF IInv, Reading, Descend, Deciding
  <2>2. 1 <= segment /\ segment < Len(path) /\ segment \in Nat
    BY <1>4, IInvNode DEF Descend, Placed, FatTypeOK
  <2>3. Len(path) \in {1, 2}
    BY <1>2, <2>1, NoFiles
  <2>4. Len(node.name) = 2
    BY <2>1, <2>2, <2>3
  <2>5. QED
    BY <1>2, <2>4 DEF Loadable
<1>5. bs' = bs \/ Descend
  BY DEF Lookup, Match, Pass, MeetJunk, Overrun, EndScan, Fail, Finish, disk
<1>6. QED
  BY <1>3, <1>4, <1>5

LEMMA LoadedMoreAnswer ==
  ASSUME IInv, LoadedMore, Loadable
  PROVE  bytes' > bytes /\ held' \in FilesAt(node.dev, node.name)
<1>1. Ended /\ user = "load"
  BY DEF LoadedMore, Return, Ended
<1>2. answer.found /\ answer.slot \in FilesAt(node.dev, node.name)
  BY <1>1, AnswerIsFile
<1>3. bytes' = bytes + 1 /\ held' = answer.slot
  BY <1>2 DEF LoadedMore, Answered
<1>4. bytes \in 0 .. Word - 1 /\ Word \in Nat
  BY IInvNode, SizeFacts, Zenon DEF CallersOK
<1>5. QED
  BY <1>2, <1>3, <1>4

\* The name stays, since the copy is spared.
LEMMA LoadedMoreNode ==
  ASSUME IInv, LoadedMore, ahead # "none"
  PROVE  node' = node
<1>1. /\ step = "done" /\ Running /\ user = "load" /\ NameAfterRead
      /\ node \in Node /\ Placed
  BY IInvNode DEF LoadedMore, Return, CallersOK
<1>2. copy = "ahead" /\ path = node.name
  BY <1>1 DEF Placed, IInv, Reading
<1>3. PutBack = {node.name}
  BY <1>2 DEF PutBack
<1>4. node' = [node EXCEPT !.name = node.name]
  BY <1>1, <1>3 DEF NameAfterRead
<1>5. QED
  BY <1>1, <1>4 DEF Node

LEMMA NotTooFar ==
  ASSUME IInv, user = "load", Loadable
  PROVE  ~WriteTooFar
<1> SUFFICES ASSUME WriteTooFar PROVE FALSE
  OBVIOUS
<1>1. Ended /\ (PastBuffer \/ CopyIsJunk)
  BY DEF WriteTooFar, Ended
<1>2. answer.slot # Junk
  BY <1>1, AnswerIsFile, SpecialCells
<1>3. ~PastBuffer
  BY <1>2 DEF PastBuffer, Loadable
<1>4. ~CopyIsJunk
  BY IInvNode DEF CopyIsJunk, Placed, Loadable
<1>5. QED
  BY <1>1, <1>3, <1>4

LEMMA LoadsKeeps ==
  ASSUME IInv, LoadsTheFile, [Next]_vars
  PROVE  LoadsTheFile'
<1> SUFFICES ASSUME user' = "load", Loadable', bytes' > 0
             PROVE  held' \in FilesAt(node'.dev, node'.name)
  BY DEF LoadsTheFile
<1>1. CASE Lookup /\ UNCHANGED callers
  <2>1. UNCHANGED <<user, node, bytes, held>>
    BY <1>1 DEF callers
  <2>2. user = "load" /\ Loadable
    BY <1>1, <2>1, LookupLoadable
  <2>3. QED
    BY <2>1, <2>2 DEF LoadsTheFile
<1>2. CASE LoadMore
  <2>1. UNCHANGED <<user, node, bytes, held, owner, bs, ahead>>
    BY <1>2 DEF LoadMore, callers, ReadAgain, Begin, disk
  <2>2. Loadable
    BY <2>1 DEF Loadable, Fits
  <2>3. QED
    BY <2>1, <2>2 DEF LoadsTheFile
<1>3. CASE LoadedMore
  <2>1. UNCHANGED <<node, owner, bs, ahead>>
    <3>1. UNCHANGED <<owner, bs, ahead>>
      BY <1>3 DEF LoadedMore, Return
    <3>2. QED
      BY <1>3, <3>1, LoadedMoreNode DEF Loadable
  <2>2. Loadable
    BY <2>1 DEF Loadable, Fits
  <2>3. QED
    BY <1>3, <2>1, <2>2, LoadedMoreAnswer
<1>4. CASE UNCHANGED vars
  <2>1. UNCHANGED <<user, node, bytes, held, owner, bs, ahead>>
    BY <1>4 DEF vars, fatvars, disk, callers
  <2>2. Loadable
    BY <2>1 DEF Loadable, Fits
  <2>3. QED
    BY <2>1, <2>2 DEF LoadsTheFile
<1>5. CASE StartLoad
  BY <1>5 DEF StartLoad
<1>6. CASE WriteTooFar
  <2>1. UNCHANGED <<user, node, bytes, held, owner, bs, ahead>>
    BY <1>6 DEF WriteTooFar, disk, callers
  <2>2. Loadable
    BY <2>1 DEF Loadable, Fits
  <2>3. QED
    BY <2>1, <2>2 DEF LoadsTheFile
<1>7. \/ Lookup /\ UNCHANGED callers
      \/ LoadMore \/ LoadedMore \/ StartLoad \/ WriteTooFar \/ UNCHANGED vars
  BY DEF Next, Work, Opened, EndLoad, FreadMore, FreadReturned, BadFread, EndFread, Rest, Open,
     StartFread, callers
<1>8. QED
  BY <1>1, <1>2, <1>3, <1>4, <1>5, <1>6, <1>7

-----------------------------------------------------------------------------
(* The end of a lookup *)

LEMMA RoundFacts ==
  ASSUME NEW n \in Nat
  PROVE  n * Round \in Nat /\ (n > 0 => (n - 1) * Round = n * Round - Round) /\ Round \in Nat
<1>1. Round \in Nat
  BY Sizes0 DEF Round
<1>2. \A a, b \in Nat : a * b \in Nat /\ (a - 1) * b = a * b - b
  OBVIOUS
<1>3. QED
  BY <1>1, <1>2

LEMMA RemainingFalls ==
  ASSUME FatTypeOK, Placed, Lookup
  PROVE  mode' = "lost" \/ (Remaining \in Nat /\ Remaining' \in Nat /\ Remaining' < Remaining)
<1>1. /\ Begun /\ segment \in Nat /\ Len(path) \in Nat /\ 1 <= segment /\ segment <= Len(path)
      /\ i \in Nat /\ 1 <= i /\ entryCount \in Nat /\ entryCount <= MaxCount /\ MaxCount \in Nat
      /\ entryCount' = entryCount /\ path' = path
  BY LookupKeeps, Sizes0 DEF Placed, Begun, FatTypeOK
<1>2. PICK left \in Nat : left = Len(path) - segment
  BY <1>1
<1>3. PICK t \in Nat : t = left * Round
  BY <1>2, RoundFacts
<1>4. Round = MaxCount + 3
  BY DEF Round
<1>5. step = "scan" => Remaining = t + Round - Scanned
  BY <1>2, <1>3 DEF Remaining
<1>6. step = "next" => Remaining = t + 1
  BY <1>2, <1>3 DEF Remaining
<1>7. CASE ScanStep
  <2>1. /\ step = "scan" /\ segment' = segment /\ step' \in {"scan", "next"}
        /\ i' \in Nat /\ i <= i' /\ (step' = "scan" => i < i' /\ i <= entryCount)
    BY <1>1, <1>7, ScanKeeps, ScanMoves
  <2>2. Scanned \in Nat /\ Scanned <= MaxCount + 1
    BY <1>1 DEF Scanned
  <2>3. Remaining \in Nat /\ Remaining >= t + 2
    BY <1>1, <1>3, <1>4, <1>5, <2>1, <2>2
  <2>4. CASE step' = "next"
    <3>1. Remaining' = t + 1
      BY <1>1, <1>2, <1>3, <2>1, <2>4 DEF Remaining
    <3>2. QED
      BY <2>3, <3>1
  <2>5. CASE step' = "scan"
    <3>1. Remaining' = t + Round - Scanned'
      BY <1>1, <1>2, <1>3, <2>1, <2>5 DEF Remaining
    <3>2. Scanned' \in Nat /\ Scanned' <= MaxCount + 1 /\ Scanned < Scanned'
      BY <1>1, <2>1, <2>5 DEF Scanned
    <3>3. \A a, b \in Nat : a < b /\ b <= MaxCount + 1 =>
             t + Round - b \in Nat /\ t + Round - b < t + Round - a
      BY <1>1, <1>3, <1>4
    <3>4. Remaining' \in Nat /\ Remaining' < Remaining
      BY <1>5, <2>1, <2>2, <3>1, <3>2, <3>3
    <3>5. QED
      BY <2>3, <3>4
  <2>6. QED
    BY <2>1, <2>4, <2>5
<1>8. CASE Overrun
  BY <1>8 DEF Overrun
<1>9. CASE Descend
  <2>1. /\ step = "next" /\ step' = "scan" /\ segment' = segment + 1 /\ i' = 1 /\ left > 0
    BY <1>1, <1>2, <1>9 DEF Descend, Deciding
  <2>2. Len(path') - segment' = left - 1
    BY <1>1, <1>2, <2>1
  <2>3. PICK q \in Nat : q = (left - 1) * Round /\ q + Round = t
    <3>1. left - 1 \in Nat
      BY <2>1
    <3>2. (left - 1) * Round \in Nat /\ (left - 1) * Round = t - Round /\ Round \in Nat
      BY <1>2, <1>3, <2>1, <3>1, RoundFacts
    <3>3. QED
      BY <1>3, <3>2
  <2>4. Scanned' \in Nat /\ 1 <= Scanned' /\ Scanned' <= MaxCount + 1
    BY <1>1, <2>1 DEF Scanned
  <2>5. Remaining' = q + Round - Scanned'
    BY <2>1, <2>2, <2>3 DEF Remaining
  <2>6. \A b \in Nat : 1 <= b /\ b <= MaxCount + 1 =>
           q + Round - b \in Nat /\ q + Round - b < t + 1 /\ t + 1 \in Nat
    BY <1>1, <1>3, <1>4, <2>3
  <2>7. QED
    BY <1>6, <2>1, <2>4, <2>5, <2>6
<1>10. CASE Fail \/ Finish
  <2>1. step = "next" /\ step' = "done"
    BY <1>10 DEF Fail, Finish, Deciding
  <2>2. Remaining' = 0
    BY <2>1 DEF Remaining
  <2>3. QED
    BY <1>3, <1>6, <2>1, <2>2
<1>11. QED
  BY <1>7, <1>8, <1>9, <1>10, LookupCases

LEMMA FreadFalls ==
  ASSUME IInv
  PROVE  /\ FreadReturned => bytes' < bytes
         /\ BadFread => bytes' > bytes \/ bytes' = 0
<1>0. bytes \in 0 .. Word - 1 /\ Word \in Nat
  BY IInvNode, SizeFacts, Zenon DEF CallersOK
<1>1. bytes \in Nat /\ bytes < Word /\ Word \in Nat
  BY <1>0
<1>2. CASE FreadReturned
  <2>1. user = "fread" /\ step # "idle" /\ bytes' = Less(bytes, Answered(answer.found))
    BY <1>2 DEF FreadReturned, Return
  <2>2. bytes > 0
    BY <2>1 DEF IInv, Asking
  <2>3. Less(bytes, 0) = 0 /\ Less(bytes, 1) = bytes - 1
    <3>1. bytes - 1 \in 0 .. Word - 1
      BY <1>1, <2>2
    <3>2. \A k \in 0 .. Word - 1 : k % Word = k
      BY <1>1
    <3>3. QED
      BY <3>1, <3>2 DEF Less, Wrap
  <2>4. Answered(answer.found) \in {0, 1}
    BY DEF Answered
  <2>5. ~BadFread
    BY <2>1 DEF BadFread
  <2>6. QED
    BY <1>1, <2>1, <2>2, <2>3, <2>4, <2>5
<1>3. CASE BadFread
  <2>1. user = "bad fread" /\ bytes' = Less(bytes, -1)
    BY <1>3 DEF BadFread
  <2>2. Less(bytes, -1) = (bytes + 1) % Word
    <3>1. bytes - (-1) = bytes + 1 /\ -1 # 0
      BY <1>1
    <3>2. QED
      BY <3>1 DEF Less, Wrap
  <2>3. Word % Word = 0 /\ \A k \in 0 .. Word - 1 : k % Word = k
    BY <1>1
  <2>4. bytes' > bytes \/ bytes' = 0
    <3>1. CASE bytes + 1 = Word
      BY <2>1, <2>2, <2>3, <3>1
    <3>2. CASE bytes + 1 # Word
      <4>1. bytes + 1 \in 0 .. Word - 1
        BY <1>1, <3>2
      <4>2. (bytes + 1) % Word = bytes + 1
        BY <2>3, <4>1
      <4>3. bytes' = bytes + 1
        BY <2>1, <2>2, <4>2, Zenon
      <4>4. QED
        BY <1>1, <4>3
    <3>3. QED
      BY <3>1, <3>2
  <2>5. ~FreadReturned
    BY <2>1 DEF FreadReturned
  <2>6. QED
    BY <2>4, <2>5
<1>4. QED
  BY <1>2, <1>3

-----------------------------------------------------------------------------
(* Theorems *)

\* Every variable of the file system and its callers has its type, whatever
\* the heap, the mounts and the slots hold: no count of the shell's loop or of
\* fread (shellFile.c, stdio.c) leaves the word.
THEOREM LoaderTypeCorrect == Spec => []TypeOK
<1>1. IInv => TypeOK
  BY DEF IInv
<1>2. QED
  BY Initially, Invariance, <1>1, PTL DEF Spec

\* FAT_FindEntry and FAT_ReadFile (fat32.c) answer for a name in the root
\* directory what its slot says, and do not find a name that is not there,
\* however often the directory was counted and however many disks were
\* mounted before, if the heap spares the buffer and FatData fits the disk.
THEOREM RootLookupsRight == Spec => []RootLookups
<1>1. IInv => RootLookups
  BY DEF IInv, Lookups
<1>2. QED
  BY Initially, Invariance, <1>1, PTL DEF Spec

\* The same for a file in a subdirectory, which FAT_GetDir reads over the root
\* directory, within as many slots as were counted in the root.
THEOREM DeepLookupsRight == Spec => []DeepLookups
<1>1. IInv => DeepLookups
  <2>1. Undisturbed => Spared
    BY DEF Undisturbed, Spared
  <2>2. DeepEnd => DeepLookups
    BY <2>1 DEF DeepEnd, DeepLookups, RootDir
  <2>3. QED
    BY <2>2 DEF IInv, Lookups
<1>2. QED
  BY Initially, Invariance, <1>1, PTL DEF Spec

\* The loop of the shell that loads a program (shellFile.c) has the file's first
\* cluster at the beginning of its buffer as soon as it has counted a read: its
\* reads find the file each time, for every disk, directory and path of one or
\* two parts. Of the further clusters nothing is said: what FAT_NextCluster
\* looks at is not the FAT (fat32.c).
THEOREM LoadedIsTheFile == Spec => []LoadsTheFile
<1>1. Init => LoadsTheFile
  BY DEF Init, LoadsTheFile
<1>2. QED
  BY Initially, Invariance, LoadsKeeps, <1>1, PTL DEF Spec

\* Each of these reads also adds to the bytes counted, puts back the name for
\* the next one, and stays in the buffer: the loop needs no more of them than
\* the size of the file.
THEOREM LoadAdvances == Spec => LoadGoesOn
<1>1. IInv /\ [Next]_vars =>
        [/\ LoadedMore /\ Loadable => bytes' > bytes /\ node' = node
         /\ user = "load" /\ Loadable => ~WriteTooFar]_vars
  BY LoadedMoreAnswer, LoadedMoreNode, NotTooFar DEF Loadable
<1>2. QED
  BY Initially, Invariance, <1>1, PTL DEF Spec, LoadGoesOn

\* fread (stdio.c) ends, whatever VFS_Read answers: each call of it takes
\* from the count, or, for a bad descriptor, adds to it until it has wrapped.
THEOREM FreadAdvances == Spec => FreadGoesOn
<1>1. IInv /\ [Next]_vars =>
        [/\ FreadReturned => bytes' < bytes
         /\ BadFread => bytes' > bytes \/ bytes' = 0]_vars
  BY FreadFalls
<1>2. QED
  BY Initially, Invariance, <1>1, PTL DEF Spec, FreadGoesOn

\* No lookup (fat32.c) goes on for ever, whatever it meets in a freed buffer or
\* behind it: with each step fewer are left, or memory is overwritten.
THEOREM LookupsComeToAnEnd == Spec => LookupEnds
<1>1. IInv /\ [Next]_vars =>
        [Lookup => mode' = "lost" \/ (Remaining \in Nat /\ Remaining' \in Nat /\ Remaining' < Remaining)]_vars
  BY IInvNode, RemainingFalls
<1>2. QED
  BY Initially, Invariance, <1>1, PTL DEF Spec, LookupEnds
=============================================================================
