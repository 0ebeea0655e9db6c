----------------------------- MODULE HeapProofs -----------------------------
(***************************************************************************)
(* For every size of the heap, every set of request sizes and every order  *)
(* of calls: the header chain stays whole, regions in use are never handed *)
(* out again, and the heap implements RegionAllocator.                     *)
(***************************************************************************)
EXTENDS Heap, TLAPS

-----------------------------------------------------------------------------
(* The inductive invariant. ChainUnbroken speaks of neighbours only; that  *)
(* two blocks far apart in the list do not overlap needs an induction along *)
(* the list, which InOrder and BelowLast carry from step to step instead.  *)

\* Blocks do not overlap, whichever two are compared.
InOrder == \A i, j \in 1 .. Len(blocks) : i < j => EndOf(blocks[i]) <= blocks[j].at

BelowLast == \A i \in 1 .. Len(blocks) : EndOf(blocks[i]) <= last_alloc

\* The first block is the one of pheap_desc; pfree(pheap_end) writes the
\* byte behind it.
DescBlock == blocks[1].size = MAXPAGEALIGNEDALLOC

IInv == /\ Intact
        /\ TypeOK
        /\ ChainUnbroken
        /\ HeapBelowPages
        /\ HeldIsTaken
        /\ InOrder
        /\ BelowLast
        /\ DescBlock

\* Of a heap that was overwritten nothing is claimed but its types.
HInv == TypeOK /\ (Intact => IInv)

-----------------------------------------------------------------------------

\* What a uint32_t counter holds.
LEMMA WordRange == \A a \in Int : a % Word \in 0 .. Word - 1
BY HeapAssumption

\* The addresses computed from a header.
LEMMA BlockAddresses ==
  ASSUME NEW b \in Block
  PROVE  /\ b.at \in Nat /\ b.size \in Nat /\ b.status \in {0, 1}
         /\ PayloadOf(b) = b.at + 8 /\ PayloadOf(b) \in Nat
         /\ EndOf(b) = b.at + b.size + 12 /\ EndOf(b) \in Nat
         /\ PayloadOf(b) < EndOf(b)
<1>1. b.at \in Nat /\ b.size \in Nat /\ b.status \in {0, 1}
  BY DEF Block
<1>2. PayloadOf(b) = b.at + 8 /\ EndOf(b) = b.at + b.size + 8 + 4
  BY DEF PayloadOf, EndOf, SizeofAllocT, Footer
<1>3. QED
  BY <1>1, <1>2

\* Writing the status of a block leaves a list of blocks that differs from
\* the old one in that status only.
LEMMA StatusWrite ==
  ASSUME NEW i \in 1 .. Len(blocks), NEW v \in {0, 1}, blocks \in Seq(Block),
         blocks' = [blocks EXCEPT ![i].status = v]
  PROVE  /\ blocks' \in Seq(Block)
         /\ Len(blocks') = Len(blocks)
         /\ \A j \in 1 .. Len(blocks) :
              /\ blocks'[j].at = blocks[j].at
              /\ blocks'[j].size = blocks[j].size
              /\ blocks'[j].status = IF j = i THEN v ELSE blocks[j].status
<1> DEFINE b == [blocks[i] EXCEPT !.status = v]
<1>1. \A j \in 1 .. Len(blocks) : blocks[j] \in Block
  OBVIOUS
<1>2. b \in Block /\ b.at = blocks[i].at /\ b.size = blocks[i].size /\ b.status = v
  BY <1>1 DEF Block
<1>3. blocks' = [blocks EXCEPT ![i] = b]
  OBVIOUS
<1> HIDE DEF b
<1>4. blocks' \in Seq(Block) /\ Len(blocks') = Len(blocks)
  BY <1>2, <1>3
<1>5. \A j \in 1 .. Len(blocks) : blocks'[j] = IF j = i THEN b ELSE blocks[j]
  BY <1>3
<1>6. QED
  BY <1>2, <1>4, <1>5

\* No two headers have the same address.
LEMMA HeadersDistinct ==
  ASSUME IInv, NEW i \in 1 .. Len(blocks), NEW j \in 1 .. Len(blocks),
         PayloadOf(blocks[i]) = PayloadOf(blocks[j])
  PROVE  i = j
<1>1. blocks[i] \in Block /\ blocks[j] \in Block
  BY DEF IInv, TypeOK
<1>2. CASE i < j
  BY <1>1, <1>2 DEF IInv, InOrder, EndOf, PayloadOf, Block, SizeofAllocT, Footer
<1>3. CASE j < i
  BY <1>1, <1>3 DEF IInv, InOrder, EndOf, PayloadOf, Block, SizeofAllocT, Footer
<1>4. QED
  BY <1>2, <1>3

\* mmInit leaves the heap with the one block of pheap_desc.
LEMMA InitIInv == Init => IInv
<1> SUFFICES ASSUME Init PROVE IInv
  OBVIOUS
<1> USE HeapAssumption
<1> DEFINE b == [at |-> HeapBegin, status |-> 1, size |-> MAXPAGEALIGNEDALLOC]
<1>1. blocks = <<b>> /\ Len(blocks) = 1 /\ blocks[1] = b /\ b \in Block
  BY DEF Init, Block
<1>2. TypeOK
  <2>1. blocks \in Seq(Block)
    BY <1>1
  <2>2. memory_used \in 0 .. Word - 1
    BY DEF Init, Footer, SizeofAllocT
  <2>3. last_alloc \in Nat /\ held \subseteq [ptr : Nat, len : Nat]
    BY DEF Init, Footer, SizeofAllocT, DescRegion
  <2>4. QED
    BY <2>1, <2>2, <2>3 DEF Init, TypeOK
<1>3. ChainUnbroken /\ InOrder /\ BelowLast /\ DescBlock
  BY <1>1 DEF Init, ChainUnbroken, InOrder, BelowLast, DescBlock, EndOf
<1>4. HeapBelowPages
  BY <1>1 DEF Init, HeapBelowPages, PayloadOf, SizeofAllocT, Footer
<1>5. HeldIsTaken
  BY <1>1 DEF Init, HeldIsTaken, DescRegion, PayloadOf
<1>6. QED
  BY <1>2, <1>3, <1>4, <1>5 DEF IInv, Init, Intact

\* A block that fits keeps its place and size and becomes taken.
LEMMA ReuseIInv ==
  ASSUME IInv, NEW size \in Nat \ {0}, NEW dropped \in SUBSET held,
         Reuse(size, dropped), UNCHANGED <<pheap_desc, pages>>
  PROVE  IInv'
<1> USE HeapAssumption
<1>1. PICK i \in 1 .. Len(blocks) :
         /\ FirstStop(i, size)
         /\ blocks[i].size # 0
         /\ blocks' = [blocks EXCEPT ![i].status = 1]
         /\ memory_used' = (memory_used + size + SizeofAllocT) % Word
         /\ held' = (held \ dropped) \cup {[ptr |-> PayloadOf(blocks[i]), len |-> size]}
         /\ UNCHANGED <<last_alloc, mode>>
  BY DEF Reuse
<1> DEFINE new == [ptr |-> PayloadOf(blocks[i]), len |-> size]
<1>2. blocks \in Seq(Block) /\ blocks[i] \in Block
  BY DEF IInv, TypeOK
<1>3. /\ Len(blocks') = Len(blocks)
      /\ \A j \in 1 .. Len(blocks) :
            /\ blocks'[j].at = blocks[j].at
            /\ blocks'[j].size = blocks[j].size
            /\ blocks'[j].status = IF j = i THEN 1 ELSE blocks[j].status
  BY <1>1, <1>2, StatusWrite
<1>4. blocks[i].status = 0 /\ size <= blocks[i].size
  BY <1>1, <1>2 DEF FirstStop, Stops, Block
<1>5. TypeOK'
  <2>1. blocks' \in Seq(Block)
    BY <1>1, <1>2, StatusWrite
  <2>2. memory_used' \in 0 .. Word - 1
    <3>1. memory_used + size + SizeofAllocT \in Int
      BY HeapAssumption DEF IInv, TypeOK, SizeofAllocT
    <3>2. QED
      BY <1>1, <3>1, WordRange
  <2>3. held' \subseteq [ptr : Nat, len : Nat]
    <3>1. PayloadOf(blocks[i]) \in Nat
      BY <1>2, BlockAddresses
    <3>2. new \in [ptr : Nat, len : Nat]
      BY <3>1
    <3>3. QED
      BY <1>1, <3>2 DEF IInv, TypeOK
  <2>4. QED
    BY <1>1, <2>1, <2>2, <2>3 DEF IInv, TypeOK
<1>6. ChainUnbroken'
  <2>1. Len(blocks) >= 1 /\ blocks[1].at = HeapBegin /\ 1 \in 1 .. Len(blocks)
    BY <1>2 DEF IInv, ChainUnbroken
  <2>2. ASSUME NEW j \in 1 .. Len(blocks)
        PROVE  /\ blocks'[j].size # 0
               /\ EndOf(blocks'[j]) = IF j = Len(blocks) THEN last_alloc ELSE blocks'[j + 1].at
    <3>1. /\ blocks[j].size # 0
          /\ EndOf(blocks[j]) = IF j = Len(blocks) THEN last_alloc ELSE blocks[j + 1].at
      BY DEF IInv, ChainUnbroken
    <3>2. EndOf(blocks'[j]) = EndOf(blocks[j]) /\ blocks'[j].size = blocks[j].size
      BY <1>3 DEF EndOf
    <3>3. j # Len(blocks) => j + 1 \in 1 .. Len(blocks)
      BY <1>2
    <3>4. QED
      BY <1>3, <3>1, <3>2, <3>3
  <2>3. last_alloc' = last_alloc
    BY <1>1
  <2>4. QED
    BY <1>3, <2>1, <2>2, <2>3 DEF ChainUnbroken
<1>7. HeapBelowPages'
  BY <1>1, <1>3 DEF IInv, HeapBelowPages, PayloadOf
<1>8. InOrder' /\ BelowLast'
  BY <1>1, <1>3 DEF IInv, InOrder, BelowLast, EndOf
<1>9. DescBlock'
  BY <1>3, <1>2 DEF IInv, DescBlock
<1>10. \A s \in held : s.ptr # new.ptr
  <2> SUFFICES ASSUME NEW s \in held, s.ptr = PayloadOf(blocks[i]) PROVE FALSE
    OBVIOUS
  <2>1. PICK j \in 1 .. Len(blocks) :
           s.ptr = PayloadOf(blocks[j]) /\ blocks[j].status = 1
    BY DEF IInv, HeldIsTaken
  <2>2. j = i
    BY <2>1, HeadersDistinct
  <2>3. QED
    BY <2>1, <2>2, <1>4
<1>11. HeldIsTaken'
  <2> SUFFICES ASSUME NEW r \in held'
               PROVE  \E k \in 1 .. Len(blocks') :
                        /\ r.ptr = PayloadOf(blocks'[k])
                        /\ r.len <= blocks'[k].size
                        /\ blocks'[k].status = 1
                        /\ \A s \in held' \ {r} : s.ptr # r.ptr
    BY DEF HeldIsTaken, PayloadOf
  <2>1. CASE r = new
    BY <2>1, <1>1, <1>3, <1>4, <1>10 DEF PayloadOf
  <2>2. CASE r # new
    <3>1. r \in held
      BY <2>2, <1>1
    <3>2. PICK j \in 1 .. Len(blocks) :
             /\ r.ptr = PayloadOf(blocks[j])
             /\ r.len <= blocks[j].size
             /\ blocks[j].status = 1
             /\ \A s \in held \ {r} : s.ptr # r.ptr
      BY <3>1 DEF IInv, HeldIsTaken
    <3>3. \A s \in held' \ {r} : s.ptr # r.ptr
      BY <3>1, <3>2, <1>1, <1>10
    <3>4. QED
      BY <3>2, <3>3, <1>3 DEF PayloadOf
  <2>3. QED
    BY <2>1, <2>2
<1>12. Intact'
  BY <1>1 DEF IInv, Intact
<1>13. QED
  BY <1>5, <1>6, <1>7, <1>8, <1>9, <1>11, <1>12 DEF IInv

\* The sum that is tested, where it does not wrap.
LEMMA NotExhausted ==
  ASSUME last_alloc \in Nat, NEW size \in Nat, ~Exhausted(size), ~Wraps(size)
  PROVE  last_alloc + size + SizeofAllocT < HeapEnd
<1> DEFINE sum == last_alloc + size + SizeofAllocT
<1>1. sum \in Nat /\ sum < Word /\ Word \in Nat /\ HeapEnd \in Nat
  BY HeapAssumption DEF Wraps, SizeofAllocT
<1>2. ~(sum % Word >= HeapEnd)
  BY DEF Exhausted
<1> HIDE DEF sum
<1>3. sum % Word = sum
  BY <1>1
<1>4. sum < HeapEnd
  BY <1>1, <1>2, <1>3
<1>5. QED
  BY <1>4 DEF sum

\* A new block is cut behind all the others and below heap_end.
LEMMA NewBlockIInv ==
  ASSUME IInv, NEW size \in Nat \ {0}, NEW dropped \in SUBSET held,
         NewBlock(size, dropped), UNCHANGED <<pheap_desc, pages>>
  PROVE  IInv'
<1> USE HeapAssumption
<1> DEFINE n == Len(blocks)
           b == [at |-> last_alloc, status |-> 1, size |-> size]
           new == [ptr |-> last_alloc + SizeofAllocT, len |-> size]
<1>1. blocks \in Seq(Block) /\ last_alloc \in Nat /\ n \in Nat
  BY DEF IInv, TypeOK
<1>2. b \in Block /\ new \in [ptr : Nat, len : Nat] /\ PayloadOf(b) = new.ptr
  BY <1>1 DEF Block, SizeofAllocT, PayloadOf
<1>3. /\ blocks' = Append(blocks, b)
      /\ last_alloc' = last_alloc + size + SizeofAllocT + Footer
      /\ memory_used' = (memory_used + size + Footer + SizeofAllocT) % Word
      /\ held' = (held \ dropped) \cup {new}
      /\ mode' = mode
      /\ last_alloc + size + SizeofAllocT < HeapEnd
  <2>1. ~Exhausted(size) /\ ~Wraps(size)
    BY DEF NewBlock
  <2>2. last_alloc + size + SizeofAllocT < HeapEnd
    BY <1>1, <2>1, NotExhausted
  <2>3. QED
    BY <2>2 DEF NewBlock
<1>4. /\ blocks' \in Seq(Block)
      /\ Len(blocks') = n + 1
      /\ blocks'[n + 1] = b
      /\ \A j \in 1 .. n : blocks'[j] = blocks[j]
  BY <1>1, <1>2, <1>3
<1>5. /\ b.at = last_alloc
      /\ EndOf(b) = last_alloc'
      /\ PayloadOf(b) + b.size < HeapEnd
      /\ b.size = size
      /\ b.status = 1
  BY <1>1, <1>3 DEF EndOf, PayloadOf, SizeofAllocT, Footer
<1> HIDE DEF b, new
<1>6. \A j \in 1 .. n : blocks[j] \in Block /\ EndOf(blocks[j]) <= last_alloc
  BY <1>1 DEF IInv, BelowLast
<1>7. last_alloc' \in Nat /\ last_alloc <= last_alloc' /\ last_alloc' < HeapEnd + Footer
  <2>1. last_alloc' = last_alloc + size + 8 + 4 /\ last_alloc + size + 8 < HeapEnd
    BY <1>3 DEF SizeofAllocT, Footer
  <2>2. HeapEnd \in Nat
    BY HeapAssumption
  <2>3. QED
    BY <1>1, <2>1, <2>2 DEF Footer
<1>8. TypeOK'
  <2>1. memory_used' \in 0 .. Word - 1
    <3>1. memory_used + size + Footer + SizeofAllocT \in Int
      BY DEF IInv, TypeOK, SizeofAllocT, Footer
    <3>2. QED
      BY <1>3, <3>1, WordRange
  <2>2. held' \subseteq [ptr : Nat, len : Nat]
    BY <1>2, <1>3 DEF IInv, TypeOK
  <2>3. QED
    BY <1>3, <1>4, <1>7, <2>1, <2>2 DEF IInv, TypeOK
<1>9. ChainUnbroken'
  <2>1. n >= 1 /\ blocks[1].at = HeapBegin
    BY DEF IInv, ChainUnbroken
  <2>2. ASSUME NEW i \in 1 .. n + 1
        PROVE  /\ blocks'[i].size # 0
               /\ EndOf(blocks'[i]) = IF i = n + 1 THEN last_alloc' ELSE blocks'[i + 1].at
    <3>1. CASE i = n + 1
      BY <3>1, <1>4, <1>5
    <3>2. CASE i = n
      <4>1. n \in 1 .. n /\ n # n + 1
        BY <2>1, <1>1
      <4>2. blocks[n].size # 0 /\ EndOf(blocks[n]) = last_alloc
        BY <4>1 DEF IInv, ChainUnbroken
      <4>3. QED
        BY <3>2, <4>1, <4>2, <1>4, <1>5
    <3>3. CASE i < n
      <4>1. i \in 1 .. n /\ i + 1 \in 1 .. n /\ i # n /\ i # n + 1
        BY <3>3, <1>1
      <4>2. blocks[i].size # 0 /\ EndOf(blocks[i]) = blocks[i + 1].at
        BY <4>1 DEF IInv, ChainUnbroken
      <4>3. QED
        BY <4>1, <4>2, <1>4
    <3>4. QED
      BY <3>1, <3>2, <3>3, <1>1
  <2>3. QED
    <3>1. n + 1 >= 1 /\ blocks'[1].at = HeapBegin
      BY <2>1, <1>1, <1>4
    <3>2. QED
      BY <2>2, <3>1, <1>4 DEF ChainUnbroken, EndOf
<1>10. HeapBelowPages'
  <2>1. \A j \in 1 .. n : PayloadOf(blocks[j]) + blocks[j].size < HeapEnd
    BY DEF IInv, HeapBelowPages
  <2>2. \A j \in 1 .. n + 1 : PayloadOf(blocks'[j]) + blocks'[j].size < HeapEnd
    <3>1. ASSUME NEW j \in 1 .. n + 1
          PROVE  PayloadOf(blocks'[j]) + blocks'[j].size < HeapEnd
      <4>1. CASE j = n + 1
        BY <4>1, <1>4, <1>5
      <4>2. CASE j # n + 1
        <5>1. j \in 1 .. n
          BY <1>1, <4>2
        <5>2. blocks'[j] = blocks[j]
          BY <1>4, <5>1
        <5>3. QED
          BY <2>1, <5>1, <5>2
      <4>3. QED
        BY <4>1, <4>2
    <3>2. QED
      BY <3>1
  <2>3. QED
    BY <2>2, <1>4, <1>7 DEF HeapBelowPages, PayloadOf
<1>11. InOrder'
  <2>1. ASSUME NEW i \in 1 .. n + 1, NEW j \in 1 .. n + 1, i < j
        PROVE  EndOf(blocks'[i]) <= blocks'[j].at
    <3>1. CASE j = n + 1
      <4>1. i \in 1 .. n
        BY <1>1, <2>1, <3>1
      <4>2. blocks'[i] = blocks[i] /\ blocks'[j].at = last_alloc
        BY <1>4, <1>5, <3>1, <4>1
      <4>3. QED
        BY <1>6, <4>1, <4>2
    <3>2. CASE j # n + 1
      <4>1. i \in 1 .. n /\ j \in 1 .. n
        BY <2>1, <3>2, <1>1
      <4>2. EndOf(blocks[i]) <= blocks[j].at
        BY <4>1, <2>1 DEF IInv, InOrder
      <4>3. QED
        BY <4>1, <4>2, <1>4
    <3>3. QED
      BY <3>1, <3>2
  <2>2. QED
    BY <2>1, <1>4 DEF InOrder, EndOf
<1>12. BelowLast'
  <2>1. \A j \in 1 .. n + 1 : EndOf(blocks'[j]) <= last_alloc'
    <3>1. ASSUME NEW j \in 1 .. n + 1 PROVE EndOf(blocks'[j]) <= last_alloc'
      <4>1. CASE j = n + 1
        BY <4>1, <1>4, <1>5, <1>7
      <4>2. CASE j # n + 1
        <5>1. j \in 1 .. n /\ blocks'[j] = blocks[j]
          BY <4>2, <1>1, <1>4
        <5>2. EndOf(blocks[j]) \in Nat /\ EndOf(blocks[j]) <= last_alloc
          BY <5>1, <1>6, BlockAddresses
        <5>3. QED
          BY <5>1, <5>2, <1>1, <1>7
      <4>3. QED
        BY <4>1, <4>2
    <3>2. QED
      BY <3>1
  <2>2. QED
    BY <2>1, <1>4 DEF BelowLast, EndOf
<1>13. DescBlock'
  BY <1>1, <1>4 DEF IInv, DescBlock, ChainUnbroken
<1>14. \A s \in held : s.ptr # new.ptr
  <2> SUFFICES ASSUME NEW s \in held, s.ptr = new.ptr PROVE FALSE
    OBVIOUS
  <2>1. PICK j \in 1 .. n : s.ptr = PayloadOf(blocks[j])
    BY DEF IInv, HeldIsTaken
  <2>2. /\ PayloadOf(blocks[j]) \in Nat /\ EndOf(blocks[j]) \in Nat
        /\ PayloadOf(blocks[j]) < EndOf(blocks[j])
        /\ EndOf(blocks[j]) <= last_alloc
    BY <1>6, BlockAddresses
  <2>3. last_alloc + 8 = s.ptr
    BY DEF new, SizeofAllocT
  <2>4. QED
    BY <1>1, <2>1, <2>2, <2>3
<1>15. HeldIsTaken'
  <2> SUFFICES ASSUME NEW r \in held'
               PROVE  \E k \in 1 .. Len(blocks') :
                        /\ r.ptr = PayloadOf(blocks'[k])
                        /\ r.len <= blocks'[k].size
                        /\ blocks'[k].status = 1
                        /\ \A s \in held' \ {r} : s.ptr # r.ptr
    BY DEF HeldIsTaken, PayloadOf
  <2>1. CASE r = new
    <3>1. new.len = size /\ n + 1 \in 1 .. Len(blocks')
      BY <1>1, <1>4 DEF new
    <3>2. \A s \in held' \ {r} : s.ptr # r.ptr
      BY <2>1, <1>3, <1>14
    <3>3. QED
      BY <2>1, <3>1, <3>2, <1>2, <1>4, <1>5
  <2>2. CASE r # new
    <3>1. r \in held
      BY <2>2, <1>3
    <3>2. PICK j \in 1 .. n :
             /\ r.ptr = PayloadOf(blocks[j])
             /\ r.len <= blocks[j].size
             /\ blocks[j].status = 1
             /\ \A s \in held \ {r} : s.ptr # r.ptr
      BY <3>1 DEF IInv, HeldIsTaken
    <3>3. \A s \in held' \ {r} : s.ptr # r.ptr
      BY <3>1, <3>2, <1>3, <1>14
    <3>4. j \in 1 .. Len(blocks') /\ blocks'[j] = blocks[j]
      BY <1>1, <1>4
    <3>5. QED
      BY <3>2, <3>3, <3>4
  <2>3. QED
    BY <2>1, <2>2
<1>16. Intact'
  BY <1>3 DEF IInv, Intact
<1>17. QED
  BY <1>8, <1>9, <1>10, <1>11, <1>12, <1>13, <1>15, <1>16 DEF IInv

\* Panicking changes nothing else.
LEMMA OutOfMemoryIInv ==
  ASSUME IInv, NEW size, OutOfMemory(size), UNCHANGED <<pheap_desc, pages>>
  PROVE  IInv'
BY DEF OutOfMemory, heapvars, IInv, TypeOK, ChainUnbroken, HeapBelowPages, HeldIsTaken,
       InOrder, BelowLast, DescBlock, EndOf, PayloadOf, Intact

\* A block whose sum wraps is the last thing that happens.
LEMMA WrappedBlockTypes ==
  ASSUME TypeOK, NEW size \in Nat, WrappedBlock(size), UNCHANGED <<pheap_desc, pages>>
  PROVE  TypeOK' /\ ~Intact'
<1> DEFINE b == [at |-> last_alloc, status |-> 1, size |-> size]
<1>1. /\ blocks' = Append(blocks, b) /\ mode' = "lost" /\ held' = held
      /\ last_alloc' = (last_alloc + size + SizeofAllocT + Footer) % Word
      /\ memory_used' = (memory_used + size + Footer + SizeofAllocT) % Word
  BY DEF WrappedBlock
<1>2. b \in Block /\ blocks \in Seq(Block)
  BY DEF TypeOK, Block
<1>3. blocks' \in Seq(Block)
  BY <1>1, <1>2
<1>4. /\ last_alloc + size + SizeofAllocT + Footer \in Int
      /\ memory_used + size + Footer + SizeofAllocT \in Int
  <2>1. last_alloc \in Int /\ memory_used \in Int
    BY HeapAssumption DEF TypeOK
  <2>2. QED
    BY <2>1 DEF SizeofAllocT, Footer
<1>5. last_alloc' \in 0 .. Word - 1 /\ memory_used' \in 0 .. Word - 1
  <2>1. /\ (last_alloc + size + SizeofAllocT + Footer) % Word \in 0 .. Word - 1
        /\ (memory_used + size + Footer + SizeofAllocT) % Word \in 0 .. Word - 1
    BY <1>4, WordRange
  <2>2. QED
    BY <1>1, <2>1, Zenon
<1>6. last_alloc' \in Nat
  BY <1>5, HeapAssumption
<1>7. QED
  BY <1>1, <1>3, <1>5, <1>6 DEF TypeOK, Intact

\* malloc, calloc and the allocating side of realloc.
LEMMA AllocateHInv ==
  ASSUME IInv, NEW size \in Nat, NEW dropped \in SUBSET held, Allocate(size, dropped)
  PROVE  HInv'
<1>1. size \in Nat \ {0} /\ UNCHANGED <<pheap_desc, pages>>
  BY DEF Allocate
<1>6. IInv' => HInv'
  BY DEF HInv, IInv
<1>2. CASE Reuse(size, dropped)
  BY <1>1, <1>2, <1>6, ReuseIInv
<1>3. CASE NewBlock(size, dropped)
  BY <1>1, <1>3, <1>6, NewBlockIInv
<1>4. CASE OutOfMemory(size)
  BY <1>1, <1>4, <1>6, OutOfMemoryIInv
<1>5. CASE WrappedBlock(size)
  BY <1>1, <1>5, WrappedBlockTypes DEF IInv, HInv
<1>7. QED
  BY <1>2, <1>3, <1>4, <1>5 DEF Allocate

\* The block of a region that is freed was of nobody else.
LEMMA FreeIInv ==
  ASSUME IInv, NEW r \in held, Free(r)
  PROVE  IInv'
<1>1. PICK i \in 1 .. Len(blocks) :
         /\ PayloadOf(blocks[i]) = r.ptr
         /\ blocks' = [blocks EXCEPT ![i].status = 0]
         /\ memory_used' = (memory_used - (blocks[i].size + SizeofAllocT)) % Word
  BY DEF Free
<1>2. held' = held \ {r} /\ UNCHANGED <<last_alloc, mode, pheap_desc, pages>>
  BY DEF Free
<1>3. blocks \in Seq(Block) /\ blocks[i] \in Block
  BY DEF IInv, TypeOK
<1>4. /\ blocks' \in Seq(Block)
      /\ Len(blocks') = Len(blocks)
      /\ \A j \in 1 .. Len(blocks) :
            /\ blocks'[j].at = blocks[j].at
            /\ blocks'[j].size = blocks[j].size
            /\ blocks'[j].status = IF j = i THEN 0 ELSE blocks[j].status
  BY <1>1, <1>3, StatusWrite
<1>5. TypeOK'
  <2>1. memory_used - (blocks[i].size + SizeofAllocT) \in Int
    <3>1. blocks[i].size \in Nat
      BY <1>3, BlockAddresses
    <3>2. memory_used \in Int
      BY HeapAssumption DEF IInv, TypeOK
    <3>3. QED
      BY <3>1, <3>2 DEF SizeofAllocT
  <2>2. memory_used' \in 0 .. Word - 1
    BY <1>1, <2>1, WordRange
  <2>3. QED
    BY <1>2, <1>4, <2>2 DEF IInv, TypeOK
<1>6. ChainUnbroken' /\ InOrder' /\ BelowLast' /\ DescBlock' /\ HeapBelowPages'
  <2>1. ChainUnbroken'
    <3>1. Len(blocks) \in Nat /\ Len(blocks) >= 1 /\ blocks[1].at = HeapBegin
      BY <1>3 DEF IInv, ChainUnbroken
    <3>2. Len(blocks') >= 1 /\ blocks'[1].at = HeapBegin
      BY <1>4, <3>1
    <3>3. ASSUME NEW k \in 1 .. Len(blocks)
          PROVE  /\ blocks'[k].size # 0
                 /\ EndOf(blocks'[k]) = IF k = Len(blocks) THEN last_alloc
                                                           ELSE blocks'[k + 1].at
      <4>1. /\ blocks[k].size # 0
            /\ EndOf(blocks[k]) = IF k = Len(blocks) THEN last_alloc ELSE blocks[k + 1].at
        BY DEF IInv, ChainUnbroken
      <4>2. blocks'[k].size = blocks[k].size /\ EndOf(blocks'[k]) = EndOf(blocks[k])
        BY <1>4 DEF EndOf
      <4>3. k # Len(blocks) => blocks'[k + 1].at = blocks[k + 1].at
        BY <1>4, <3>1
      <4>4. QED
        BY <4>1, <4>2, <4>3
    <3>4. QED
      BY <1>2, <1>4, <3>2, <3>3 DEF ChainUnbroken, EndOf
  <2>2. InOrder' /\ BelowLast'
    BY <1>2, <1>4 DEF IInv, InOrder, BelowLast, EndOf
  <2>3. DescBlock'
    BY <1>3, <1>4 DEF IInv, DescBlock, ChainUnbroken
  <2>4. HeapBelowPages'
    BY <1>2, <1>4 DEF IInv, HeapBelowPages, PayloadOf
  <2>5. QED
    BY <2>1, <2>2, <2>3, <2>4
<1>7. HeldIsTaken'
  <2> SUFFICES ASSUME NEW t \in held'
               PROVE  \E k \in 1 .. Len(blocks') :
                        /\ t.ptr = PayloadOf(blocks'[k])
                        /\ t.len <= blocks'[k].size
                        /\ blocks'[k].status = 1
                        /\ \A s \in held' \ {t} : s.ptr # t.ptr
    BY DEF HeldIsTaken, PayloadOf
  <2>1. t \in held /\ t # r
    BY <1>2
  <2>2. PICK j \in 1 .. Len(blocks) :
           /\ t.ptr = PayloadOf(blocks[j])
           /\ t.len <= blocks[j].size
           /\ blocks[j].status = 1
           /\ \A s \in held \ {t} : s.ptr # t.ptr
    BY <2>1 DEF IInv, HeldIsTaken
  <2>3. j # i
    BY <1>1, <2>1, <2>2
  <2>4. PayloadOf(blocks'[j]) = PayloadOf(blocks[j])
    BY <1>4 DEF PayloadOf
  <2>5. QED
    BY <1>2, <1>4, <2>2, <2>3, <2>4
<1>8. Intact'
  BY <1>2 DEF IInv, Intact
<1>9. QED
  BY <1>5, <1>6, <1>7, <1>8 DEF IInv

\* The byte pfree(pheap_end) clears is one of the four behind the first
\* payload: no header is there.
LEMMA PfreeEndHitsNoHeader == IInv /\ PfreeEnd => blocks' = blocks
<1> SUFFICES ASSUME IInv, PfreeEnd PROVE blocks' = blocks
  OBVIOUS
<1>1. /\ blocks \in Seq(Block)
      /\ Len(blocks) \in Nat /\ Len(blocks) >= 1
      /\ blocks[1].at = HeapBegin /\ blocks[1].size = MAXPAGEALIGNEDALLOC
  BY DEF IInv, TypeOK, ChainUnbroken, DescBlock
<1>2. DescRegion.ptr + DescRegion.len = HeapBegin + 8 + MAXPAGEALIGNEDALLOC
  BY DEF DescRegion, SizeofAllocT
<1>3. ASSUME NEW i \in 1 .. Len(blocks)
      PROVE  blocks[i].at # DescRegion.ptr + DescRegion.len
  <2>1. HeapBegin \in Nat \ {0} /\ MAXPAGEALIGNEDALLOC \in Nat \ {0}
    BY HeapAssumption
  <2>2. CASE i = 1
    BY <1>1, <1>2, <2>1, <2>2
  <2>3. CASE i # 1
    <3>1. 1 \in 1 .. Len(blocks) /\ 1 < i
      BY <1>1, <2>3
    <3>2. EndOf(blocks[1]) <= blocks[i].at
      BY <3>1 DEF IInv, InOrder
    <3>3. EndOf(blocks[1]) = HeapBegin + MAXPAGEALIGNEDALLOC + 12
      BY <1>1, <3>1, BlockAddresses
    <3>4. blocks[i].at \in Nat
      BY <1>1, BlockAddresses
    <3>5. QED
      BY <1>2, <2>1, <3>2, <3>3, <3>4
  <2>4. QED
    BY <2>2, <2>3
<1>4. blocks' = [i \in 1 .. Len(blocks) |-> blocks[i]]
  BY <1>3 DEF PfreeEnd
<1>5. QED
  BY <1>1, <1>4

\* The page pool does not touch the heap.
LEMMA PageIInv ==
  ASSUME IInv, blocks' = blocks, UNCHANGED <<last_alloc, memory_used, mode, held>>,
         pheap_desc' \in [PageIndex -> {0, 1}], pages' \subseteq PageIndex
  PROVE  IInv'
BY DEF IInv, TypeOK, ChainUnbroken, HeapBelowPages, HeldIsTaken, InOrder, BelowLast,
       DescBlock, EndOf, PayloadOf, Intact

\* A kernel that is lost takes no step of this module.
LEMMA LostIsStill == ~Intact /\ [Next]_vars => UNCHANGED vars
<1>1. ~Intact => ~Running
  BY DEF Running, Intact
<1>2. QED
  BY <1>1 DEF Next, Malloc, Calloc, Realloc, Allocate, Free, Pmalloc, Pfree, PfreeEnd

\* Every step of an intact heap keeps the invariant, or loses the heap.
LEMMA NextIntact ==
  ASSUME IInv, [Next]_vars
  PROVE  HInv'
<1>0. IInv' => HInv'
  BY DEF HInv, IInv
<1>1. ASSUME NEW size \in Sizes, Malloc(size) PROVE HInv'
  BY <1>1, <1>0, AllocateHInv, HeapAssumption DEF Malloc
<1>2. ASSUME NEW a \in CallocArgs, Calloc(a[1], a[2]) PROVE HInv'
  <2>1. (a[1] * a[2]) % Word \in Nat
    <3>1. a[1] \in Nat /\ a[2] \in Nat
      BY HeapAssumption
    <3>2. a[1] * a[2] \in Int
      BY <3>1
    <3>3. (a[1] * a[2]) % Word \in 0 .. Word - 1
      BY <3>2, WordRange
    <3>4. QED
      BY <3>3, HeapAssumption
  <2>2. QED
    BY <1>2, <2>1, <1>0, AllocateHInv DEF Calloc
<1>3. ASSUME NEW r \in held, Free(r) PROVE HInv'
  BY <1>3, <1>0, FreeIInv
<1>4. ASSUME NEW r \in held, NEW size \in Sizes, Realloc(r, size) PROVE HInv'
  <2>1. CASE size = 0
    BY <1>4, <2>1, <1>0, FreeIInv DEF Realloc
  <2>2. CASE size # 0
    BY <1>4, <2>2, <1>0, AllocateHInv, HeapAssumption DEF Realloc
  <2>3. QED
    BY <2>1, <2>2
<1>5. CASE Pmalloc
  BY <1>5, <1>0, PageIInv DEF Pmalloc, heapvars, IInv, TypeOK
<1>6. ASSUME NEW i \in pages, Pfree(i) PROVE HInv'
  BY <1>6, <1>0, PageIInv DEF Pfree, heapvars, IInv, TypeOK
<1>7. CASE PfreeEnd
  <2>1. blocks' = blocks
    BY <1>7, <1>0, PfreeEndHitsNoHeader
  <2>2. QED
    BY <1>7, <2>1, <1>0, PageIInv DEF PfreeEnd, IInv, TypeOK
<1>8. CASE UNCHANGED vars
  BY <1>8, <1>0, PageIInv DEF vars, IInv, TypeOK
<1>9. QED
  BY <1>1, <1>2, <1>3, <1>4, <1>5, <1>6, <1>7, <1>8 DEF Next

\* Every step keeps the invariant.
LEMMA NextHInv == HInv /\ [Next]_vars => HInv'
<1> SUFFICES ASSUME HInv, [Next]_vars PROVE HInv'
  OBVIOUS
<1>1. CASE ~Intact
  BY <1>1, LostIsStill DEF HInv, TypeOK, Intact, vars
<1>2. CASE Intact
  BY <1>2, NextIntact DEF HInv
<1>3. QED
  BY <1>1, <1>2

LEMMA Invariance == Spec => []HInv
<1>1. Init => HInv
  BY InitIInv DEF HInv, IInv
<1>2. QED
  BY <1>1, NextHInv, PTL DEF Spec

-----------------------------------------------------------------------------

\* For every heap size, request size and order of legal calls to malloc,
\* calloc, realloc, free, pmalloc and pfree, the variables of malloc.c keep
\* their types.
THEOREM HeapTypes == Spec => []TypeOK
BY Invariance, PTL DEF HInv

\* malloc's walk along the headers is always over whole headers, and ends at
\* last_alloc.
THEOREM HeapChain == Spec => []ChainUnbroken
<1>1. HInv => ChainUnbroken
  BY DEF HInv, IInv, ChainUnbroken
<1>2. QED
  BY <1>1, Invariance, PTL

\* No payload reaches the page pool above heap_end, for sizes up to a word,
\* unless the sum of one of them has wrapped and all memory is overwritten.
THEOREM HeapStaysBelowPages == Spec => []HeapBelowPages
<1>1. HInv => HeapBelowPages
  BY DEF HInv, IInv, HeapBelowPages
<1>2. QED
  BY <1>1, Invariance, PTL

\* A region a caller holds is never marked free and never handed out again.
THEOREM HeapHeldIsTaken == Spec => []HeldIsTaken
<1>1. HInv => HeldIsTaken
  BY DEF HInv, IInv, HeldIsTaken
<1>2. QED
  BY <1>1, Invariance, PTL

-----------------------------------------------------------------------------

\* pmalloc and pfree mark exactly the pages callers hold.
THEOREM PagesAreAccounted == Spec => []PagesAccounted
<1>1. Init => PagesAccounted
  BY DEF Init, PagesAccounted
<1>2. HInv /\ PagesAccounted /\ [Next]_vars => PagesAccounted'
  <2> SUFFICES ASSUME HInv, PagesAccounted, [Next]_vars PROVE PagesAccounted'
    OBVIOUS
  <2>1. CASE UNCHANGED <<pheap_desc, pages>>
    BY <2>1 DEF PagesAccounted
  <2>2. CASE Pmalloc
    BY <2>2 DEF Pmalloc, PagesAccounted, HInv, TypeOK
  <2>3. ASSUME NEW i \in pages, Pfree(i) PROVE PagesAccounted'
    BY <2>3 DEF Pfree, PagesAccounted, HInv, TypeOK
  <2>4. QED
    BY <2>1, <2>2, <2>3
       DEF Next, vars, Malloc, Calloc, Allocate, Realloc, Free, PfreeEnd
<1>3. QED
  BY <1>1, <1>2, Invariance, PTL DEF Spec

-----------------------------------------------------------------------------

\* The region r is in the payload of block i.
In(r, i) == r.ptr = PayloadOf(blocks[i]) /\ r.len <= blocks[i].size

LEMMA RegionIn ==
  ASSUME IInv, NEW r \in Abstract!Region, NEW i \in 1 .. Len(blocks), In(r, i)
  PROVE  /\ r.ptr \in Nat /\ r.len \in Nat
         /\ blocks[i].at \in Nat /\ EndOf(blocks[i]) \in Nat
         /\ r.ptr = blocks[i].at + 8
         /\ r.ptr + r.len <= EndOf(blocks[i]) - 4
<1> DEFINE p == r.ptr  l == r.len  a == blocks[i].at  z == blocks[i].size
           e == EndOf(blocks[i])
<1>1. blocks[i] \in Block
  BY DEF IInv, TypeOK
<1>2. /\ p \in Nat /\ l \in Nat /\ a \in Nat /\ z \in Nat /\ l <= z
      /\ p = a + 8 /\ e = a + z + 12
  BY <1>1, BlockAddresses DEF In, Abstract!Region
<1> HIDE DEF p, l, a, z, e
<1>3. e \in Nat /\ p + l <= e - 4
  BY <1>2
<1>4. QED
  BY <1>2, <1>3 DEF p, l, a, z, e

\* A region inside a payload is inside the heap.
LEMMA RegionInHeap ==
  ASSUME IInv, NEW r \in Abstract!Region, NEW i \in 1 .. Len(blocks), In(r, i)
  PROVE  Abstract!InHeap(r)
<1>1. HeapBegin <= blocks[i].at
  <2>1. /\ blocks[1].at = HeapBegin /\ Len(blocks) >= 1 /\ blocks \in Seq(Block)
        /\ blocks[i] \in Block
    BY DEF IInv, ChainUnbroken, TypeOK
  <2>2. HeapBegin \in Nat /\ blocks[i].at \in Nat
    BY <2>1, HeapAssumption, BlockAddresses
  <2>3. CASE i = 1
    BY <2>1, <2>2, <2>3
  <2>4. CASE i # 1
    <3>1. 1 \in 1 .. Len(blocks) /\ 1 < i
      BY <2>1, <2>4
    <3>2. EndOf(blocks[1]) <= blocks[i].at
      BY <3>1 DEF IInv, InOrder
    <3>3. blocks[1].size \in Nat /\ EndOf(blocks[1]) = HeapBegin + blocks[1].size + 12
      BY <2>1, <3>1, BlockAddresses
    <3>4. QED
      BY <2>2, <3>2, <3>3
  <2>5. QED
    BY <2>3, <2>4
<1>2. r.ptr + blocks[i].size < HeapEnd /\ r.len <= blocks[i].size
  BY DEF IInv, HeapBelowPages, In
<1>3. blocks[i].size \in Nat
  BY BlockAddresses DEF IInv, TypeOK
<1>4. /\ r.ptr \in Nat /\ r.len \in Nat
      /\ blocks[i].at \in Nat /\ r.ptr = blocks[i].at + 8
      /\ HeapBegin \in Nat /\ HeapEnd \in Nat
  BY RegionIn, HeapAssumption
<1> DEFINE p == r.ptr  l == r.len  a == blocks[i].at  z == blocks[i].size
<1>5. /\ p \in Nat /\ l \in Nat /\ a \in Nat /\ z \in Nat /\ p = a + 8
      /\ HeapBegin <= a /\ p + z < HeapEnd /\ l <= z
  BY <1>1, <1>2, <1>3, <1>4
<1> HIDE DEF p, l, a, z
<1>6. HeapBegin <= p /\ p + l < HeapEnd
  BY <1>4, <1>5
<1>7. HeapBegin <= r.ptr /\ r.ptr + r.len < HeapEnd
  BY <1>6, Zenon DEF p, l
<1>8. QED
  BY <1>7, Zenon DEF Abstract!InHeap

\* Regions inside the payloads of two blocks do not overlap.
LEMMA RegionsApart ==
  ASSUME IInv,
         NEW r \in Abstract!Region, NEW i \in 1 .. Len(blocks), In(r, i),
         NEW s \in Abstract!Region, NEW j \in 1 .. Len(blocks), In(s, j),
         i # j
  PROVE  Abstract!Apart(r, s)
<1> DEFINE a == r.ptr  la == r.len  ea == EndOf(blocks[i])
           b == s.ptr  lb == s.len  eb == EndOf(blocks[j])
<1>1. /\ r.ptr \in Nat /\ r.len \in Nat /\ EndOf(blocks[i]) \in Nat
      /\ r.ptr + r.len <= EndOf(blocks[i]) - 4
      /\ blocks[i].at \in Nat /\ r.ptr = blocks[i].at + 8
  BY RegionIn
<1>2. /\ s.ptr \in Nat /\ s.len \in Nat /\ EndOf(blocks[j]) \in Nat
      /\ s.ptr + s.len <= EndOf(blocks[j]) - 4
      /\ blocks[j].at \in Nat /\ s.ptr = blocks[j].at + 8
  BY RegionIn
<1>3. ea <= blocks[j].at \/ eb <= blocks[i].at
  BY DEF IInv, InOrder
<1>4. a \in Nat /\ la \in Nat /\ ea \in Nat /\ a + la <= ea - 4
  BY <1>1, Zenon
<1>4a. b \in Nat /\ lb \in Nat /\ eb \in Nat /\ b + lb <= eb - 4
  BY <1>2, Zenon
<1>4b. ea <= b - 8 \/ eb <= a - 8
  BY <1>1, <1>2, <1>3, SMTT(30)
<1> HIDE DEF a, la, ea, b, lb, eb
<1>5. a + la <= b \/ b + lb <= a
  BY <1>4, <1>4a, <1>4b, SMTT(30)
<1>6. r.ptr + r.len <= s.ptr \/ s.ptr + s.len <= r.ptr
  BY <1>5, Zenon DEF a, la, b, lb
<1>7. QED
  BY <1>6, Zenon DEF Abstract!Apart

\* What HeldIsTaken says of one region.
LEMMA HeldIn ==
  ASSUME IInv, NEW r \in held
  PROVE  /\ r \in Abstract!Region
         /\ \E i \in 1 .. Len(blocks) : In(r, i) /\ blocks[i].status = 1
BY DEF IInv, TypeOK, HeldIsTaken, In, Abstract!Region

-----------------------------------------------------------------------------

\* An allocation is seen as Obtain.
LEMMA ObtainStep ==
  ASSUME Running, mode' = mode,
         NEW new, new \notin held, NEW dropped \in SUBSET held,
         held' = (held \ dropped) \cup {new},
         Abstract!InHeap(new),
         \A r \in held : Abstract!Apart(new, r)
  PROVE  Abstract!ANext
<1>1. new \in held' \ held /\ dropped \in SUBSET (held \ held')
  OBVIOUS
<1>2. Abstract!Obtain(new, dropped)
  BY DEF Abstract!Obtain, Running
<1>3. QED
  BY <1>1, <1>2 DEF Abstract!ANext

\* A reused block is free, so it is not the block of any region held.
LEMMA ReuseStep ==
  ASSUME IInv, Running, NEW size \in Nat \ {0}, NEW dropped \in SUBSET held,
         Reuse(size, dropped)
  PROVE  Abstract!ANext
<1>1. PICK i \in 1 .. Len(blocks) :
         /\ FirstStop(i, size)
         /\ blocks[i].size # 0
         /\ held' = (held \ dropped) \cup {[ptr |-> PayloadOf(blocks[i]), len |-> size]}
         /\ mode' = mode
  BY DEF Reuse
<1> DEFINE new == [ptr |-> PayloadOf(blocks[i]), len |-> size]
<1>2. blocks[i] \in Block
  BY DEF IInv, TypeOK
<1>3. blocks[i].status = 0 /\ size <= blocks[i].size
  BY <1>1, <1>2 DEF FirstStop, Stops, Block
<1>4. new \in Abstract!Region /\ In(new, i)
  BY <1>2, <1>3, BlockAddresses DEF Abstract!Region, In
<1>5. ASSUME NEW r \in held PROVE r # new /\ Abstract!Apart(new, r)
  <2>1. r \in Abstract!Region
    BY HeldIn
  <2>2. PICK j \in 1 .. Len(blocks) : In(r, j) /\ blocks[j].status = 1
    BY HeldIn
  <2>3. i # j
    BY <1>3, <2>2
  <2>4. PayloadOf(blocks[i]) # PayloadOf(blocks[j])
    BY <2>3, HeadersDistinct
  <2>5. r # new
    BY <2>2, <2>4 DEF In
  <2>6. QED
    BY <1>4, <2>1, <2>2, <2>3, <2>5, RegionsApart
<1>6. Abstract!InHeap(new)
  BY <1>4, RegionInHeap
<1>7. QED
  BY <1>1, <1>5, <1>6, ObtainStep

\* A new block lies behind every region held.
LEMMA NewBlockStep ==
  ASSUME IInv, Running, NEW size \in Nat \ {0}, NEW dropped \in SUBSET held,
         NewBlock(size, dropped)
  PROVE  Abstract!ANext
<1> DEFINE new == [ptr |-> last_alloc + SizeofAllocT, len |-> size]
<1>1. /\ held' = (held \ dropped) \cup {new}
      /\ mode' = mode
      /\ ~Exhausted(size) /\ ~Wraps(size)
  BY DEF NewBlock
<1>2. last_alloc \in Nat /\ HeapEnd \in Nat /\ HeapBegin \in Nat
  BY HeapAssumption DEF IInv, TypeOK
<1>3. new.ptr = last_alloc + 8 /\ new.len = size
  BY DEF SizeofAllocT
<1>4. Abstract!InHeap(new)
  <2>1. 1 \in 1 .. Len(blocks) /\ blocks[1] \in Block /\ blocks[1].at = HeapBegin
    BY DEF IInv, TypeOK, ChainUnbroken
  <2>2. EndOf(blocks[1]) <= last_alloc
    BY <2>1 DEF IInv, BelowLast
  <2>3. blocks[1].size \in Nat /\ EndOf(blocks[1]) = HeapBegin + blocks[1].size + 12
    BY <2>1, BlockAddresses
  <2>4. HeapBegin <= last_alloc
    BY <1>2, <2>2, <2>3
  <2>5. HeapBegin <= last_alloc + 8 /\ last_alloc + 8 + size < HeapEnd
    BY <1>1, <1>2, <2>4, NotExhausted DEF SizeofAllocT
  <2>6. QED
    BY <1>3, <2>5 DEF Abstract!InHeap
<1>5. ASSUME NEW r \in held PROVE r # new /\ Abstract!Apart(new, r)
  <2>1. r \in Abstract!Region
    BY HeldIn
  <2>2. PICK j \in 1 .. Len(blocks) : In(r, j)
    BY HeldIn
  <2>3. EndOf(blocks[j]) <= last_alloc
    BY DEF IInv, BelowLast
  <2>4. /\ r.ptr \in Nat /\ r.len \in Nat /\ EndOf(blocks[j]) \in Nat
        /\ r.ptr + r.len <= EndOf(blocks[j]) - 4
    BY <2>1, <2>2, RegionIn
  <2> DEFINE p == r.ptr  l == r.len  e == EndOf(blocks[j])
  <2>5. p \in Nat /\ l \in Nat /\ e \in Nat /\ p + l <= e - 4 /\ e <= last_alloc
    BY <2>3, <2>4
  <2> HIDE DEF p, l, e
  <2>6. p + l <= last_alloc + 8 /\ p # last_alloc + 8
    BY <1>2, <2>5
  <2>7. r.ptr + r.len <= new.ptr /\ r.ptr # new.ptr
    BY <1>3, <2>6 DEF p, l
  <2>8. Abstract!Apart(new, r)
    BY <2>7, Zenon DEF Abstract!Apart
  <2>9. r # new
    BY <2>7
  <2>10. QED
    BY <2>8, <2>9
<1> HIDE DEF new
<1>6. QED
  BY <1>1, <1>4, <1>5, ObtainStep

LEMMA AllocateStep ==
  ASSUME IInv, NEW size \in Nat, NEW dropped \in SUBSET held, Allocate(size, dropped)
  PROVE  Abstract!ANext
<1>1. Running /\ size \in Nat \ {0}
  BY DEF Allocate
<1>2. CASE Reuse(size, dropped)
  BY <1>1, <1>2, ReuseStep
<1>3. CASE NewBlock(size, dropped)
  BY <1>1, <1>3, NewBlockStep
<1>4. CASE OutOfMemory(size)
  BY <1>4 DEF OutOfMemory, Abstract!ANext, Abstract!Halt, Running
<1>5. CASE WrappedBlock(size)
  BY <1>5 DEF WrappedBlock, Abstract!ANext, Abstract!Halt, Running
<1>6. QED
  BY <1>2, <1>3, <1>4, <1>5 DEF Allocate

LEMMA StepImplements ==
  ASSUME IInv, [Next]_vars
  PROVE  Abstract!ANext \/ UNCHANGED Abstract!avars
<1>1. ASSUME NEW r \in held, Free(r) PROVE Abstract!ANext
  <2>1. Running /\ held' = held \ {r} /\ mode' = mode
    BY <1>1 DEF Free
  <2>2. Abstract!GiveBack(r) /\ r \in held \ held'
    BY <2>1 DEF Abstract!GiveBack, Running
  <2>3. QED
    BY <2>2 DEF Abstract!ANext
<1>2. ASSUME NEW size \in Sizes, Malloc(size) PROVE Abstract!ANext
  BY <1>2, AllocateStep, HeapAssumption DEF Malloc
<1>3. ASSUME NEW a \in CallocArgs, Calloc(a[1], a[2]) PROVE Abstract!ANext
  <2>1. (a[1] * a[2]) % Word \in Nat
    <3>1. a[1] \in Nat /\ a[2] \in Nat
      BY HeapAssumption
    <3>2. a[1] * a[2] \in Int
      BY <3>1
    <3>3. (a[1] * a[2]) % Word \in 0 .. Word - 1
      BY <3>2, WordRange
    <3>4. QED
      BY <3>3, HeapAssumption
  <2>2. QED
    BY <1>3, <2>1, AllocateStep DEF Calloc
<1>4. ASSUME NEW r \in held, NEW size \in Sizes, Realloc(r, size) PROVE Abstract!ANext
  <2>1. CASE size = 0
    BY <1>1, <1>4, <2>1 DEF Realloc
  <2>2. CASE size # 0
    BY <1>4, <2>2, AllocateStep, HeapAssumption DEF Realloc
  <2>3. QED
    BY <2>1, <2>2
<1>5. CASE Pmalloc \/ (\E i \in pages : Pfree(i)) \/ PfreeEnd \/ UNCHANGED vars
  BY <1>5 DEF Pmalloc, Pfree, PfreeEnd, vars, Abstract!avars, Running
<1>6. QED
  BY <1>1, <1>2, <1>3, <1>4, <1>5 DEF Next

\* The block list, with its headers, its gaps and its page pool, behaves to
\* its callers as an allocator of disjoint regions inside the heap: realloc
\* gives up the old region without ever handing its bytes out twice.
THEOREM HeapImplementsRegions == Spec => ImplementsRegions
<1>1. Init => Abstract!AInit
  <2> SUFFICES ASSUME Init PROVE Abstract!AInit
    OBVIOUS
  <2>1. IInv
    BY InitIInv
  <2>2. held = {DescRegion} /\ Running
    BY DEF Init, Running
  <2>3. PICK i \in 1 .. Len(blocks) : In(DescRegion, i)
    BY <2>1, <2>2, HeldIn
  <2>4. DescRegion \in Abstract!Region
    BY <2>1, <2>2, HeldIn
  <2>5. Abstract!InHeap(DescRegion)
    BY <2>1, <2>3, <2>4, RegionInHeap
  <2>6. QED
    BY <2>2, <2>4, <2>5 DEF Abstract!AInit
<1>2. HInv /\ [Next]_vars => [Abstract!ANext]_(Abstract!avars)
  <2> SUFFICES ASSUME HInv, [Next]_vars PROVE Abstract!ANext \/ UNCHANGED Abstract!avars
    OBVIOUS
  <2>1. CASE Intact
    BY <2>1, StepImplements DEF HInv
  <2>2. CASE ~Intact
    BY <2>2, LostIsStill DEF vars, Abstract!avars, Running
  <2>3. QED
    BY <2>1, <2>2
<1>3. QED
  BY <1>1, <1>2, Invariance, PTL DEF Spec, ImplementsRegions, Abstract!ASpec
=============================================================================
