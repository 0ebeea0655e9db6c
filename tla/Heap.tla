-------------------------------- MODULE Heap --------------------------------
(***************************************************************************)
(* The kernel's heap, kernel/allocator/malloc.c: a first-fit list of       *)
(* blocks, each an alloc_t header, the payload and four bytes, that grows  *)
(* from heap_begin to heap_end, and above it a pool of page-sized,         *)
(* page-aligned allocations described by the bytes of pheap_desc.          *)
(***************************************************************************)
EXTENDS Integers, Sequences

CONSTANTS HeapBegin,           \* kernel_end + 0x1000
          PheapEnd,            \* 0x400000 in the code
          PageSize,            \* 4096 in the code
          MAXPAGEALIGNEDALLOC, \* 32 in the code
          Sizes,               \* the sizes callers ask for
          CallocArgs,          \* the pairs <<num, size>> callers pass calloc
          Word                 \* 2^32: addresses and counts are of type uint32_t

SizeofAllocT == 8              \* uint8_t status, padding, uint32_t size

\* Definitions named Mut... are deliberate errors, one for each property, of
\* the kind this code could have; no specification uses them.
MutFooter == 0
Footer == 4                    \* "mem += 4": four bytes behind each payload

HeapEnd == PheapEnd - MAXPAGEALIGNEDALLOC * PageSize

\* The first malloc, of pheap_desc itself, fits (no panic in mmInit), and the
\* heap lies below 2^32. What callers ask for may be as large as a word.
ASSUME HeapAssumption ==
  /\ {HeapBegin, PheapEnd, PageSize, MAXPAGEALIGNEDALLOC, Word} \subseteq Nat \ {0}
  /\ Sizes \subseteq 0 .. Word - 1
  /\ CallocArgs \subseteq Nat \X Nat
  /\ HeapEnd \in Nat
  /\ HeapBegin + MAXPAGEALIGNEDALLOC + SizeofAllocT < HeapEnd
  /\ PheapEnd + Footer < Word

VARIABLES
  blocks,       \* the headers in address order: [at, status, size]
  last_alloc,   \* the first address behind the last block
  memory_used,
  pheap_desc,   \* 1 for a page given out
  mode,         \* "run", "panicked" (panicMSG has stopped the kernel), or
                \* "lost" (all memory behind the heap is overwritten)
  held,         \* ghost: the regions [ptr, len] callers still hold
  pages         \* ghost: the page indexes callers still hold

heapvars == <<blocks, last_alloc, memory_used>>
vars == <<blocks, last_alloc, memory_used, pheap_desc, mode, held, pages>>

Running == mode = "run"
Intact == mode # "lost"

PageIndex == 0 .. MAXPAGEALIGNEDALLOC - 1

Block == [at : Nat, status : {0, 1}, size : Nat]

PayloadOf(b) == b.at + SizeofAllocT
EndOf(b) == b.at + b.size + SizeofAllocT + Footer

\* The region of pheap_desc, which mmInit allocates and nobody frees.
DescRegion == [ptr |-> HeapBegin + SizeofAllocT, len |-> MAXPAGEALIGNEDALLOC]

\* mmInit: an empty heap, then malloc(MAXPAGEALIGNEDALLOC) for pheap_desc.
Init ==
  /\ blocks = << [at |-> HeapBegin, status |-> 1, size |-> MAXPAGEALIGNEDALLOC] >>
  /\ last_alloc = HeapBegin + MAXPAGEALIGNEDALLOC + SizeofAllocT + Footer
  /\ memory_used = (MAXPAGEALIGNEDALLOC + Footer + SizeofAllocT) % Word
  /\ pheap_desc = [i \in PageIndex |-> 0]
  /\ mode = "run"
  /\ held = {DescRegion}
  /\ pages = {}

-----------------------------------------------------------------------------

\* The walk of malloc stops at a block without a size, or takes a free block
\* that is large enough; it steps over every other block.
MutStops(b, size) == b.size = 0 \/ b.status = 0
Stops(b, size) == b.size = 0 \/ (b.status = 0 /\ b.size >= size)

FirstStop(i, size) ==
  /\ Stops(blocks[i], size)
  /\ \A j \in 1 .. i - 1 : ~Stops(blocks[j], size)

\* A free block is taken as it is: its size stays, and memory_used grows by
\* the size asked for.
Reuse(size, dropped) ==
  \E i \in 1 .. Len(blocks) :
    /\ FirstStop(i, size)
    /\ blocks[i].size # 0
    /\ blocks' = [blocks EXCEPT ![i].status = 1]
    /\ memory_used' = (memory_used + size + SizeofAllocT) % Word
    /\ held' = (held \ dropped) \cup {[ptr |-> PayloadOf(blocks[i]), len |-> size]}
    /\ UNCHANGED <<last_alloc, mode>>

\* "nalloc": no block will do, so a new one is cut at last_alloc.
WalkFails(size) ==
  \A i \in 1 .. Len(blocks) : FirstStop(i, size) => blocks[i].size = 0

\* The sum that is compared with heap_end is one of 32 bits, and wraps.
MutExhausted(size) == (last_alloc + size) % Word >= HeapEnd
Exhausted(size) == (last_alloc + size + SizeofAllocT) % Word >= HeapEnd

Wraps(size) == last_alloc + size + SizeofAllocT >= Word

MutNewBlock(size, dropped) ==
  /\ WalkFails(size)
  /\ ~Exhausted(size) /\ ~Wraps(size)
  /\ blocks' = Append(blocks, [at |-> last_alloc, status |-> 1, size |-> size])
  /\ last_alloc' = last_alloc + size + SizeofAllocT
  /\ memory_used' = (memory_used + size + Footer + SizeofAllocT) % Word
  /\ held' = (held \ dropped) \cup {[ptr |-> last_alloc + SizeofAllocT, len |-> size]}
  /\ UNCHANGED mode

NewBlock(size, dropped) ==
  /\ WalkFails(size)
  /\ ~Exhausted(size) /\ ~Wraps(size)
  /\ blocks' = Append(blocks, [at |-> last_alloc, status |-> 1, size |-> size])
  /\ last_alloc' = last_alloc + size + SizeofAllocT + Footer
  /\ memory_used' = (memory_used + size + Footer + SizeofAllocT) % Word
  /\ held' = (held \ dropped) \cup {[ptr |-> last_alloc + SizeofAllocT, len |-> size]}
  /\ UNCHANGED mode

\* A size near 2^32 passes the test: the block reaches from last_alloc over
\* everything to the end of memory, and memset clears all of it, the pages and
\* from address 0 on as well. What comes after that is not modelled.
WrappedBlock(size) ==
  /\ WalkFails(size)
  /\ ~Exhausted(size) /\ Wraps(size)
  /\ blocks' = Append(blocks, [at |-> last_alloc, status |-> 1, size |-> size])
  /\ last_alloc' = (last_alloc + size + SizeofAllocT + Footer) % Word
  /\ memory_used' = (memory_used + size + Footer + SizeofAllocT) % Word
  /\ mode' = "lost"
  /\ UNCHANGED held

OutOfMemory(size) ==
  /\ WalkFails(size)
  /\ Exhausted(size)
  /\ mode' = "panicked"
  /\ UNCHANGED <<heapvars, held>>

\* malloc of a size that is not 0; malloc(0) returns 0 and changes nothing.
Allocate(size, dropped) ==
  /\ Running
  /\ size # 0
  /\ \/ Reuse(size, dropped) \/ NewBlock(size, dropped)
     \/ WrappedBlock(size) \/ OutOfMemory(size)
  /\ UNCHANGED <<pheap_desc, pages>>

Malloc(size) == Allocate(size, {})

\* calloc multiplies in 32 bits.
Calloc(num, size) == Allocate((num * size) % Word, {})

MutFree(r) ==
  /\ Running
  /\ \E i \in 1 .. Len(blocks) :
       /\ PayloadOf(blocks[i]) = r.ptr
       /\ blocks' = [blocks EXCEPT ![i].status = 0]
       /\ memory_used' = memory_used - (blocks[i].size + SizeofAllocT)
  /\ held' = held \ {r}
  /\ UNCHANGED <<last_alloc, mode, pheap_desc, pages>>

\* free of a region the caller holds. The header is found by its address.
Free(r) ==
  /\ Running
  /\ \E i \in 1 .. Len(blocks) :
       /\ PayloadOf(blocks[i]) = r.ptr
       /\ blocks' = [blocks EXCEPT ![i].status = 0]
       /\ memory_used' = (memory_used - (blocks[i].size + SizeofAllocT)) % Word
  /\ held' = held \ {r}
  /\ UNCHANGED <<last_alloc, mode, pheap_desc, pages>>

\* realloc of a region: size 0 frees it, any other size is a malloc, after
\* which the caller no longer has the old pointer, whose block stays taken.
Realloc(r, size) == IF size = 0 THEN Free(r) ELSE Allocate(size, {r})

-----------------------------------------------------------------------------

FirstFreePage(i) == pheap_desc[i] = 0 /\ \A j \in 0 .. i - 1 : pheap_desc[j] # 0

\* pmalloc; with no free page it returns 0 and changes nothing.
Pmalloc ==
  /\ Running
  /\ \E i \in PageIndex : /\ FirstFreePage(i)
                          /\ pheap_desc' = [pheap_desc EXCEPT ![i] = 1]
                          /\ pages' = pages \cup {i}
  /\ UNCHANGED <<heapvars, mode, held>>

MutPfree(i) ==
  /\ Running
  /\ pheap_desc' = [pheap_desc EXCEPT ![(i + 1) % MAXPAGEALIGNEDALLOC] = 0]
  /\ pages' = pages \ {i}
  /\ UNCHANGED <<heapvars, mode, held>>

Pfree(i) ==
  /\ Running
  /\ pheap_desc' = [pheap_desc EXCEPT ![i] = 0]
  /\ pages' = pages \ {i}
  /\ UNCHANGED <<heapvars, mode, held>>

\* pfree lets pheap_end itself through (">" in its range check) and so
\* clears pheap_desc[MAXPAGEALIGNEDALLOC], the byte behind the array. Where
\* that byte is the status of a header, the block becomes free.
PfreeEnd ==
  /\ Running
  /\ blocks' = [i \in 1 .. Len(blocks) |->
                  IF blocks[i].at = DescRegion.ptr + DescRegion.len
                  THEN [blocks[i] EXCEPT !.status = 0] ELSE blocks[i]]
  /\ UNCHANGED <<last_alloc, memory_used, mode, held, pheap_desc, pages>>

Next ==
  \/ \E size \in Sizes : Malloc(size)
  \/ \E a \in CallocArgs : Calloc(a[1], a[2])
  \/ \E r \in held \ {DescRegion} : Free(r)
  \/ \E r \in held \ {DescRegion}, size \in Sizes : Realloc(r, size)
  \/ Pmalloc
  \/ \E i \in pages : Pfree(i)
  \/ PfreeEnd

Spec == Init /\ [][Next]_vars

-----------------------------------------------------------------------------
(* Properties *)

\* Every variable has its type.
TypeOK ==
  /\ blocks \in Seq(Block)
  /\ last_alloc \in Nat
  /\ memory_used \in 0 .. Word - 1
  /\ pheap_desc \in [PageIndex -> {0, 1}]
  /\ mode \in {"run", "panicked", "lost"}
  /\ held \subseteq [ptr : Nat, len : Nat]
  /\ pages \subseteq PageIndex

\* The headers are where the walk of malloc looks for them: adding a block's
\* size, its header and the four bytes to its address gives the address of
\* the next header, from heap_begin up to last_alloc, and no size is 0, so
\* the walk sees every block and never reads a payload as a header.
ChainUnbroken ==
  Intact =>
  /\ Len(blocks) >= 1
  /\ blocks[1].at = HeapBegin
  /\ \A i \in 1 .. Len(blocks) :
       /\ blocks[i].size # 0
       /\ EndOf(blocks[i]) = IF i = Len(blocks) THEN last_alloc
                                                ELSE blocks[i + 1].at

\* No payload byte reaches heap_end, where the page pool begins, although
\* the test in malloc leaves the last block's four bytes out of the sum, and
\* the sum may wrap: the only block that reaches further is one whose memset
\* has overwritten everything, after which nothing is claimed.
HeapBelowPages ==
  Intact =>
  /\ \A i \in 1 .. Len(blocks) : PayloadOf(blocks[i]) + blocks[i].size < HeapEnd
  /\ last_alloc < HeapEnd + Footer

\* A region a caller holds lies in the payload of one block that is marked
\* as taken, and of no other caller: no legal order of malloc, calloc,
\* realloc, free, pmalloc and pfree marks it free or hands it out again.
HeldIsTaken ==
  Intact =>
  \A r \in held :
    \E i \in 1 .. Len(blocks) :
      /\ r.ptr = PayloadOf(blocks[i])
      /\ r.len <= blocks[i].size
      /\ blocks[i].status = 1
      /\ \A s \in held \ {r} : s.ptr # r.ptr

\* A page is marked in pheap_desc exactly while a caller holds it: none is
\* lost and none is given to two callers.
PagesAccounted == pages = {i \in PageIndex : pheap_desc[i] = 1}

\* What callers see is an allocator of disjoint regions.
Abstract == INSTANCE RegionAllocator
              WITH Low <- HeapBegin, High <- HeapEnd, owned <- held, halted <- ~Running
ImplementsRegions == Abstract!ASpec

\* mmPrintStatus prints memory_used as "Memory used", and what is left of
\* the heap as "Memory free": the count never exceeds the bytes cut so far.
UsedIsWithinTheHeap == Intact => memory_used <= last_alloc - HeapBegin
=============================================================================
