--------------------------- MODULE RegionAllocator ---------------------------
(***************************************************************************)
(* What a caller of malloc, free and realloc may rely on, whatever the     *)
(* allocator does inside: the byte ranges handed out and not given back    *)
(* stay apart and inside the heap, and an allocator that has panicked, or  *)
(* has overwritten the memory, hands out nothing any more.                 *)
(***************************************************************************)
EXTENDS Integers

CONSTANTS Low, High     \* the heap is the addresses Low..High-1

VARIABLES owned,        \* the regions callers hold, records [ptr, len]
          halted        \* the kernel has panicked, or is lost

avars == <<owned, halted>>

Region == [ptr : Nat, len : Nat]

InHeap(r) == Low <= r.ptr /\ r.ptr + r.len < High

Apart(r, s) == r.ptr + r.len <= s.ptr \/ s.ptr + s.len <= r.ptr

AInit == /\ owned \in SUBSET Region
         /\ \A r \in owned : InHeap(r)
         /\ \A r, s \in owned : r # s => Apart(r, s)
         /\ halted = FALSE

\* malloc, and realloc when dropped is the region it is told to resize: the
\* new region is apart from every region held so far, the dropped one too.
Obtain(new, dropped) ==
  /\ ~halted
  /\ InHeap(new)
  /\ \A r \in owned : Apart(new, r)
  /\ owned' = (owned \ dropped) \cup {new}
  /\ UNCHANGED halted

GiveBack(r) == /\ ~halted
               /\ owned' = owned \ {r}
               /\ UNCHANGED halted

Halt == halted' = TRUE /\ UNCHANGED owned

\* The next-state relation names its witnesses through the change of owned,
\* so that it can be evaluated for any step of an implementation.
ANext == \/ \E new \in owned' \ owned, dropped \in SUBSET (owned \ owned') :
              Obtain(new, dropped)
         \/ \E r \in owned \ owned' : GiveBack(r)
         \/ Halt

ASpec == AInit /\ [][ANext]_avars
=============================================================================
