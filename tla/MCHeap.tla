------------------------------- MODULE MCHeap -------------------------------
(***************************************************************************)
(* A heap with room for three blocks above that of pheap_desc, two pages   *)
(* of eight bytes above it, and requests of which one fits into a block    *)
(* another left. A word counts modulo 128, so that 100 bytes wrap.         *)
(***************************************************************************)
EXTENDS Heap

MCSizes == {0, 4, 12, 100}
MCCallocArgs == {<<2, 4>>}
=============================================================================
