----------------------------- MODULE MCInterrupts -----------------------------
(***************************************************************************)
(* The five lines with devices, waits of no tick, one and two.             *)
(***************************************************************************)
EXTENDS Interrupts

MCSleeps == {1, 2, 4}
=============================================================================
