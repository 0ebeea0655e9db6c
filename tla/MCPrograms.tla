----------------------------- MODULE MCPrograms -----------------------------
(***************************************************************************)
(* Up to six command lines, each of which launches a program; programs    *)
(* make a call the kernel knows, one it does not and the one whose number  *)
(* is behind the array.                                                    *)
(***************************************************************************)
EXTENDS Programs

MCCalls == {1, 7, MAX_SYSCALLS}
=============================================================================
