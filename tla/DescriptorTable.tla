--------------------------- MODULE DescriptorTable ---------------------------
(***************************************************************************)
(* What a program may rely on when it opens, seeks and closes files: each  *)
(* descriptor it holds stands for the file it opened it on, at the place   *)
(* it was last moved to, until the program itself closes it.               *)
(***************************************************************************)
EXTENDS Integers

CONSTANTS Fds,          \* the descriptors that can be given out
          Files,        \* what a descriptor can stand for
          Places,       \* positions in a file
          NoFile        \* not an element of [file, place]

VARIABLES table,        \* what each descriptor stands for, or NoFile
          answer        \* what the last open returned: a descriptor, or -1

tvars == <<table, answer>>

Entry == [file : Files, place : Places]

TInit == table = [d \in Fds |-> NoFile] /\ answer = -1

\* A descriptor nobody holds is given out, and its file starts at 0; only
\* when every descriptor is held is the answer -1.
Open(d, f) ==
  /\ table[d] = NoFile
  /\ table' = [table EXCEPT ![d] = [file |-> f, place |-> 0]]
  /\ answer' = d

Refuse ==
  /\ \A d \in Fds : table[d] # NoFile
  /\ answer' = -1 /\ UNCHANGED table

Seek(d, p) ==
  /\ table[d] # NoFile
  /\ table' = [table EXCEPT ![d].place = p]
  /\ UNCHANGED answer

Close(d) ==
  /\ table[d] # NoFile
  /\ table' = [table EXCEPT ![d] = NoFile]
  /\ UNCHANGED answer

TNext ==
  \/ \E d \in Fds :
       \/ \E f \in Files : Open(d, f)
       \/ \E p \in Places : Seek(d, p)
       \/ Close(d)
  \/ Refuse

TSpec == TInit /\ [][TNext]_tvars
=============================================================================
