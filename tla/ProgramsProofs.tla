---------------------------- MODULE ProgramsProofs ----------------------------
(***************************************************************************)
(* However many programs are launched, whatever calls they make and        *)
(* whenever the interrupts arrive: the flag of interrupts is as said, and  *)
(* no process is freed twice or while it runs, although the kernel frees   *)
(* one word and clears another.                                            *)
(***************************************************************************)
EXTENDS Programs, TLAPS

-----------------------------------------------------------------------------
(* The inductive invariant *)

\* A line waits, is being launched, has been launched, or its load has failed.
LinesAddUp == typed >= ring + launches + IF mode \in {"loading", "saved"} THEN 1 ELSE 0

\* Every program that ran was launched, and at most one has not exited.
LaunchesAddUp ==
  /\ nextProcessIndex = 0 - Len(freed)
  /\ mode \in {"shell", "loading", "saved", "returned"} => launches = Len(freed)
  /\ mode \in {"made", "user"} => launches = Len(freed) + 1
  /\ launches \in {Len(freed), Len(freed) + 1}

\* Only the first program's process is ever freed: killProcess passes
\* Process[0], which holds it until the first exit and is NULL from then on.
OnlyFirstFreed ==
  /\ \A i \in 1 .. Len(freed) : freed[i] = IF i = 1 THEN 1 ELSE NULL
  /\ Process[0] = IF freed = <<>> /\ launches > 0 THEN 1 ELSE NULL

\* The process of a program is that of its launch, or a word found in front
\* of the array.
CurrentIsFresh == mode \in {"made", "user"} => current \in {Wild, launches}

\* In front of the next place, the memory is as it was.
WordsInFront == \A i \in -MaxTyped .. 0 : i < nextProcessIndex => Process[i] \in {NULL, Wild}

\* The next place holds no process until one is made.
NextIsFree ==
  mode \in {"shell", "loading", "saved", "returned"} => Process[nextProcessIndex] \in {NULL, Wild}

IInv == /\ TypeOK
        /\ ListensUntilExit
        /\ LinesAddUp
        /\ LaunchesAddUp
        /\ OnlyFirstFreed
        /\ CurrentIsFresh
        /\ WordsInFront
        /\ NextIsFree

Accounts == LaunchesAddUp /\ OnlyFirstFreed /\ WordsInFront

-----------------------------------------------------------------------------

LEMMA ArrivalsAre ==
  ASSUME NEW good
  PROVE  \A m \in Arrivals(good) : m \in {good, "lost"}
BY DEF Arrivals

LEMMA Initially ==
  ASSUME Init
  PROVE  IInv
<1>1. MaxTyped \in Nat \ {0}
  BY ProgramsAssumption
<1>2. PICK w \in {NULL, Wild} : Process = [[i \in -MaxTyped .. 0 |-> w] EXCEPT ![0] = NULL]
  BY DEF Init
<1>3. Process \in [-MaxTyped .. 0 -> {NULL, Wild}] /\ Process[0] = NULL
  BY <1>1, <1>2 DEF NULL
<1>4. /\ mode = "shell" /\ INTF = TRUE /\ esp0 = "word" /\ ring = 0 /\ typed = 0
      /\ nextProcessIndex = 0 /\ current = NULL /\ freed = <<>> /\ launches = 0
  BY DEF Init
<1>5. TypeOK
  <2>1. Process \in [-MaxTyped .. 0 -> Wild .. MaxTyped]
    <3>1. {NULL, Wild} \subseteq Wild .. MaxTyped
      BY <1>1 DEF NULL, Wild
    <3>2. QED
      BY <1>3, <3>1
  <2>2. /\ mode \in Modes /\ INTF \in BOOLEAN /\ esp0 \in {"kernel", "word", "user"}
        /\ freed \in Seq(0 .. MaxTyped)
    BY <1>4 DEF Modes
  <2>3. 0 \in 0 .. MaxTyped /\ 0 \in -MaxTyped .. 0 /\ 0 \in Wild .. MaxTyped
    BY <1>1 DEF Wild
  <2>4. QED
    BY <1>4, <2>1, <2>2, <2>3 DEF TypeOK, NULL
<1>6. Len(freed) = 0
  BY <1>4
<1>7. LinesAddUp /\ LaunchesAddUp /\ ListensUntilExit /\ CurrentIsFresh
  <2>1. LinesAddUp /\ ListensUntilExit /\ CurrentIsFresh
    BY <1>4 DEF LinesAddUp, ListensUntilExit, CurrentIsFresh
  <2>2. nextProcessIndex = 0 - Len(freed) /\ launches = Len(freed)
    <3>1. nextProcessIndex = 0 /\ launches = 0
      BY <1>4
    <3>2. QED
      BY <1>6, <3>1
  <2>3. QED
    BY <1>4, <2>1, <2>2 DEF LaunchesAddUp
<1>8. OnlyFirstFreed
  BY <1>3, <1>4, <1>6 DEF OnlyFirstFreed
<1>9. WordsInFront /\ NextIsFree
  BY <1>3, <1>4 DEF WordsInFront, NextIsFree
<1>10. QED
  BY <1>4, <1>5, <1>7, <1>8, <1>9 DEF IInv

\* A step that leaves the processes alone and comes to user mode from there.
LEMMA ProcessesAlone ==
  ASSUME IInv, UNCHANGED procvars,
         mode' \in {mode, "panic", "lost"} \/ (mode = "made" /\ mode' = "user")
           \/ (mode = "returned" /\ mode' = "shell") \/ (mode = "shell" /\ mode' = "loading")
           \/ (mode = "loading" /\ mode' = "saved")
  PROVE  /\ LaunchesAddUp' /\ OnlyFirstFreed' /\ CurrentIsFresh' /\ WordsInFront' /\ NextIsFree'
         /\ Process' \in [-MaxTyped .. 0 -> Wild .. MaxTyped]
         /\ nextProcessIndex' \in -MaxTyped .. 0
         /\ current' \in Wild .. MaxTyped /\ launches' \in 0 .. MaxTyped
         /\ freed' \in Seq(0 .. MaxTyped)
<1>1. UNCHANGED <<Process, nextProcessIndex, current, freed, launches>>
  BY DEF procvars
<1>2. QED
  BY <1>1 DEF IInv, TypeOK, LaunchesAddUp, OnlyFirstFreed, CurrentIsFresh, WordsInFront, NextIsFree, NULL

LEMMA InterruptKeeps ==
  ASSUME IInv, Interrupt
  PROVE  IInv'
<1>1. MaxTyped \in Nat \ {0}
  BY ProgramsAssumption
<1>2. PICK k \in Keys : ring' = ring + k /\ typed' = typed + k
  BY DEF Interrupt
<1>3. ring' \in 0 .. MaxTyped /\ typed' \in 0 .. MaxTyped
  <2>1. /\ ring \in 0 .. MaxTyped /\ typed \in 0 .. MaxTyped /\ launches \in 0 .. MaxTyped
        /\ typed >= ring + launches + (IF mode \in {"loading", "saved"} THEN 1 ELSE 0)
    BY DEF IInv, TypeOK, LinesAddUp
  <2>2. k \in Int /\ (k = 0 \/ (k = 1 /\ typed < MaxTyped))
    BY DEF Keys
  <2>3. ring <= typed
    BY <2>1
  <2>4. QED
    BY <1>1, <1>2, <2>1, <2>2, <2>3
<1>4. /\ INTF /\ ~Stopped /\ UNCHANGED <<INTF, procvars>>
      /\ mode' \in {mode, "lost"} /\ esp0' \in {"user", "word"}
  BY ArrivalsAre DEF Interrupt
<1>5. /\ LaunchesAddUp' /\ OnlyFirstFreed' /\ CurrentIsFresh' /\ WordsInFront' /\ NextIsFree'
      /\ TypeOK'
  BY <1>3, <1>4, ProcessesAlone DEF IInv, TypeOK, Modes
<1>6. LinesAddUp'
  <2>1. mode' \in {"loading", "saved"} <=> mode \in {"loading", "saved"}
    BY <1>4 DEF Interrupt
  <2>2. UNCHANGED launches
    BY <1>4 DEF procvars
  <2>3. /\ ring \in Int /\ typed \in Int /\ launches \in Int /\ k \in Int
        /\ typed >= ring + launches + IF mode \in {"loading", "saved"} THEN 1 ELSE 0
    BY <1>1 DEF IInv, TypeOK, LinesAddUp, Keys
  <2>4. ring' = ring + k /\ typed' = typed + k /\ launches' = launches
    BY <1>2, <2>2
  <2>5. typed' >= ring' + launches' + IF mode' \in {"loading", "saved"} THEN 1 ELSE 0
    BY <2>1, <2>3, <2>4
  <2>6. QED
    BY <2>5 DEF LinesAddUp
<1>7. ListensUntilExit'
  BY <1>4 DEF ListensUntilExit
<1>8. QED
  BY <1>4, <1>5, <1>6, <1>7 DEF IInv

\* From user mode, without an exit.
LEMMA CallKeeps ==
  ASSUME IInv, mode = "user", mode' \in {"user", "panic", "lost"},
         esp0' = "user", INTF' = (mode' = "user"), UNCHANGED <<ring, typed, procvars>>
  PROVE  IInv'
<1>1. /\ LaunchesAddUp' /\ OnlyFirstFreed' /\ CurrentIsFresh' /\ WordsInFront' /\ NextIsFree'
      /\ TypeOK'
  BY ProcessesAlone DEF IInv, TypeOK, Modes
<1>2. LinesAddUp'
  BY DEF IInv, LinesAddUp, procvars
<1>3. ListensUntilExit'
  BY DEF ListensUntilExit
<1>4. QED
  BY <1>1, <1>2, <1>3 DEF IInv

LEMMA SystemCallKeeps ==
  ASSUME IInv, NEW id \in Calls, SystemCall(id)
  PROVE  IInv'
<1>1. mode' \in {"user", "panic", "lost"}
  BY ArrivalsAre DEF SystemCall
<1>2. QED
  BY <1>1, CallKeeps DEF SystemCall

LEMMA ExceptionKeeps ==
  ASSUME IInv, Exception
  PROVE  IInv'
<1>1. mode' \in {"panic", "lost"}
  BY ArrivalsAre DEF Exception
<1>2. INTF' = (mode' = "user")
  BY <1>1 DEF Exception
<1>3. QED
  BY <1>1, <1>2, CallKeeps DEF Exception

LEMMA ReadLineKeeps ==
  ASSUME IInv, ReadLine
  PROVE  IInv'
<1>1. MaxTyped \in Nat \ {0}
  BY ProgramsAssumption
<1>2. /\ mode = "shell" /\ mode' = "loading" /\ ring > 0 /\ ring' = ring - 1
      /\ UNCHANGED <<INTF, esp0, typed, procvars>>
  BY DEF ReadLine
<1>3. ring' \in 0 .. MaxTyped
  BY <1>1, <1>2 DEF IInv, TypeOK
<1>4. /\ LaunchesAddUp' /\ OnlyFirstFreed' /\ CurrentIsFresh' /\ WordsInFront' /\ NextIsFree'
      /\ TypeOK'
  BY <1>2, <1>3, ProcessesAlone DEF IInv, TypeOK, Modes
<1>5. LinesAddUp'
  BY <1>1, <1>2 DEF IInv, LinesAddUp, TypeOK, procvars
<1>6. ListensUntilExit'
  BY <1>2 DEF IInv, ListensUntilExit, procvars
<1>7. QED
  BY <1>2, <1>4, <1>5, <1>6 DEF IInv

LEMMA LoadProgramKeeps ==
  ASSUME IInv, LoadProgram
  PROVE  IInv'
<1>1. /\ mode = "loading" /\ mode' \in {"saved", "panic", "lost"}
      /\ INTF' = (INTF /\ mode' # "panic")
      /\ UNCHANGED <<esp0, ring, typed, procvars>>
  BY DEF LoadProgram
<1>2. INTF' \in BOOLEAN /\ (~INTF' => ~INTF \/ mode' = "panic")
  BY <1>1, Zenon
<1>3. /\ LaunchesAddUp' /\ OnlyFirstFreed' /\ CurrentIsFresh' /\ WordsInFront' /\ NextIsFree'
      /\ TypeOK'
  <2>1. UNCHANGED <<esp0, ring, typed, procvars>> /\ mode' \in Modes
    BY <1>1 DEF Modes
  <2>2. QED
    BY <1>1, <1>2, <2>1, ProcessesAlone DEF IInv, TypeOK
<1>4. LinesAddUp'
  BY <1>1 DEF IInv, LinesAddUp, TypeOK, procvars
<1>5. ListensUntilExit'
  <2>1. UNCHANGED freed /\ mode' # "user" /\ mode \notin {"panic", "lost"}
    BY <1>1 DEF procvars
  <2>2. ~INTF => freed # <<>>
    BY <2>1, Zenon DEF IInv, ListensUntilExit
  <2>3. QED
    BY <1>2, <2>1, <2>2, Zenon DEF ListensUntilExit
<1>6. QED
  BY <1>3, <1>4, <1>5 DEF IInv

LEMMA MakeProcessKeeps ==
  ASSUME IInv, MakeProcess
  PROVE  IInv'
<1>1. MaxTyped \in Nat \ {0}
  BY ProgramsAssumption
<1>2. /\ mode = "saved" /\ mode' = "made" /\ launches' = launches + 1
      /\ current' = IF Process[nextProcessIndex] = NULL THEN launches'
                    ELSE Process[nextProcessIndex]
      /\ Process' = [Process EXCEPT ![nextProcessIndex] = current']
      /\ UNCHANGED <<INTF, esp0, ring, typed, nextProcessIndex, freed>>
  BY DEF MakeProcess
<1>3. /\ Process \in [-MaxTyped .. 0 -> Wild .. MaxTyped] /\ nextProcessIndex \in -MaxTyped .. 0
      /\ launches \in 0 .. MaxTyped /\ ring \in 0 .. MaxTyped /\ typed \in 0 .. MaxTyped
      /\ freed \in Seq(0 .. MaxTyped) /\ Len(freed) \in Nat
  BY DEF IInv, TypeOK
<1>4. launches = Len(freed) /\ launches < MaxTyped /\ nextProcessIndex = 0 - Len(freed)
  BY <1>1, <1>2, <1>3 DEF IInv, LinesAddUp, LaunchesAddUp
<1>5. current' \in {Wild, launches'} /\ current' \in Wild .. MaxTyped
  BY <1>1, <1>2, <1>3, <1>4 DEF IInv, NextIsFree, NULL, Wild
<1>6. TypeOK'
  <2>1. Process' \in [-MaxTyped .. 0 -> Wild .. MaxTyped]
    BY <1>2, <1>3, <1>5
  <2>2. launches' \in 0 .. MaxTyped
    BY <1>1, <1>2, <1>3, <1>4
  <2>3. QED
    BY <1>2, <1>5, <2>1, <2>2 DEF IInv, TypeOK, Modes
<1>7. LinesAddUp' /\ LaunchesAddUp' /\ CurrentIsFresh' /\ NextIsFree'
  BY <1>2, <1>3, <1>4, <1>5 DEF IInv, LinesAddUp, LaunchesAddUp, CurrentIsFresh, NextIsFree
<1>8. OnlyFirstFreed'
  <2>1. CASE freed = <<>>
    <3>0. Len(freed) = 0
      BY <2>1
    <3>1. launches = 0 /\ nextProcessIndex = 0 /\ launches' = 1
      <4>1. launches' = launches + 1 /\ launches = Len(freed) /\ nextProcessIndex = 0 - Len(freed)
        BY <1>2, <1>4
      <4>2. QED
        BY <3>0, <4>1
    <3>2. Process[0] = NULL
      BY <2>1, <3>1 DEF IInv, OnlyFirstFreed
    <3>3. Process'[0] = 1
      BY <1>1, <1>2, <1>3, <3>1, <3>2
    <3>4. QED
      BY <1>2, <2>1, <3>1, <3>3 DEF OnlyFirstFreed
  <2>2. CASE freed # <<>>
    <3>1. nextProcessIndex # 0 /\ 0 \in -MaxTyped .. 0
      BY <1>1, <1>3, <1>4, <2>2
    <3>2. Process'[0] = Process[0]
      BY <1>2, <1>3, <3>1
    <3>3. QED
      BY <1>2, <2>2, <3>2 DEF IInv, OnlyFirstFreed
  <2>3. QED
    BY <2>1, <2>2
<1>9. WordsInFront'
  BY <1>2, <1>3 DEF IInv, WordsInFront
<1>10. ListensUntilExit'
  BY <1>2 DEF IInv, ListensUntilExit
<1>11. QED
  BY <1>2, <1>6, <1>7, <1>8, <1>9, <1>10 DEF IInv

LEMMA RunProcessKeeps ==
  ASSUME IInv, RunProcess
  PROVE  IInv'
<1>1. /\ mode = "made" /\ mode' \in {"user", "lost"} /\ INTF'
      /\ INTF' = TRUE /\ UNCHANGED <<esp0, ring, typed, procvars>>
  BY DEF RunProcess
<1>2. /\ LaunchesAddUp' /\ OnlyFirstFreed' /\ CurrentIsFresh' /\ WordsInFront' /\ NextIsFree'
      /\ TypeOK'
  BY <1>1, ProcessesAlone DEF IInv, TypeOK, Modes
<1>3. LinesAddUp' /\ ListensUntilExit'
  BY <1>1 DEF IInv, LinesAddUp, ListensUntilExit, procvars
<1>4. QED
  BY <1>1, <1>2, <1>3 DEF IInv

\* The exit of the n-th program frees Process[0], the first time its own.
LEMMA ExitKeeps ==
  ASSUME IInv, Exit
  PROVE  IInv'
<1>1. MaxTyped \in Nat \ {0}
  BY ProgramsAssumption
<1>2. /\ mode = "user" /\ mode' \in {"returned", "lost"} /\ esp0' = "word" /\ INTF' = FALSE
      /\ UNCHANGED <<current, launches, ring, typed>>
      /\ freed' = Append(freed, Process[0])
      /\ Process' = [Process EXCEPT ![nextProcessIndex] = NULL]
      /\ nextProcessIndex' = nextProcessIndex - 1
  BY ArrivalsAre DEF Exit, IInv, KillProcess
<1>3. /\ Process \in [-MaxTyped .. 0 -> Wild .. MaxTyped] /\ nextProcessIndex \in -MaxTyped .. 0
      /\ launches \in 0 .. MaxTyped /\ ring \in 0 .. MaxTyped /\ typed \in 0 .. MaxTyped
      /\ freed \in Seq(0 .. MaxTyped) /\ Len(freed) \in Nat
      /\ (freed = <<>> <=> Len(freed) = 0)
  BY DEF IInv, TypeOK
<1>4. /\ launches = Len(freed) + 1 /\ nextProcessIndex = 0 - Len(freed)
      /\ nextProcessIndex' \in -MaxTyped .. 0 /\ nextProcessIndex' < nextProcessIndex
  BY <1>1, <1>2, <1>3 DEF IInv, LaunchesAddUp
<1>5. Process[0] = IF freed = <<>> THEN 1 ELSE NULL
  BY <1>3, <1>4 DEF IInv, OnlyFirstFreed
<1>6. /\ freed' \in Seq(0 .. MaxTyped) /\ Len(freed') = Len(freed) + 1
      /\ \A i \in 1 .. Len(freed) : freed'[i] = freed[i]
      /\ freed'[Len(freed) + 1] = Process[0] /\ freed' # <<>>
  <2>1. Process[0] \in 0 .. MaxTyped
    BY <1>1, <1>5 DEF NULL
  <2>2. QED
    BY <1>2, <1>3, <2>1
<1>7. Process' \in [-MaxTyped .. 0 -> Wild .. MaxTyped]
  BY <1>1, <1>2, <1>3 DEF NULL, Wild
<1>8. TypeOK'
  BY <1>2, <1>4, <1>6, <1>7 DEF IInv, TypeOK, Modes
<1>9. LinesAddUp' /\ LaunchesAddUp' /\ CurrentIsFresh' /\ ListensUntilExit'
  <2>1. LinesAddUp' /\ CurrentIsFresh'
    BY <1>2 DEF IInv, LinesAddUp, CurrentIsFresh
  <2>2. nextProcessIndex' = 0 - Len(freed') /\ launches' = Len(freed')
    BY <1>2, <1>3, <1>4, <1>6
  <2>3. LaunchesAddUp'
    BY <1>2, <2>2 DEF LaunchesAddUp
  <2>4. ListensUntilExit'
    BY <1>2, <1>6 DEF ListensUntilExit
  <2>5. QED
    BY <2>1, <2>3, <2>4
<1>10. OnlyFirstFreed'
  <2>1. \A i \in 1 .. Len(freed') : freed'[i] = IF i = 1 THEN 1 ELSE NULL
    BY <1>3, <1>5, <1>6 DEF IInv, OnlyFirstFreed
  <2>2. Process'[0] = NULL
    <3>1. 0 \in -MaxTyped .. 0
      BY <1>1
    <3>2. nextProcessIndex = 0 => Process'[0] = NULL
      BY <1>2, <1>3, <3>1
    <3>3. nextProcessIndex # 0 => Process'[0] = Process[0]
      BY <1>2, <1>3, <3>1
    <3>4. nextProcessIndex # 0 => freed # <<>>
      BY <1>3, <1>4
    <3>5. QED
      BY <1>5, <3>2, <3>3, <3>4
  <2>3. QED
    BY <1>6, <2>1, <2>2 DEF OnlyFirstFreed
<1>11. WordsInFront' /\ NextIsFree'
  BY <1>2, <1>3, <1>4 DEF IInv, WordsInFront, NextIsFree
<1>12. QED
  BY <1>2, <1>8, <1>9, <1>10, <1>11 DEF IInv

LEMMA BackInShellKeeps ==
  ASSUME IInv, BackInShell
  PROVE  IInv'
<1>1. /\ mode = "returned" /\ mode' = "shell" /\ esp0' = "word"
      /\ UNCHANGED <<INTF, ring, typed, procvars>>
  BY DEF BackInShell
<1>2. /\ LaunchesAddUp' /\ OnlyFirstFreed' /\ CurrentIsFresh' /\ WordsInFront' /\ NextIsFree'
      /\ TypeOK'
  BY <1>1, ProcessesAlone DEF IInv, TypeOK, Modes
<1>3. LinesAddUp' /\ ListensUntilExit'
  BY <1>1 DEF IInv, LinesAddUp, ListensUntilExit, procvars
<1>4. QED
  BY <1>1, <1>2, <1>3 DEF IInv

LEMMA Invariance == Spec => []IInv
<1>1. Init => IInv
  BY Initially
<1>2. IInv /\ [Next]_vars => IInv'
  <2> SUFFICES ASSUME IInv, [Next]_vars PROVE IInv'
    OBVIOUS
  <2>1. CASE Interrupt
    BY <2>1, InterruptKeeps
  <2>2. CASE \E id \in Calls : SystemCall(id)
    BY <2>2, SystemCallKeeps
  <2>3. CASE Exception
    BY <2>3, ExceptionKeeps
  <2>4. CASE ReadLine \/ LoadProgram \/ MakeProcess \/ RunProcess
    BY <2>4, ReadLineKeeps, LoadProgramKeeps, MakeProcessKeeps, RunProcessKeeps
  <2>5. CASE Exit \/ BackInShell
    BY <2>5, ExitKeeps, BackInShellKeeps
  <2>6. CASE UNCHANGED vars
    BY <2>6 DEF vars, IInv, TypeOK, ListensUntilExit, LinesAddUp, LaunchesAddUp, OnlyFirstFreed,
       CurrentIsFresh, WordsInFront, NextIsFree, NULL
  <2>7. QED
    BY <2>1, <2>2, <2>3, <2>4, <2>5, <2>6 DEF Next
<1>3. QED
  BY <1>1, <1>2, PTL DEF Spec

-----------------------------------------------------------------------------
(* Theorems *)

\* The types, with the words in front of Process[] that the index walks into.
THEOREM ProgramsTypeCorrect == Spec => []TypeOK
BY Invariance, PTL DEF IInv

\* Interrupts are on in programs, and off in the kernel only after an exit.
THEOREM Listens == Spec => []ListensUntilExit
BY Invariance, PTL DEF IInv

\* No process is freed twice or run after it was freed.
THEOREM FreedOnce == Spec => []ProcessesFreedOnce
<1>1. ASSUME IInv PROVE ProcessesFreedOnce
  <2>1. \A i \in 1 .. Len(freed) : freed[i] = IF i = 1 THEN 1 ELSE NULL
    BY <1>1 DEF IInv, OnlyFirstFreed
  <2>2. \A i, j \in 1 .. Len(freed) : i # j => freed[i] = NULL \/ freed[i] # freed[j]
    BY <2>1 DEF NULL
  <2>3. ASSUME mode \in {"made", "user"}
        PROVE  current # NULL /\ \A i \in 1 .. Len(freed) : freed[i] # current
    <3>1. current \in {Wild, launches} /\ launches = Len(freed) + 1 /\ Len(freed) \in Nat
      BY <1>1, <2>3 DEF IInv, TypeOK, CurrentIsFresh, LaunchesAddUp
    <3>2. QED
      BY <2>1, <3>1 DEF NULL, Wild
  <2>4. QED
    BY <2>2, <2>3 DEF ProcessesFreedOnce
<1>2. QED
  BY Invariance, <1>1, PTL
=============================================================================
