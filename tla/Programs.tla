------------------------------ MODULE Programs ------------------------------
(***************************************************************************)
(* Running a user program: the shell loads it, saves its stack, makes a    *)
(* process and jumps to user mode (EnterShell, makeProcess,                *)
(* Jump_usermode); interrupts and system calls come back into the kernel   *)
(* on the stack the TSS names (i686_ISR_Handler, syscallHandler); the exit *)
(* call frees the process and jumps back behind Jump_usermode (systemExit, *)
(* killProcess, retToKernel).                                              *)
(* Keys arrive by interrupt at any time interrupts are enabled; those the  *)
(* shell has not read wait in the keyboard's ring.                         *)
(***************************************************************************)
EXTENDS Integers, Sequences

CONSTANTS MaxTyped,     \* bound: the command lines typed
          Calls         \* the values of AX programs make calls with

MAX_SYSCALLS == 65535   \* UINT16_MAX: syscalls[] has no entry of that number
SYSCALL_EXIT == 2
Registered   == 0 .. 4  \* read, write, exit, open, close

ASSUME ProgramsAssumption == MaxTyped \in Nat \ {0} /\ Calls \subseteq 0 .. MAX_SYSCALLS

NULL == 0
Wild == -1              \* a word that is not a process: who knows where it points

Modes == {"shell", "loading", "saved", "made", "user", "returned", "panic", "lost"}

VARIABLES
  mode,             \* where the one thread of control is
  INTF,             \* the interrupt flag
  esp0,             \* the kernel stack of the TSS: "kernel" for stack_top, else "word",
                    \* a word off some stack, or "user", the program's stack pointer
  ring,             \* the command lines that wait in the keyboard's ring
  Process,          \* Process[] and the words in front of it; n: the block of launch n
  nextProcessIndex,
  current,          \* the process the shell runs
  freed,            \* ghost: what has been passed to free, in order
  typed, launches   \* ghosts: the lines typed, the programs launched

vars == <<mode, INTF, esp0, ring, Process, nextProcessIndex, current,
          freed, typed, launches>>

procvars == <<Process, nextProcessIndex, current, freed, launches>>

\* The shell's loop is reached with interrupts enabled, after the interrupts
\* of the keys KernelStart waits for (PressAnyKeyLoop), which have moved esp0
\* from where write_tss put it; what lies in front of Process[] in memory is
\* not known.
Init ==
  /\ mode = "shell" /\ INTF = TRUE /\ esp0 = "word"
  /\ ring = 0 /\ typed = 0
  /\ Process \in {[[i \in -MaxTyped .. 0 |-> w] EXCEPT ![0] = NULL] : w \in {NULL, Wild}}
  /\ nextProcessIndex = 0 /\ current = NULL /\ freed = <<>> /\ launches = 0

Stopped == mode \in {"panic", "lost"}

-----------------------------------------------------------------------------
(* Interrupts. i686_ISR_Handler begins with set_kernel_stack(regs->esp).   *)
(* The processor pushes ESP only when it comes from user mode, where it is *)
(* the user's; otherwise regs->esp is a word of whatever was interrupted.  *)

\* Arriving from user mode, the processor takes its stack from the TSS. On a
\* stack at an unknown address, the kernel may or may not survive.
Arrivals(good) == IF esp0 = "word" THEN {good, "lost"} ELSE {good}

Keys == IF typed < MaxTyped THEN {0, 1} ELSE {0}

\* The timer, or the keyboard with the last key of a line.
Interrupt ==
  /\ INTF /\ ~Stopped
  /\ IF mode = "user"
     THEN mode' \in Arrivals("user") /\ esp0' = "user"
     ELSE mode' = mode /\ esp0' = "word"
  /\ \E k \in Keys : ring' = ring + k /\ typed' = typed + k
  /\ UNCHANGED <<INTF, procvars>>

\* Any other call comes back with iret, which restores the flags. A call
\* nobody has registered panics; entry 65535 lies behind the array.
MutSystemCall(id) ==
  /\ mode = "user" /\ id # SYSCALL_EXIT
  /\ mode' \in UNION {Arrivals(m) : m \in
       IF id \notin Registered
       THEN {"panic"} \cup (IF id = MAX_SYSCALLS THEN {"lost"} ELSE {}) ELSE {"user"}}
  /\ esp0' = "user" /\ INTF' = FALSE
  /\ UNCHANGED <<ring, typed, procvars>>
SystemCall(id) ==
  /\ mode = "user" /\ id # SYSCALL_EXIT
  /\ mode' \in UNION {Arrivals(m) : m \in
       IF id \notin Registered
       THEN {"panic"} \cup (IF id = MAX_SYSCALLS THEN {"lost"} ELSE {}) ELSE {"user"}}
  /\ esp0' = "user" /\ INTF' = (mode' = "user")
  /\ UNCHANGED <<ring, typed, procvars>>

\* An exception of the program finds no handler: i686_Panic.
Exception ==
  /\ mode = "user"
  /\ mode' \in Arrivals("panic")
  /\ esp0' = "user" /\ INTF' = FALSE
  /\ UNCHANGED <<ring, typed, procvars>>

-----------------------------------------------------------------------------
(* The shell *)

\* ReadLine polls the ring, with interrupts enabled or not.
MutReadLine ==
  /\ mode = "shell" /\ ring > 0 /\ INTF
  /\ ring' = ring - 1
  /\ mode' = "loading"
  /\ UNCHANGED <<INTF, esp0, typed, procvars>>
ReadLine ==
  /\ mode = "shell" /\ ring > 0
  /\ ring' = ring - 1
  /\ mode' = "loading"
  /\ UNCHANGED <<INTF, esp0, typed, procvars>>

\* Between the line and the process lie the buffers for the paths, which the
\* heap may have no room for (a panic); ".bin", appended to a word inside the
\* line; the directory, read through pointers nobody has set; and as many
\* bytes of the buffer as bytesRead says, set or not, copied to the program's
\* place. Any of these may overwrite memory. Whatever there is afterwards is
\* what runs. The loop that reads the file need not end.
LoadProgram ==
  /\ mode = "loading"
  /\ mode' \in {"saved", "panic", "lost"}
  /\ INTF' = (INTF /\ mode' # "panic")
  /\ UNCHANGED <<esp0, ring, typed, procvars>>

\* pusha, kernelStack = esp and makeProcess, which allocates a process only
\* if the word at nextProcessIndex is NULL.
MakeProcess ==
  /\ mode = "saved"
  /\ launches' = launches + 1
  /\ current' = IF Process[nextProcessIndex] = NULL THEN launches' ELSE Process[nextProcessIndex]
  /\ Process' = [Process EXCEPT ![nextProcessIndex] = current']
  /\ mode' = "made"
  /\ UNCHANGED <<INTF, esp0, ring, typed, nextProcessIndex, freed>>

\* A process at an unknown address has just been written to. Jump_usermode
\* enters user mode with the interrupt flag set.
RunProcess ==
  /\ mode = "made"
  /\ mode' \in {"user"} \cup (IF current = Wild THEN {"lost"} ELSE {})
  /\ INTF' = TRUE
  /\ UNCHANGED <<esp0, ring, typed, procvars>>

\* killProcess(0): it frees Process[0] whatever runs, and clears and leaves
\* the word at nextProcessIndex.
MutKillProcess ==
  /\ freed' = Append(freed, Process[0])
  /\ Process' = Process
  /\ nextProcessIndex' = nextProcessIndex
MutKillProcessUp ==
  /\ freed' = Append(freed, Process[0])
  /\ Process' = [Process EXCEPT ![nextProcessIndex] = NULL]
  /\ nextProcessIndex' = nextProcessIndex + 1
KillProcess ==
  /\ freed' = Append(freed, Process[0])
  /\ Process' = [Process EXCEPT ![nextProcessIndex] = NULL]
  /\ nextProcessIndex' = nextProcessIndex - 1

\* systemExit, reached through an interrupt gate, so with interrupts off,
\* and left with a jump: no iret restores the flag. Its int 2 is an
\* interrupt from the kernel.
Exit ==
  /\ mode = "user"
  /\ mode' \in Arrivals("returned") /\ esp0' = "word"
  /\ KillProcess
  /\ INTF' = FALSE
  /\ UNCHANGED <<ring, typed, current, launches>>

\* Behind runProcess: int 2, IDT_Load, ps2_probe, and on to the next line.
BackInShell ==
  /\ mode = "returned"
  /\ mode' = "shell"
  /\ esp0' = "word"
  /\ UNCHANGED <<INTF, ring, typed, procvars>>

Next ==
  \/ Interrupt
  \/ \E id \in Calls : SystemCall(id)
  \/ Exception
  \/ ReadLine \/ LoadProgram \/ MakeProcess \/ RunProcess
  \/ Exit \/ BackInShell

Shell == ReadLine \/ MakeProcess \/ RunProcess \/ BackInShell

\* The kernel's own steps are taken, but a load need not come to its end, and
\* a program need never make a call.
Spec == Init /\ [][Next]_vars /\ WF_vars(Shell)

-----------------------------------------------------------------------------
(* Properties *)

\* Every variable has its type.
TypeOK ==
  /\ mode \in Modes /\ INTF \in BOOLEAN
  /\ esp0 \in {"kernel", "word", "user"}
  /\ {ring, typed, launches} \subseteq 0 .. MaxTyped
  /\ Process \in [-MaxTyped .. 0 -> Wild .. MaxTyped]
  /\ nextProcessIndex \in -MaxTyped .. 0
  /\ current \in Wild .. MaxTyped
  /\ freed \in Seq(0 .. MaxTyped)

\* Programs are always interruptible, and the kernel hears the keyboard until
\* a program has exited; afterwards only while a program runs.
ListensUntilExit ==
  /\ mode = "user" => INTF
  /\ ~INTF => mode \in {"panic", "lost"} \/ freed # <<>>

\* However many programs run and exit, the process a program runs as has not
\* been freed, and none is freed twice, although killProcess always frees
\* Process[0] while the next process goes into the word in front of it.
ProcessesFreedOnce ==
  /\ mode \in {"made", "user"} => current # NULL /\ \A i \in 1 .. Len(freed) : freed[i] # current
  /\ \A i, j \in 1 .. Len(freed) : i # j => freed[i] = NULL \/ freed[i] # freed[j]

\* A line typed ahead while a program ran is read once the program has
\* returned, although interrupts are then off, and its program looked for.
\* (Whether that program runs is another matter: see LoadProgram.)
TypedAheadIsRead == (mode = "returned" /\ ring > 0) ~> mode = "loading"

\* gdt.h calls esp0 the "Stack pointer for ring 0 (ISR stack)", and gdt.c
\* sets it once to stack_top, "the kernel stack pointer": while a program
\* runs, it names the kernel's stack.
RingZeroStack == mode = "user" => esp0 = "kernel"
=============================================================================
