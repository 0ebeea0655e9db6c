------------------------------ MODULE Interrupts ------------------------------
(***************************************************************************)
(* Device interrupts and the timer: the two 8259 controllers as i8259.c    *)
(* and irq.c leave them, the start-up code that registers handlers line by *)
(* line and then waits on the timer (pit.c), and the path of an interrupt  *)
(* through i686_IRQ_Handler. Handlers end their interrupt themselves, and  *)
(* i686_IRQ_Handler ends it again. Both PS/2 ports and a disk are there.   *)
(***************************************************************************)
EXTENDS Integers, Sequences

CONSTANTS Sleeps,     \* the milliseconds sleep_ms is called with
          MaxTicks    \* bound: ticks counted while the processor is not halted

MILISECOND_PER_PIT_TICK == 2
CASCADE == 2          \* the line of the first controller the second one drives
TIMER == 0
KEYBOARD == 1

Lines == 0 .. 15
Devices == {0, 1, 12, 14, 15}   \* timer, keyboard, second PS/2 port, disks
ATA_PRIMARY_IRQ == 46           \* the vectors of the disks, not their lines
ATA_SECONDARY_IRQ == 47

ASSUME InterruptsAssumption ==
  /\ Sleeps \subseteq Nat
  /\ MaxTicks \in Nat
  /\ \A ms \in Sleeps : ms \div MILISECOND_PER_PIT_TICK < MaxTicks

\* What KernelStart does with interrupts: pit_init, keyboard_init and sti in
\* KernelInits, sleep_ms calls of the IDE driver in pciScan, ATA_init.
Register(irq) == [op |-> "register", irq |-> irq]
Script == <<Register(0), Register(1), Register(12), [op |-> "sti"], [op |-> "sleeps"],
            Register(ATA_PRIMARY_IRQ), Register(ATA_SECONDARY_IRQ), [op |-> "shell"]>>

VARIABLES
  INTF,           \* the interrupt flag
  mask,           \* the lines masked in the two mask registers
  irr, isr,       \* the lines requested, and those in service
  g_IRQHandlers,  \* the lines with a handler
  handling,       \* the interrupts being handled, the latest first
  at, step, data, \* the main thread: place in Script, in its operation, and a local
  timer_ticks, ticks,
  elapsed         \* ghost: timer interrupts handled since timer_wait began

chips == <<mask, irr, isr>>
main == <<at, step, data, ticks>>
vars == <<INTF, chips, g_IRQHandlers, handling, main, timer_ticks, elapsed>>

\* i686_IRQ_Initialize has masked every line, and interrupts are off.
Init ==
  /\ INTF = FALSE
  /\ mask = Lines /\ irr = {} /\ isr = {}
  /\ g_IRQHandlers = {}
  /\ handling = <<>>
  /\ at = 1 /\ step = "begin" /\ data = {} /\ ticks = 0
  /\ timer_ticks = 0 /\ elapsed = 0

Chip(irq) == IF irq < 8 THEN 0 .. 7 ELSE 8 .. 15

-----------------------------------------------------------------------------
(* The controllers *)

\* A device raises its line; a request is latched until it is accepted. The
\* timer's handler is much shorter than a tick.
Raise(irq) ==
  /\ irq = TIMER => /\ timer_ticks < (IF step = "halted" THEN MaxTicks + 1 ELSE MaxTicks)
                    /\ \A i \in 1 .. Len(handling) : handling[i].irq # TIMER
  /\ irq \notin irr
  /\ irr' = irr \cup {irq}
  /\ UNCHANGED <<INTF, mask, isr, g_IRQHandlers, handling, main, timer_ticks, elapsed>>

\* Within a controller a lower line goes first; the second controller's
\* lines stand at the place of the cascade line.
Rank(irq) == IF irq < 8 THEN 10 * irq ELSE 10 * CASCADE + irq

Pending == {i \in irr \ mask : i < 8 \/ CASCADE \notin mask}

InService(irq) == IF irq < 8 THEN {irq} ELSE {CASCADE, irq}

Deliverable(irq) ==
  /\ irq \in Pending
  /\ \A i \in Pending \ {irq} : Rank(irq) < Rank(i)
  /\ \A i \in isr : Rank(irq) < Rank(i)

\* The gates are interrupt gates: the processor clears the flag.
MutFlagInHandler == TRUE
FlagInHandler == FALSE

Accept(irq) ==
  /\ INTF /\ Deliverable(irq)
  /\ irr' = irr \ {irq}
  /\ isr' = isr \cup InService(irq)
  /\ handling' = <<[irq |-> irq, phase |-> "handler"]>> \o handling
  /\ INTF' = FlagInHandler
  /\ UNCHANGED <<mask, g_IRQHandlers, main, timer_ticks, elapsed>>

\* i8259_SendEOI: a controller told so ends the first line it has in service.
Ended(lines) == {i \in lines \cap isr : \A j \in lines \cap isr : i <= j}
i8259_SendEOI(irq) == isr' = isr \ (Ended(0 .. 7) \cup (IF irq >= 8 THEN Ended(8 .. 15) ELSE {}))

-----------------------------------------------------------------------------
(* i686_IRQ_Handler *)

Top == handling[1]

Phase(p) == handling' = <<[Top EXCEPT !.phase = p]>> \o Tail(handling)

\* The handler runs and ends the interrupt, but that of the keyboard returns
\* early when it waits for more bytes; without a handler there is a warning.
Counted(irq) == IF irq = TIMER THEN timer_ticks + 1 ELSE timer_ticks

CallHandler ==
  /\ handling # <<>> /\ Top.phase = "handler"
  /\ Phase("eoi")
  /\ IF Top.irq \in g_IRQHandlers
     THEN /\ timer_ticks' = Counted(Top.irq)
          /\ elapsed' = IF Top.irq = TIMER THEN elapsed + 1 ELSE elapsed
          /\ \/ i8259_SendEOI(Top.irq)
             \/ Top.irq = KEYBOARD /\ UNCHANGED isr
     ELSE UNCHANGED <<timer_ticks, elapsed, isr>>
  /\ UNCHANGED <<INTF, mask, irr, g_IRQHandlers, main>>

SendEndOfInterrupt ==
  /\ handling # <<>> /\ Top.phase = "eoi"
  /\ Phase("iret")
  /\ i8259_SendEOI(Top.irq)
  /\ UNCHANGED <<INTF, mask, irr, g_IRQHandlers, main, timer_ticks, elapsed>>

\* Back in the interrupted code; if that was a hlt, behind it.
MutAwake(s) == s
Awake(s) == IF s = "halted" THEN "check" ELSE s

Iret ==
  /\ handling # <<>> /\ Top.phase = "iret"
  /\ handling' = Tail(handling)
  /\ INTF' = TRUE
  /\ step' = Awake(step)
  /\ UNCHANGED <<chips, g_IRQHandlers, at, data, ticks, timer_ticks, elapsed>>

-----------------------------------------------------------------------------
(* The main thread, between interrupts *)

Runs(op) == handling = <<>> /\ Script[at].op = op

MutIndex(irq) == irq % 8
Index(irq) == irq

\* i686_IRQ_RegisterHandler returns at once when the number is no line.
MutIsLine(irq) == TRUE
IsLine(irq) == irq \in Lines

Refuse ==
  /\ Runs("register") /\ step = "begin" /\ ~IsLine(Script[at].irq)
  /\ at' = at + 1
  /\ UNCHANGED <<INTF, chips, g_IRQHandlers, handling, step, data, ticks, timer_ticks, elapsed>>

\* Otherwise it sets the handler and then the mask, an access to a register
\* at a time.
SetHandler ==
  /\ Runs("register") /\ step = "begin" /\ IsLine(Script[at].irq)
  /\ g_IRQHandlers' = g_IRQHandlers \cup {Index(Script[at].irq)}
  /\ step' = "read"
  /\ UNCHANGED <<INTF, chips, handling, at, data, ticks, timer_ticks, elapsed>>

MutUnmaskedAlone(lines, irq) == Chip(irq) \ {irq}
Unmasked(lines, irq) == lines \ {irq}

ReadMask ==
  /\ Runs("register") /\ step = "read"
  /\ data' = Unmasked(mask \cap Chip(Script[at].irq), Script[at].irq)
  /\ step' = "write"
  /\ UNCHANGED <<INTF, chips, g_IRQHandlers, handling, at, ticks, timer_ticks, elapsed>>

WriteMask ==
  /\ Runs("register") /\ step = "write"
  /\ mask' = (mask \ Chip(Script[at].irq)) \cup data
  /\ step' = "begin" /\ at' = at + 1
  /\ UNCHANGED <<INTF, irr, isr, g_IRQHandlers, handling, data, ticks, timer_ticks, elapsed>>

EnableInterrupts ==
  /\ Runs("sti")
  /\ INTF' = TRUE
  /\ at' = at + 1
  /\ UNCHANGED <<chips, g_IRQHandlers, handling, step, data, ticks, timer_ticks, elapsed>>

\* sleep_ms, and the start of timer_wait, which sets the count back.
MutStartCount == timer_ticks
StartCount == 0

sleep_ms(ms) ==
  /\ Runs("sleeps") /\ step = "begin"
  /\ ticks' = ms \div MILISECOND_PER_PIT_TICK
  /\ timer_ticks' = StartCount /\ elapsed' = 0
  /\ step' = "check"
  /\ UNCHANGED <<INTF, chips, g_IRQHandlers, handling, at, data>>

\* The loop of timer_wait: it looks at the count, and halts.
CheckTicks ==
  /\ Runs("sleeps") /\ step = "check"
  /\ step' = IF timer_ticks < ticks THEN "hlt" ELSE "begin"
  /\ UNCHANGED <<INTF, chips, g_IRQHandlers, handling, at, data, ticks, timer_ticks, elapsed>>

Halt ==
  /\ Runs("sleeps") /\ step = "hlt"
  /\ step' = "halted"
  /\ UNCHANGED <<INTF, chips, g_IRQHandlers, handling, at, data, ticks, timer_ticks, elapsed>>

DoneSleeping ==
  /\ Runs("sleeps") /\ step = "begin"
  /\ at' = at + 1
  /\ UNCHANGED <<INTF, chips, g_IRQHandlers, handling, step, data, ticks, timer_ticks, elapsed>>

Main ==
  \/ Refuse \/ SetHandler \/ ReadMask \/ WriteMask \/ EnableInterrupts
  \/ \E ms \in Sleeps : sleep_ms(ms)
  \/ CheckTicks \/ Halt \/ DoneSleeping

Handler == CallHandler \/ SendEndOfInterrupt \/ Iret

Next ==
  \/ \E irq \in Devices : Raise(irq) \/ Accept(irq)
  \/ Handler
  \/ Main

\* The timer does not stop; a pending interrupt is accepted at the next
\* instruction unless a more urgent one is; handlers end, and are short
\* enough for the main thread to advance between interrupts. It sleeps a
\* finite number of times.
Spec ==
  /\ Init /\ [][Next]_vars
  /\ WF_vars(Raise(TIMER)) /\ WF_vars(Handler) /\ SF_vars(Main) /\ SF_vars(DoneSleeping)
  /\ \A irq \in Devices : SF_vars(Accept(irq))

-----------------------------------------------------------------------------
(* Properties *)

\* Every variable has its type.
TypeOK ==
  /\ INTF \in BOOLEAN
  /\ mask \subseteq Lines /\ irr \subseteq Devices /\ isr \subseteq Lines
  /\ g_IRQHandlers \subseteq Devices
  /\ handling \in Seq([irq : Devices, phase : {"handler", "eoi", "iret"}])
  /\ at \in 1 .. Len(Script)
  /\ step \in {"begin", "read", "write", "check", "hlt", "halted"}
  /\ data \subseteq Lines
  /\ timer_ticks \in 0 .. MaxTicks + 1 /\ ticks \in Nat /\ elapsed \in 0 .. MaxTicks + 1

\* Most interrupts are ended twice, by their handler and by i686_IRQ_Handler,
\* with a command that names no line: still, neither ever ends another
\* interrupt, and none stays in service when the main thread runs.
SecondEoiEndsNothing ==
  /\ isr \subseteq (IF handling # <<>> THEN InService(Top.irq) ELSE {})
  /\ handling # <<>> /\ Top.phase = "handler" => InService(Top.irq) \subseteq isr
  /\ handling # <<>> /\ Top.phase = "iret" => isr = {}

\* timer_wait does not return before as many timer interrupts as it was asked
\* for have been handled since it was called.
WaitsLongEnough ==
  [][step = "check" /\ step' = "begin" => elapsed >= ticks]_vars

\* timer_wait returns, although a tick may come between its look at the count
\* and the hlt.
WaitEnds == step = "check" ~> step = "begin"

Served(irq) == \E i \in 1 .. Len(handling) : handling[i].irq = irq

\* A request on an unmasked line of the first controller is served.
RequestsAreServed == \A irq \in {0, 1} : irq \in irr \ mask ~> Served(irq)

\* sleep_ms says of its division "Round up".
SleepRoundsUp ==
  [][\A ms \in Sleeps : sleep_ms(ms) => ticks' * MILISECOND_PER_PIT_TICK >= ms]_vars

\* i8259_Configure masks all interrupts "until they are enabled by the device
\* driver", which i686_IRQ_RegisterHandler does: then every request is served.
RegisteredIsServed ==
  \A irq \in Devices : irq \in irr \cap g_IRQHandlers ~> Served(irq)
=============================================================================
