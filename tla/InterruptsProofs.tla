--------------------------- MODULE InterruptsProofs ---------------------------
(***************************************************************************)
(* For every bound on ticks and every set of sleeps: the second end of an  *)
(* interrupt ends nothing else, and timer_wait never returns too early.    *)
(***************************************************************************)
EXTENDS Interrupts, SequenceTheorems, TLAPS

Handled == [irq : Devices, phase : {"handler", "eoi", "iret"}]

-----------------------------------------------------------------------------
(* The inductive invariant. Interrupts are off in handlers, so at most one *)
(* interrupt is handled; what it has in service depends on how far it is.  *)

OneAtATime ==
  /\ Len(handling) <= 1
  /\ handling # <<>> => ~INTF

ServiceInStep ==
  /\ handling = <<>> => isr = {}
  /\ handling # <<>> =>
       /\ isr \subseteq InService(Top.irq)
       /\ Top.phase = "handler" => InService(Top.irq) \subseteq isr
       /\ Top.phase = "iret" => isr = {}

\* A line is unmasked after its handler was stored; the two accesses to the
\* mask register lie between, in which nobody else changes it.
UnmaskedHaveHandlers == Lines \ mask \subseteq g_IRQHandlers

InFlightHaveHandlers == \A i \in 1 .. Len(handling) : handling[i].irq \in g_IRQHandlers

RegistersInStep ==
  /\ step \in {"read", "write"} =>
       /\ Script[at].op = "register" /\ IsLine(Script[at].irq)
       /\ Script[at].irq \in g_IRQHandlers
  /\ step = "write" => data = (mask \cap Chip(Script[at].irq)) \ {Script[at].irq}

\* A tick that is requested or about to be counted still fits.
TimerUnderWay ==
  \/ TIMER \in irr
  \/ handling # <<>> /\ Top.irq = TIMER /\ Top.phase = "handler"

TicksFit ==
  /\ elapsed = timer_ticks
  /\ TimerUnderWay => timer_ticks <= MaxTicks
  /\ ~(TIMER \in irr /\ handling # <<>> /\ Top.irq = TIMER)

IInv ==
  /\ TypeOK
  /\ OneAtATime
  /\ ServiceInStep
  /\ UnmaskedHaveHandlers
  /\ InFlightHaveHandlers
  /\ RegistersInStep
  /\ TicksFit

-----------------------------------------------------------------------------
(* The script, and the handled interrupt *)

LEMMA ScriptSteps ==
  /\ Len(Script) = 8
  /\ Script[8].op = "shell"
  /\ \A k \in 1 .. 8 :
       Script[k].op = "register" =>
         /\ Script[k].irq \in Int
         /\ IsLine(Script[k].irq) => Script[k].irq \in Devices
BY DEF Script, Register, ATA_PRIMARY_IRQ, ATA_SECONDARY_IRQ, IsLine, Lines, Devices

\* There is only the interrupt at the top.
LEMMA TopOnly ==
  ASSUME IInv, handling # <<>>
  PROVE  /\ Len(handling) = 1 /\ Top \in Handled /\ Top.irq \in Devices
         /\ Tail(handling) = <<>> /\ Top.irq \in g_IRQHandlers
<1>1. handling \in Seq(Handled)
  BY DEF IInv, TypeOK, Handled
<1>2. Len(handling) = 1
  <2>1. Len(handling) \in Nat \ {0}
    BY <1>1, EmptySeq
  <2>2. Len(handling) <= 1
    BY DEF IInv, OneAtATime
  <2>3. QED
    BY <2>1, <2>2
<1>3. Top \in Handled
  BY <1>1, <1>2 DEF Top
<1>4. Tail(handling) = <<>>
  <2>1. Tail(handling) \in Seq(Handled) /\ Len(Tail(handling)) = 0
    BY <1>1, <1>2, HeadTailProperties
  <2>2. QED
    BY <2>1, EmptySeq
<1>5. Top.irq \in g_IRQHandlers
  BY <1>2 DEF IInv, InFlightHaveHandlers, Top
<1>6. QED
  BY <1>2, <1>3, <1>4, <1>5 DEF Handled

\* The interrupt at the top moves to another phase.
LEMMA PhaseSet ==
  ASSUME IInv, handling # <<>>, NEW p \in {"handler", "eoi", "iret"}, Phase(p)
  PROVE  /\ handling' \in Seq(Handled) /\ Len(handling') = 1 /\ handling' # <<>>
         /\ Top'.irq = Top.irq /\ Top'.phase = p
<1> DEFINE h == [Top EXCEPT !.phase = p]
<1>1. h \in Handled /\ h.irq = Top.irq /\ h.phase = p
  BY TopOnly DEF Handled
<1>2. handling' = <<h>> \o <<>>
  BY TopOnly DEF Phase
<1> HIDE DEF h
<1>3. handling' = <<h>>
  BY <1>1, <1>2
<1>4. QED
  BY <1>1, <1>3 DEF Top

\* The end of interrupt takes what is in service from the interrupt at the
\* top and from no other; told twice, it takes nothing more.
LEMMA EndOfInterrupt ==
  ASSUME IInv, handling # <<>>, i8259_SendEOI(Top.irq)
  PROVE  isr' = {}
<1>1. Top.irq \in Devices /\ isr \subseteq InService(Top.irq) /\ isr \subseteq Lines
  BY TopOnly DEF IInv, ServiceInStep, TypeOK
<1>2. CASE Top.irq < 8
  <2>1. isr \subseteq {Top.irq} /\ Top.irq \in 0 .. 7
    BY <1>1, <1>2 DEF InService, Devices
  <2>2. Ended(0 .. 7) = isr
    BY <2>1 DEF Ended
  <2>3. QED
    BY <1>2, <2>2 DEF i8259_SendEOI
<1>3. CASE ~(Top.irq < 8)
  <2>1. isr \subseteq {2, Top.irq} /\ Top.irq \in 8 .. 15 /\ Top.irq >= 8
    BY <1>1, <1>3 DEF InService, Devices, CASCADE
  <2>2. Ended(0 .. 7) = isr \cap {2}
    BY <2>1 DEF Ended
  <2>3. Ended(8 .. 15) = isr \cap {Top.irq}
    BY <2>1 DEF Ended
  <2>4. QED
    BY <2>1, <2>2, <2>3 DEF i8259_SendEOI
<1>4. QED
  BY <1>2, <1>3

-----------------------------------------------------------------------------

LEMMA InitIInv == Init => IInv
<1> SUFFICES ASSUME Init PROVE IInv
  OBVIOUS
<1>1. MaxTicks \in Nat
  BY InterruptsAssumption
<1>2. TypeOK
  <2>1. handling \in Seq([irq : Devices, phase : {"handler", "eoi", "iret"}])
    BY DEF Init
  <2>2. at \in 1 .. Len(Script)
    BY ScriptSteps DEF Init
  <2>3. timer_ticks \in 0 .. MaxTicks + 1 /\ ticks \in Nat /\ elapsed \in 0 .. MaxTicks + 1
    BY <1>1 DEF Init
  <2>4. step \in {"begin", "read", "write", "check", "hlt", "halted"} /\ INTF \in BOOLEAN
    BY DEF Init
  <2>5. QED
    BY <2>1, <2>2, <2>3, <2>4 DEF Init, TypeOK
<1>3. OneAtATime /\ ServiceInStep /\ InFlightHaveHandlers /\ UnmaskedHaveHandlers
  BY DEF Init, OneAtATime, ServiceInStep, InFlightHaveHandlers, UnmaskedHaveHandlers
<1>4. RegistersInStep /\ TicksFit
  BY <1>1 DEF Init, RegistersInStep, TicksFit, TimerUnderWay, TIMER
<1>5. QED
  BY <1>2, <1>3, <1>4 DEF IInv

\* A request waits for its turn; the timer's only comes when no tick is being
\* handled.
LEMMA RaiseIInv ==
  ASSUME IInv, NEW irq \in Devices, Raise(irq)
  PROVE  IInv'
<1>1. UNCHANGED <<INTF, mask, isr, g_IRQHandlers, handling, at, step, data, ticks, timer_ticks, elapsed>>
      /\ irr' = irr \cup {irq}
  BY DEF Raise, main
<1>2. TypeOK'
  BY <1>1 DEF IInv, TypeOK
<1>3. TicksFit'
  <2>1. CASE irq = TIMER
    <3>1. timer_ticks < MaxTicks + 1 /\ timer_ticks \in Int /\ MaxTicks \in Nat
      BY <2>1, InterruptsAssumption DEF Raise, IInv, TypeOK
    <3>2. handling # <<>> => Top.irq # TIMER
      BY <2>1, TopOnly DEF Raise, Top
    <3>3. QED
      BY <1>1, <3>1, <3>2 DEF IInv, TicksFit, TimerUnderWay, Top
  <2>2. CASE irq # TIMER
    BY <1>1, <2>2 DEF IInv, TicksFit, TimerUnderWay, Top
  <2>3. QED
    BY <2>1, <2>2
<1>4. OneAtATime' /\ ServiceInStep' /\ UnmaskedHaveHandlers' /\ InFlightHaveHandlers' /\ RegistersInStep'
  BY <1>1 DEF IInv, OneAtATime, ServiceInStep, UnmaskedHaveHandlers, InFlightHaveHandlers,
              RegistersInStep, Top
<1>5. QED
  BY <1>2, <1>3, <1>4 DEF IInv

\* Only an unmasked line interrupts, and only when no other interrupt is
\* handled and none is in service.
LEMMA AcceptIInv ==
  ASSUME IInv, NEW irq \in Devices, Accept(irq)
  PROVE  IInv'
<1> DEFINE h == [irq |-> irq, phase |-> "handler"]
<1>1. /\ handling = <<>> /\ isr = {} /\ irq \in irr \ mask
      /\ irr' = irr \ {irq} /\ isr' = InService(irq) /\ INTF' = FALSE
      /\ UNCHANGED <<mask, g_IRQHandlers, at, step, data, ticks, timer_ticks, elapsed>>
  BY DEF Accept, Deliverable, Pending, FlagInHandler, main, IInv, OneAtATime, ServiceInStep
<1>2. h \in Handled /\ h.irq = irq /\ h.phase = "handler"
  BY DEF Handled
<1>3. handling' = <<h>> \o <<>>
  BY <1>1 DEF Accept
<1> HIDE DEF h
<1>4. handling' = <<h>>
  BY <1>2, <1>3
<1>5. handling' \in Seq(Handled) /\ Len(handling') = 1 /\ handling' # <<>> /\ Top' = h /\ handling'[1] = h
  BY <1>2, <1>4 DEF Top
<1>6. irq \in Lines \ mask /\ irq \in g_IRQHandlers
  BY <1>1 DEF IInv, UnmaskedHaveHandlers, Devices, Lines
<1>7. TypeOK'
  <2>1. InService(irq) \subseteq Lines
    BY DEF InService, Devices, Lines, CASCADE
  <2>2. QED
    BY <1>1, <1>5, <2>1 DEF IInv, TypeOK, Handled
<1>8. OneAtATime' /\ ServiceInStep'
  BY <1>1, <1>2, <1>5 DEF OneAtATime, ServiceInStep, InService
<1>9. InFlightHaveHandlers'
  BY <1>1, <1>2, <1>5, <1>6 DEF InFlightHaveHandlers
<1>10. UnmaskedHaveHandlers' /\ RegistersInStep'
  BY <1>1 DEF IInv, UnmaskedHaveHandlers, RegistersInStep
<1>11. TicksFit'
  BY <1>1, <1>2, <1>5 DEF IInv, TicksFit, TimerUnderWay
<1>12. QED
  BY <1>7, <1>8, <1>9, <1>10, <1>11 DEF IInv

-----------------------------------------------------------------------------
(* The handler *)

LEMMA CallHandlerIInv ==
  ASSUME IInv, CallHandler
  PROVE  IInv'
<1>1. /\ handling # <<>> /\ Top.phase = "handler" /\ Phase("eoi")
      /\ UNCHANGED <<INTF, mask, irr, g_IRQHandlers, at, step, data, ticks>>
      /\ timer_ticks' = Counted(Top.irq)
      /\ elapsed' = IF Top.irq = TIMER THEN elapsed + 1 ELSE elapsed
      /\ i8259_SendEOI(Top.irq) \/ UNCHANGED isr
  BY TopOnly DEF CallHandler, main
<1>2. handling' \in Seq(Handled) /\ Len(handling') = 1 /\ handling' # <<>> /\ Top'.irq = Top.irq /\ Top'.phase = "eoi"
  BY <1>1, PhaseSet
<1>3. isr' \subseteq isr
  BY <1>1, EndOfInterrupt
<1>4. elapsed' = timer_ticks' /\ timer_ticks' \in 0 .. MaxTicks + 1
      /\ (Top.irq # TIMER => timer_ticks' = timer_ticks)
  BY <1>1, InterruptsAssumption DEF Counted, IInv, TicksFit, TimerUnderWay, TypeOK
<1>5. TypeOK'
  BY <1>1, <1>2, <1>3, <1>4 DEF IInv, TypeOK, Handled
<1>6. OneAtATime' /\ ServiceInStep'
  BY <1>1, <1>2, <1>3 DEF IInv, OneAtATime, ServiceInStep, InService
<1>7. InFlightHaveHandlers'
  BY <1>1, <1>2, TopOnly DEF InFlightHaveHandlers, Top
<1>8. UnmaskedHaveHandlers' /\ RegistersInStep'
  BY <1>1 DEF IInv, UnmaskedHaveHandlers, RegistersInStep
<1>9. TicksFit'
  BY <1>1, <1>2, <1>4 DEF IInv, TicksFit, TimerUnderWay
<1>10. QED
  BY <1>5, <1>6, <1>7, <1>8, <1>9 DEF IInv

LEMMA SendEndOfInterruptIInv ==
  ASSUME IInv, SendEndOfInterrupt
  PROVE  IInv'
<1>1. /\ handling # <<>> /\ Phase("iret") /\ isr' = {}
      /\ UNCHANGED <<INTF, mask, irr, g_IRQHandlers, at, step, data, ticks, timer_ticks, elapsed>>
  BY EndOfInterrupt DEF SendEndOfInterrupt, main
<1>2. handling' \in Seq(Handled) /\ Len(handling') = 1 /\ handling' # <<>> /\ Top'.irq = Top.irq /\ Top'.phase = "iret"
  BY <1>1, PhaseSet
<1>3. TypeOK'
  BY <1>1, <1>2 DEF IInv, TypeOK, Handled
<1>4. OneAtATime' /\ ServiceInStep'
  BY <1>1, <1>2 DEF IInv, OneAtATime, ServiceInStep
<1>5. InFlightHaveHandlers'
  BY <1>1, <1>2, TopOnly DEF InFlightHaveHandlers, Top
<1>6. UnmaskedHaveHandlers' /\ RegistersInStep'
  BY <1>1 DEF IInv, UnmaskedHaveHandlers, RegistersInStep
<1>7. TicksFit'
  BY <1>1, <1>2 DEF IInv, TicksFit, TimerUnderWay
<1>8. QED
  BY <1>3, <1>4, <1>5, <1>6, <1>7 DEF IInv

LEMMA IretIInv ==
  ASSUME IInv, Iret
  PROVE  IInv'
<1>1. /\ handling # <<>> /\ handling' = <<>> /\ isr = {} /\ step' = Awake(step)
      /\ UNCHANGED <<mask, irr, isr, g_IRQHandlers, at, data, ticks, timer_ticks, elapsed>> /\ INTF' = TRUE
  BY TopOnly DEF Iret, chips, IInv, ServiceInStep
<1>2. step' \in {"begin", "read", "write", "check", "hlt", "halted"}
      /\ (step' \in {"read", "write"} => step' = step)
  BY <1>1 DEF Awake, IInv, TypeOK
<1>3. TypeOK'
  BY <1>1, <1>2 DEF IInv, TypeOK
<1>4. OneAtATime' /\ ServiceInStep' /\ InFlightHaveHandlers'
  BY <1>1 DEF OneAtATime, ServiceInStep, InFlightHaveHandlers
<1>5. UnmaskedHaveHandlers' /\ RegistersInStep'
  BY <1>1, <1>2 DEF IInv, UnmaskedHaveHandlers, RegistersInStep
<1>6. TicksFit'
  BY <1>1 DEF IInv, TicksFit, TimerUnderWay
<1>7. QED
  BY <1>3, <1>4, <1>5, <1>6 DEF IInv

-----------------------------------------------------------------------------
(* The main thread, which runs when no interrupt is handled *)

\* What a step that leaves the controllers and the handlers alone preserves.
LEMMA MainOnly ==
  ASSUME IInv, handling = <<>>, UNCHANGED <<irr, isr, handling>>
  PROVE  OneAtATime' /\ ServiceInStep' /\ InFlightHaveHandlers'
BY DEF IInv, OneAtATime, ServiceInStep, InFlightHaveHandlers

LEMMA RegisterIInv ==
  ASSUME IInv, Refuse \/ SetHandler \/ ReadMask \/ WriteMask
  PROVE  IInv'
<1>1. /\ handling = <<>> /\ Script[at].op = "register" /\ at \in 1 .. 8
      /\ UNCHANGED <<INTF, irr, isr, handling, ticks, timer_ticks, elapsed>>
  BY ScriptSteps DEF Refuse, SetHandler, ReadMask, WriteMask, Runs, chips, IInv, TypeOK
<1> DEFINE irq == Script[at].irq
<1>2. irq \in Int /\ at + 1 \in 1 .. 8 /\ (IsLine(irq) => irq \in Devices)
  BY <1>1, ScriptSteps
<1>3. OneAtATime' /\ ServiceInStep' /\ InFlightHaveHandlers'
  BY <1>1, MainOnly
<1>4. TicksFit'
  BY <1>1 DEF IInv, TicksFit, TimerUnderWay
<1> HIDE DEF irq
<1>5. CASE Refuse
  <2>1. UNCHANGED <<mask, g_IRQHandlers, step, data>> /\ at' = at + 1 /\ step = "begin"
    BY <1>5 DEF Refuse, chips
  <2>2. TypeOK' /\ UnmaskedHaveHandlers' /\ RegistersInStep'
    BY <1>1, <1>2, <2>1, ScriptSteps DEF IInv, TypeOK, UnmaskedHaveHandlers, RegistersInStep
  <2>3. QED
    BY <1>3, <1>4, <2>2 DEF IInv
<1>6. CASE SetHandler
  <2>1. /\ UNCHANGED <<mask, at, data>> /\ g_IRQHandlers' = g_IRQHandlers \cup {irq}
        /\ step' = "read" /\ IsLine(irq)
    BY <1>6 DEF SetHandler, chips, Index, irq
  <2>2. TypeOK' /\ UnmaskedHaveHandlers'
    BY <1>1, <1>2, <2>1 DEF IInv, TypeOK, UnmaskedHaveHandlers
  <2>3. RegistersInStep'
    BY <1>1, <2>1 DEF RegistersInStep, irq
  <2>4. QED
    BY <1>3, <1>4, <2>2, <2>3 DEF IInv
<1>7. CASE ReadMask
  <2>1. /\ UNCHANGED <<mask, at, g_IRQHandlers>> /\ step' = "write" /\ step = "read"
        /\ data' = (mask \cap Chip(irq)) \ {irq}
    BY <1>7 DEF ReadMask, chips, Unmasked, irq
  <2>2. TypeOK' /\ UnmaskedHaveHandlers'
    BY <1>1, <2>1 DEF IInv, TypeOK, UnmaskedHaveHandlers
  <2>3. RegistersInStep'
    BY <1>1, <2>1 DEF IInv, RegistersInStep, irq
  <2>4. QED
    BY <1>3, <1>4, <2>2, <2>3 DEF IInv
<1>8. CASE WriteMask
  <2>1. /\ UNCHANGED <<g_IRQHandlers, data>> /\ step = "write" /\ step' = "begin" /\ at' = at + 1
        /\ mask' = (mask \ Chip(irq)) \cup data
    BY <1>8 DEF WriteMask, irq
  <2>2. data = (mask \cap Chip(irq)) \ {irq} /\ irq \in g_IRQHandlers
    BY <2>1 DEF IInv, RegistersInStep, irq
  <2>3. Lines \ mask' \subseteq (Lines \ mask) \cup {irq}
    BY <2>1, <2>2
  <2>4. TypeOK' /\ UnmaskedHaveHandlers'
    BY <1>1, <1>2, <2>1, <2>2, <2>3, ScriptSteps DEF IInv, TypeOK, UnmaskedHaveHandlers
  <2>5. RegistersInStep'
    BY <2>1 DEF RegistersInStep
  <2>6. QED
    BY <1>3, <1>4, <2>4, <2>5 DEF IInv
<1>9. QED
  BY <1>5, <1>6, <1>7, <1>8

LEMMA EnableInterruptsIInv ==
  ASSUME IInv, EnableInterrupts
  PROVE  IInv'
<1>1. /\ handling = <<>> /\ Script[at].op = "sti" /\ at' = at + 1 /\ INTF' = TRUE
      /\ UNCHANGED <<mask, irr, isr, g_IRQHandlers, handling, step, data, ticks, timer_ticks, elapsed>>
  BY DEF EnableInterrupts, Runs, chips
<1>2. at + 1 \in 1 .. Len(Script) /\ step \notin {"read", "write"}
  BY <1>1, ScriptSteps DEF IInv, TypeOK, RegistersInStep
<1>3. TypeOK' /\ UnmaskedHaveHandlers' /\ RegistersInStep' /\ TicksFit'
  BY <1>1, <1>2 DEF IInv, TypeOK, UnmaskedHaveHandlers, RegistersInStep, TicksFit, TimerUnderWay
<1>4. QED
  BY <1>1, <1>3, MainOnly DEF IInv

LEMMA SleepIInv ==
  ASSUME IInv,
         (\E ms \in Sleeps : sleep_ms(ms)) \/ CheckTicks \/ Halt \/ DoneSleeping
  PROVE  IInv'
<1>1. /\ handling = <<>> /\ Script[at].op = "sleeps"
      /\ UNCHANGED <<INTF, mask, irr, isr, g_IRQHandlers, handling, data>>
  BY DEF sleep_ms, CheckTicks, Halt, DoneSleeping, Runs, chips
<1>2. OneAtATime' /\ ServiceInStep' /\ InFlightHaveHandlers'
  BY <1>1, MainOnly
<1>3. UnmaskedHaveHandlers'
  BY <1>1 DEF IInv, UnmaskedHaveHandlers
<1>4. step \notin {"read", "write"}
  BY <1>1 DEF IInv, RegistersInStep
<1>5. step' \in {"begin", "check", "hlt", "halted"}
  BY <1>4 DEF sleep_ms, CheckTicks, Halt, DoneSleeping, IInv, TypeOK
<1>6. RegistersInStep'
  BY <1>5 DEF RegistersInStep
<1>7. at' \in 1 .. Len(Script)
  BY <1>1, ScriptSteps DEF sleep_ms, CheckTicks, Halt, DoneSleeping, IInv, TypeOK
<1>8. CASE \E ms \in Sleeps : sleep_ms(ms)
  <2>1. ticks' \in Nat /\ timer_ticks' = 0 /\ elapsed' = 0 /\ MaxTicks \in Nat
    BY <1>8, InterruptsAssumption DEF sleep_ms, StartCount, MILISECOND_PER_PIT_TICK
  <2>2. TypeOK' /\ TicksFit'
    BY <1>1, <1>5, <1>7, <2>1 DEF IInv, TypeOK, TicksFit, TimerUnderWay
  <2>3. QED
    BY <1>2, <1>3, <1>6, <2>2 DEF IInv
<1>9. CASE CheckTicks \/ Halt \/ DoneSleeping
  <2>1. UNCHANGED <<ticks, timer_ticks, elapsed>>
    BY <1>9 DEF CheckTicks, Halt, DoneSleeping
  <2>2. TypeOK' /\ TicksFit'
    BY <1>1, <1>5, <1>7, <2>1 DEF IInv, TypeOK, TicksFit, TimerUnderWay
  <2>3. QED
    BY <1>2, <1>3, <1>6, <2>2 DEF IInv
<1>10. QED
  BY <1>8, <1>9

-----------------------------------------------------------------------------

LEMMA StutterIInv == IInv /\ UNCHANGED vars => IInv'
BY DEF vars, chips, main, IInv, TypeOK, OneAtATime, ServiceInStep, UnmaskedHaveHandlers,
       InFlightHaveHandlers, RegistersInStep, TicksFit, TimerUnderWay, Top

LEMMA Stays == IInv /\ [Next]_vars => IInv'
<1> SUFFICES ASSUME IInv, Next PROVE IInv'
  BY StutterIInv
<1>1. CASE \E irq \in Devices : Raise(irq) \/ Accept(irq)
  BY <1>1, RaiseIInv, AcceptIInv
<1>2. CASE Handler
  BY <1>2, CallHandlerIInv, SendEndOfInterruptIInv, IretIInv DEF Handler
<1>3. CASE Main
  BY <1>3, RegisterIInv, EnableInterruptsIInv, SleepIInv DEF Main
<1>4. QED
  BY <1>1, <1>2, <1>3 DEF Next

LEMMA Invariance == Spec => []IInv
BY InitIInv, Stays, PTL DEF Spec

\* Every variable of the interrupt model keeps its type, the counted ticks
\* their bound.
THEOREM InterruptsTypeCorrect == Spec => []TypeOK
BY Invariance, PTL DEF IInv

\* The end of interrupt that i686_IRQ_Handler sends after the one of the
\* handler never ends another interrupt.
THEOREM SecondEoiSafe == Spec => []SecondEoiEndsNothing
<1>1. IInv => SecondEoiEndsNothing
  BY DEF IInv, ServiceInStep, SecondEoiEndsNothing
<1>2. QED
  BY Invariance, <1>1, PTL

\* timer_wait returns only after the ticks it was asked for.
THEOREM NoShortWait == Spec => WaitsLongEnough
<1>1. IInv /\ [Next]_vars => [step = "check" /\ step' = "begin" => elapsed >= ticks]_vars
  <2> SUFFICES ASSUME IInv, Next, step = "check", step' = "begin" PROVE elapsed >= ticks
    OBVIOUS
  <2>1. CASE \E irq \in Devices : Raise(irq) \/ Accept(irq)
    BY <2>1 DEF Raise, Accept, main
  <2>2. CASE Handler
    BY <2>2 DEF Handler, CallHandler, SendEndOfInterrupt, Iret, Awake, main
  <2>3. CASE CheckTicks
    BY <2>3 DEF CheckTicks, IInv, TicksFit, TypeOK
  <2>4. CASE Main /\ ~CheckTicks
    BY <2>4 DEF Main, Refuse, SetHandler, ReadMask, WriteMask, EnableInterrupts, sleep_ms, Halt, DoneSleeping
  <2>5. QED
    BY <2>1, <2>2, <2>3, <2>4 DEF Next
<1>2. QED
  BY Invariance, <1>1, PTL DEF Spec, WaitsLongEnough
-----------------------------------------------------------------------------
(* What the liveness properties rest on: the state never shuts the timer or *)
(* the keyboard out, and never leaves a halted processor without a tick.    *)

\* Lines stay unmasked, and interrupts on between interrupts.
Heard ==
  /\ at > 1 => TIMER \notin mask
  /\ at > 2 => KEYBOARD \notin mask
  /\ at > 4 /\ handling = <<>> => INTF

\* Of the ticks that come after timer_wait's look at the count, the one that
\* wakes it is always among those that are allowed.
Waiting == step \in {"check", "hlt", "halted"}

TickIsLeft ==
  /\ Waiting => Script[at].op = "sleeps" /\ ticks < MaxTicks
  /\ step = "hlt" => timer_ticks <= MaxTicks /\ (TimerUnderWay => timer_ticks < MaxTicks)
  /\ step = "halted" => timer_ticks <= MaxTicks \/ handling # <<>>

\* Between interrupts, once they are enabled, a request of the timer can be
\* accepted at once, and one of the keyboard as well, unless the timer's is first.
RequestsGetThrough ==
  at > 4 /\ handling = <<>> =>
    /\ INTF
    /\ TIMER \in irr => Deliverable(TIMER)
    /\ KEYBOARD \in irr => Deliverable(KEYBOARD) \/ TIMER \in irr

\* A processor that halted in timer_wait, even if the last tick came just
\* before the hlt, has a tick to come that it can accept.
HaltedIsWoken ==
  step = "halted" /\ handling = <<>> =>
    /\ INTF
    /\ IF TIMER \in irr THEN Deliverable(TIMER) ELSE timer_ticks < MaxTicks + 1
    /\ TIMER \in g_IRQHandlers

SInv == IInv /\ Heard /\ TickIsLeft

LEMMA ScriptPlaces ==
  /\ Len(Script) = 8
  /\ Script[1].op = "register" /\ Script[1].irq = TIMER
  /\ Script[2].op = "register" /\ Script[2].irq = KEYBOARD
  /\ Script[3].op = "register" /\ Script[4].op = "sti" /\ Script[5].op = "sleeps"
  /\ \A k \in 6 .. 8 : Script[k].op \notin {"sti", "sleeps"}
  /\ TIMER \in Lines /\ KEYBOARD \in Lines
BY DEF Script, Register, TIMER, KEYBOARD, Lines

LEMMA Ranks ==
  /\ \A i \in Lines \ {TIMER} : Rank(TIMER) < Rank(i)
  /\ \A i \in Lines \ {TIMER, KEYBOARD} : Rank(KEYBOARD) < Rank(i)
<1>1. ASSUME NEW i \in 0 .. 15 PROVE Rank(i) = IF i < 8 THEN 10 * i ELSE 20 + i
  BY DEF Rank, CASCADE
<1>2. QED
  BY <1>1 DEF Lines, TIMER, KEYBOARD

\* A place in the script that sleeps, or comes after.
LEMMA SleepsAt5 ==
  ASSUME IInv, Script[at].op = "sleeps"
  PROVE  at = 5
<1>1. at \in 1 .. 8
  BY ScriptPlaces DEF IInv, TypeOK
<1>2. QED
  BY <1>1, ScriptPlaces

\* An unmasked line stays so, and the last write unmasks the script's line.
LEMMA WriteUnmasks ==
  ASSUME IInv, WriteMask
  PROVE  mask' \subseteq mask /\ Script[at].irq \notin mask' /\ at' = at + 1
<1>1. data = (mask \cap Chip(Script[at].irq)) \ {Script[at].irq}
  BY DEF WriteMask, IInv, RegistersInStep
<1>2. Script[at].irq \in Chip(Script[at].irq)
  BY DEF WriteMask, IInv, RegistersInStep, IsLine, Lines, Chip
<1>3. QED
  BY <1>1, <1>2 DEF WriteMask

LEMMA InitSInv == Init => SInv
<1> SUFFICES ASSUME Init PROVE SInv
  OBVIOUS
<1>1. IInv
  BY InitIInv
<1>2. Heard /\ TickIsLeft
  BY DEF Init, Heard, TickIsLeft, Waiting
<1>3. QED
  BY <1>1, <1>2 DEF SInv

LEMMA RaiseHeard ==
  ASSUME SInv, NEW irq \in Devices, Raise(irq)
  PROVE  Heard' /\ TickIsLeft'
<1>1. /\ irr' = irr \cup {irq}
      /\ UNCHANGED <<INTF, mask, handling, at, step, ticks, timer_ticks>>
  BY DEF Raise, main
<1>2. Heard'
  BY <1>1 DEF SInv, Heard
<1>3. timer_ticks \in Nat /\ MaxTicks \in Nat
  BY InterruptsAssumption DEF SInv, IInv, TypeOK
<1>4. step = "hlt" => (TimerUnderWay' => timer_ticks < MaxTicks)
  BY <1>1, <1>3 DEF Raise, SInv, TickIsLeft, TimerUnderWay, Top
<1>5. QED
  BY <1>1, <1>2, <1>4 DEF SInv, TickIsLeft, Waiting

LEMMA AcceptHeard ==
  ASSUME SInv, NEW irq \in Devices, Accept(irq)
  PROVE  Heard' /\ TickIsLeft'
<1>1. /\ irq \in irr /\ irr' = irr \ {irq}
      /\ handling' = <<[irq |-> irq, phase |-> "handler"]>> \o handling
      /\ UNCHANGED <<mask, at, step, ticks, timer_ticks>>
  BY DEF Accept, Deliverable, Pending, main
<1>2. INTF /\ handling = <<>>
  <2>1. INTF
    BY DEF Accept
  <2>2. QED
    BY <2>1 DEF SInv, IInv, OneAtATime
<1>3. handling' = <<[irq |-> irq, phase |-> "handler"]>>
  BY <1>1, <1>2
<1>4. handling' # <<>> /\ Top'.irq = irq
  BY <1>3 DEF Top
<1>5. TimerUnderWay' => TimerUnderWay
  BY <1>1, <1>4 DEF TimerUnderWay
<1>6. QED
  BY <1>1, <1>4, <1>5 DEF SInv, Heard, TickIsLeft, Waiting

LEMMA HandlerHeard ==
  ASSUME SInv, CallHandler \/ SendEndOfInterrupt
  PROVE  Heard' /\ TickIsLeft'
<1>1. IInv /\ handling # <<>> /\ UNCHANGED <<mask, irr, at, step, ticks>>
  BY DEF CallHandler, SendEndOfInterrupt, main, SInv
<1>2. PICK p \in {"eoi", "iret"} : Phase(p)
  BY DEF CallHandler, SendEndOfInterrupt
<1>3. handling' # <<>> /\ Top'.irq = Top.irq /\ Top'.phase = p
  BY <1>1, <1>2, PhaseSet
<1>4. ~(TIMER \in irr /\ Top.irq = TIMER)
  BY <1>1 DEF IInv, TicksFit
<1>5. TimerUnderWay' => TIMER \in irr
  BY <1>1, <1>2, <1>3 DEF TimerUnderWay
<1>6. timer_ticks' = timer_ticks \/ (timer_ticks' = timer_ticks + 1 /\ Top.irq = TIMER /\ Top.phase = "handler")
  BY DEF CallHandler, SendEndOfInterrupt, Counted
<1>7. timer_ticks \in Nat /\ MaxTicks \in Nat
  BY <1>1, InterruptsAssumption DEF IInv, TypeOK
<1>8. Heard'
  BY <1>1, <1>3 DEF SInv, Heard
<1>9. step = "hlt" => timer_ticks' <= MaxTicks /\ (TimerUnderWay' => timer_ticks' < MaxTicks)
  <2>1. CASE timer_ticks' = timer_ticks
    BY <1>1, <1>5, <2>1 DEF SInv, TickIsLeft, TimerUnderWay
  <2>2. CASE timer_ticks' = timer_ticks + 1 /\ Top.irq = TIMER /\ Top.phase = "handler"
    BY <1>1, <1>4, <1>5, <1>7, <2>2 DEF SInv, TickIsLeft, TimerUnderWay
  <2>3. QED
    BY <1>6, <2>1, <2>2
<1>10. QED
  BY <1>1, <1>3, <1>8, <1>9 DEF SInv, TickIsLeft, Waiting

LEMMA IretHeard ==
  ASSUME SInv, Iret
  PROVE  Heard' /\ TickIsLeft'
<1>1. /\ handling # <<>> /\ Top.phase = "iret" /\ INTF' = TRUE
      /\ UNCHANGED <<mask, irr, at, ticks, timer_ticks>>
      /\ step' = IF step = "halted" THEN "check" ELSE step
  BY DEF Iret, Awake, chips
<1>2. handling' = <<>>
  BY <1>1, TopOnly DEF Iret, SInv
<1>3. TimerUnderWay' => TimerUnderWay
  BY <1>1, <1>2 DEF TimerUnderWay
<1>4. QED
  BY <1>1, <1>3 DEF SInv, Heard, TickIsLeft, Waiting

LEMMA MainHeard ==
  ASSUME SInv, Main
  PROVE  Heard' /\ TickIsLeft'
<1>1. IInv /\ handling = <<>> /\ UNCHANGED <<irr, handling>>
  BY MainOnly DEF SInv, Main, Refuse, SetHandler, ReadMask, WriteMask, EnableInterrupts, sleep_ms,
     CheckTicks, Halt, DoneSleeping, chips, Runs
<1>2. at \in 1 .. 8 /\ ticks \in Nat /\ timer_ticks \in Nat /\ MaxTicks \in Nat
  BY <1>1, ScriptPlaces, InterruptsAssumption DEF IInv, TypeOK
<1>3. TimerUnderWay' <=> TimerUnderWay
  BY <1>1 DEF TimerUnderWay
<1>4. CASE Refuse
  <2>1. step' = "begin" /\ at' = at + 1 /\ UNCHANGED <<INTF, mask>>
    BY <1>4 DEF Refuse, chips
  <2>2. at \notin {1, 2, 4, 5}
    BY <1>4, ScriptPlaces DEF Refuse, IsLine, Runs
  <2>3. Heard'
    BY <1>1, <1>2, <2>1, <2>2 DEF SInv, Heard
  <2>4. QED
    BY <2>1, <2>3 DEF TickIsLeft, Waiting
<1>5. CASE SetHandler \/ ReadMask
  <2>1. step' \in {"read", "write"} /\ UNCHANGED <<INTF, mask, at>>
    BY <1>5 DEF SetHandler, ReadMask, chips
  <2>2. QED
    BY <1>1, <2>1 DEF SInv, Heard, TickIsLeft, Waiting
<1>6. CASE WriteMask
  <2>1. /\ mask' \subseteq mask /\ Script[at].irq \notin mask' /\ at' = at + 1
        /\ step' = "begin" /\ UNCHANGED INTF /\ Script[at].op = "register"
    BY <1>1, <1>6, WriteUnmasks DEF WriteMask, Runs
  <2>2. at # 4
    BY <2>1, ScriptPlaces
  <2>3. Heard'
    BY <1>1, <1>2, <2>1, <2>2, ScriptPlaces DEF SInv, Heard
  <2>4. QED
    BY <2>1, <2>3 DEF TickIsLeft, Waiting
<1>7. CASE EnableInterrupts
  <2>1. /\ INTF' = TRUE /\ at' = at + 1 /\ UNCHANGED <<mask, step, ticks, timer_ticks>>
        /\ Script[at].op = "sti"
    BY <1>7 DEF EnableInterrupts, Runs, chips
  <2>2. at = 4
    BY <1>2, <2>1, ScriptPlaces
  <2>3. ~Waiting
    BY <2>1 DEF SInv, TickIsLeft
  <2>4. QED
    BY <1>2, <2>1, <2>2, <2>3 DEF SInv, Heard, TickIsLeft, Waiting
<1>8. ASSUME NEW ms \in Sleeps, sleep_ms(ms) PROVE Heard' /\ TickIsLeft'
  <2>1. /\ step' = "check" /\ ticks' = ms \div MILISECOND_PER_PIT_TICK /\ ticks' < MaxTicks
        /\ UNCHANGED <<INTF, mask, at>> /\ Script[at].op = "sleeps"
    BY <1>8, InterruptsAssumption DEF sleep_ms, Runs, chips
  <2>2. QED
    BY <1>1, <2>1 DEF SInv, Heard, TickIsLeft, Waiting
<1>9. CASE CheckTicks
  <2>1. /\ step = "check" /\ step' = (IF timer_ticks < ticks THEN "hlt" ELSE "begin")
        /\ UNCHANGED <<INTF, mask, at, ticks, timer_ticks>>
    BY <1>9 DEF CheckTicks, chips
  <2>2. ticks < MaxTicks /\ Script[at].op = "sleeps"
    BY <2>1 DEF SInv, TickIsLeft, Waiting
  <2>3. QED
    BY <1>1, <1>2, <2>1, <2>2 DEF SInv, Heard, TickIsLeft, Waiting
<1>10. CASE Halt
  <2>1. /\ step = "hlt" /\ step' = "halted"
        /\ UNCHANGED <<INTF, mask, at, ticks, timer_ticks>>
    BY <1>10 DEF Halt, chips
  <2>2. QED
    BY <1>1, <2>1 DEF SInv, Heard, TickIsLeft, Waiting
<1>11. CASE DoneSleeping
  <2>1. /\ step' = "begin" /\ at' = at + 1 /\ UNCHANGED <<INTF, mask>>
        /\ Script[at].op = "sleeps"
    BY <1>11 DEF DoneSleeping, chips, Runs
  <2>2. at = 5
    BY <1>1, <2>1, SleepsAt5
  <2>3. QED
    BY <1>1, <2>1, <2>2 DEF SInv, Heard, TickIsLeft, Waiting
<1>12. QED
  BY <1>4, <1>5, <1>6, <1>7, <1>8, <1>9, <1>10, <1>11 DEF Main

LEMMA HeardStays == SInv /\ [Next]_vars => SInv'
<1> SUFFICES ASSUME SInv, [Next]_vars PROVE SInv'
  OBVIOUS
<1>1. IInv /\ IInv'
  BY Stays DEF SInv
<1>2. CASE UNCHANGED vars
  BY <1>1, <1>2 DEF vars, chips, main, SInv, Heard, TickIsLeft, Waiting, TimerUnderWay, Top
<1>3. CASE Next
  <2>1. CASE \E irq \in Devices : Raise(irq) \/ Accept(irq)
    BY <1>1, <2>1, RaiseHeard, AcceptHeard DEF SInv
  <2>2. CASE Handler
    BY <1>1, <2>2, HandlerHeard, IretHeard DEF Handler, SInv
  <2>3. CASE Main
    BY <1>1, <2>3, MainHeard DEF SInv
  <2>4. QED
    BY <1>3, <2>1, <2>2, <2>3 DEF Next
<1>4. QED
  BY <1>2, <1>3

LEMMA ThroughWhenHeard == SInv => RequestsGetThrough
<1> SUFFICES ASSUME SInv, at > 4, handling = <<>> PROVE
      /\ INTF
      /\ TIMER \in irr => Deliverable(TIMER)
      /\ KEYBOARD \in irr => Deliverable(KEYBOARD) \/ TIMER \in irr
  BY DEF RequestsGetThrough
<1>1. at \in 1 .. 8 /\ irr \subseteq Lines
  BY ScriptPlaces DEF SInv, IInv, TypeOK, Devices, Lines
<1>2. INTF /\ TIMER \notin mask /\ KEYBOARD \notin mask /\ isr = {}
  BY <1>1 DEF SInv, Heard, IInv, ServiceInStep
<1>3. \A irq \in {TIMER, KEYBOARD} : irq \in irr => irq \in Pending
  BY <1>2 DEF Pending, TIMER, KEYBOARD
<1>4. Pending \subseteq Lines /\ Pending \subseteq irr
  BY <1>1 DEF Pending
<1>5. TIMER \in irr => Deliverable(TIMER)
  BY <1>2, <1>3, <1>4, Ranks DEF Deliverable
<1>6. KEYBOARD \in irr /\ TIMER \notin irr => Deliverable(KEYBOARD)
  BY <1>2, <1>3, <1>4, Ranks DEF Deliverable
<1>7. QED
  BY <1>2, <1>5, <1>6

\* Once KernelStart has enabled interrupts, no state keeps the timer or the
\* keyboard from interrupting (irq.c, i8259.c): their lines stay unmasked, and
\* nothing is left in service between interrupts.
THEOREM NothingShutsOut == Spec => []RequestsGetThrough
BY InitSInv, HeardStays, ThroughWhenHeard, PTL DEF Spec

\* The hlt of timer_wait (pit.c) never waits for a tick that cannot come,
\* although the count it has looked at may be reached before the hlt.
THEOREM HaltIsWoken == Spec => []HaltedIsWoken
<1>1. SInv => HaltedIsWoken
  <2> SUFFICES ASSUME SInv, step = "halted", handling = <<>> PROVE HaltedIsWoken
    BY DEF HaltedIsWoken
  <2>1. at = 5 /\ timer_ticks <= MaxTicks
    BY SleepsAt5 DEF SInv, TickIsLeft, Waiting
  <2>2. INTF /\ (TIMER \in irr => Deliverable(TIMER))
    BY <2>1, ThroughWhenHeard DEF RequestsGetThrough
  <2>3. TIMER \in g_IRQHandlers
    BY <2>1, ScriptPlaces DEF SInv, Heard, IInv, UnmaskedHaveHandlers
  <2>4. timer_ticks \in Nat /\ MaxTicks \in Nat
    BY InterruptsAssumption DEF SInv, IInv, TypeOK
  <2>5. QED
    BY <2>1, <2>2, <2>3, <2>4 DEF HaltedIsWoken
<1>2. QED
  BY InitSInv, HeardStays, <1>1, PTL DEF Spec
=============================================================================
