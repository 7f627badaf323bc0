------------------------------- MODULE Timing -------------------------------
(***************************************************************************)
(* The kernel timers: the tick counters of timer.c and the timer table of  *)
(* timing.c.                                                               *)
(*                                                                         *)
(* Two actors share the table.  Thread-level code (kmain and the inits it  *)
(* calls) registers, deregisters and disarms timers with interrupts on, so *)
(* its accesses to the table are steps of their own.  The tick interrupt   *)
(* scans the table with interrupts off: no thread step happens while irq   *)
(* is TRUE.  The fields of one slot are plain memory that the compiler may *)
(* write in any order, so a struct copy or a sequence of clears is a set   *)
(* of pending single-field stores (todo).                                  *)
(***************************************************************************)
EXTENDS Integers, FiniteSets

CONSTANTS
    Slots,       \* number of table entries (0xFF in timing.c)
    WordSize,    \* number of values of a 32-bit int (2^32), scaled down
    LowPeriod,   \* ticks per timer_low increment (device_resoulution * 1000)
    ReapRate,    \* delay and period of the reaper (100)
    Handlers,    \* the callbacks that kernel code registers
    Reaper,      \* timing_reaper itself
    Null,        \* the null function pointer
    Delays,      \* first-fire delays that callers pass (5, 10, 25 in the tree)
    Rates,       \* repeat rates that callers pass; 0 is a one-shot
    MaxStall,    \* bound: ticks that interrupt one registration's stores
    MaxTick,     \* bound: ticks after boot (WordSize: none, time wraps)
    TickDevice   \* device_id the port's tick interrupt passes: 0 PIT, 2 ARM

Half == WordSize \div 2

ASSUME TimingAssumption ==
    /\ Slots \in Nat \ {0}
    /\ WordSize \in Nat /\ Half > 0 /\ WordSize = 2 * Half
    /\ LowPeriod \in Nat \ {0}
    /\ ReapRate \in 1 .. Half - 1
    /\ Null \notin Handlers \cup {Reaper}
    /\ Reaper \notin Handlers
    /\ Rates \subseteq 0 .. Half - 1
    /\ MaxStall \in Nat /\ MaxStall < ReapRate
    /\ Delays \subseteq MaxStall + 1 .. Half - 1
    /\ MaxTick \in Nat
    /\ TickDevice \in {0, 2}

VARIABLES
    timer_hi,    \* tick counter
    timer_low,   \* low resolution counter
    device,      \* the tick source that timer_recieveTick accepts
    handlers,    \* the timer table
    irq,         \* the tick interrupt is being served
    t_i,         \* position of its scan over the table
    op,          \* what thread-level code is doing
    index,       \* the slot it is at
    builder,     \* the timer_t it builds, with the delay it was asked for
    todo,        \* fields of handlers[index] it has yet to store
    stall,       \* ticks since builder.fire_tick was computed
    crashed,     \* a null handler was called
    fired        \* history: slots whose timer was called since registered

clockVars == <<timer_hi, timer_low, device>>
threadVars == <<op, index, builder, todo, stall>>
vars == <<clockVars, handlers, irq, t_i, threadVars, crashed, fired>>

Slot == 0 .. Slots - 1
Word == 0 .. WordSize - 1
Fields == {"fire_tick", "repeat_rate", "handler"}
AnyHandler == Handlers \cup {Reaper, Null}

\* 32-bit addition of two words, and the signed reading of a word.
Plus(a, b) == IF a + b >= WordSize THEN a + b - WordSize ELSE a + b
Signed(w) == IF w >= Half THEN w - WordSize ELSE w

FreeSlot == [fire_tick |-> 0, repeat_rate |-> 0, handler |-> Null]
NoTimer == [delay |-> 0, fire_tick |-> 0, repeat_rate |-> 0, handler |-> Null]

TypeOK ==
    /\ timer_hi \in Word
    /\ timer_low \in Word
    /\ device \in {0, 2}
    /\ handlers \in [Slot -> [fire_tick : Word, repeat_rate : Word,
                              handler : AnyHandler]]
    /\ irq \in BOOLEAN
    /\ t_i \in 0 .. Slots
    /\ op \in {"boot", "idle", "scan", "build", "store", "find", "clear"}
    /\ index \in 0 .. Slots
    /\ builder \in [delay : Word, fire_tick : Word, repeat_rate : Word,
                    handler : AnyHandler]
    /\ todo \in SUBSET Fields
    /\ stall \in 0 .. MaxStall
    /\ crashed \in BOOLEAN
    /\ fired \in SUBSET Slot

Init ==
    /\ timer_hi = 0 /\ timer_low = 0 /\ device = 0
    /\ handlers = [s \in Slot |-> FreeSlot]
    /\ irq = FALSE /\ t_i = 0
    /\ op = "boot" /\ index = 0 /\ builder = NoTimer
    /\ todo = {} /\ stall = 0
    /\ crashed = FALSE
    /\ fired = {}

-----------------------------------------------------------------------------
(* Thread-level code.  It runs only between interrupts.                    *)

ThreadRuns == ~irq /\ ~crashed

\* The call returns and its local variables are gone.
Return ==
    /\ op' = "idle" /\ index' = 0 /\ builder' = NoTimer
    /\ todo' = {} /\ stall' = 0

\* The port's timer driver selects its device before kmain starts; any id
\* but 2 selects the PIT.
TimerSwitchDevice(id) ==
    /\ ThreadRuns /\ op = "boot"
    /\ device' = IF id = 2 THEN 2 ELSE 0
    /\ UNCHANGED <<timer_hi, timer_low, handlers, irq, t_i, threadVars,
                   crashed, fired>>

\* timing_register_timer is entered with its arguments.
RegisterTimer(d, r, h) ==
    /\ op' = "scan" /\ index' = 0
    /\ builder' = [delay |-> d, fire_tick |-> 0, repeat_rate |-> r,
                   handler |-> h]
    /\ UNCHANGED <<clockVars, handlers, irq, t_i, todo, stall, crashed, fired>>

\* timing_init clears the (still empty) table and registers the reaper.
TimingInit ==
    /\ ThreadRuns /\ op = "boot"
    /\ RegisterTimer(ReapRate, ReapRate, Reaper)

TimingRegisterTimer ==
    /\ ThreadRuns /\ op = "idle"
    /\ \E d \in Delays, r \in Rates, h \in Handlers : RegisterTimer(d, r, h)

\* The search for a free slot, one slot a step; past the last one the
\* registration fails with 0xFF.
RegisterScan ==
    /\ ThreadRuns /\ op = "scan"
    /\ \/ /\ index < Slots /\ handlers[index].fire_tick = 0
          /\ op' = "build" /\ UNCHANGED <<index, builder, todo, stall>>
       \/ /\ index < Slots /\ handlers[index].fire_tick # 0
          /\ index' = index + 1 /\ UNCHANGED <<op, builder, todo, stall>>
       \/ index = Slots /\ Return
    /\ UNCHANGED <<clockVars, handlers, irq, t_i, crashed, fired>>

\* Fault: the delay is counted from the previous tick.
BuildTimerEarly ==
    /\ ThreadRuns /\ op = "build"
    /\ builder' = [builder EXCEPT
                     !.fire_tick = Plus(builder.delay - 1, timer_hi)]
    /\ op' = "store" /\ todo' = Fields /\ stall' = 0
    /\ UNCHANGED <<clockVars, handlers, irq, t_i, index, crashed, fired>>

\* Fault: the time is subtracted.
BuildTimerReversed ==
    /\ ThreadRuns /\ op = "build"
    /\ builder' = [builder EXCEPT !.fire_tick = builder.delay - timer_hi]
    /\ op' = "store" /\ todo' = Fields /\ stall' = 0
    /\ UNCHANGED <<clockVars, handlers, irq, t_i, index, crashed, fired>>

\* builder.fire_tick = tick + timer_getHi()
BuildTimer ==
    /\ ThreadRuns /\ op = "build"
    /\ builder' = [builder EXCEPT !.fire_tick = Plus(builder.delay, timer_hi)]
    /\ op' = "store" /\ todo' = Fields /\ stall' = 0
    /\ UNCHANGED <<clockVars, handlers, irq, t_i, index, crashed, fired>>

FieldDone(f) ==
    IF todo = {f}
    THEN Return
    ELSE todo' = todo \ {f} /\ UNCHANGED <<op, index, builder, stall>>

\* An entry of the table with one field taken from v.
Overwrite(e, f, v) ==
    [fire_tick   |-> IF f = "fire_tick" THEN v.fire_tick ELSE e.fire_tick,
     repeat_rate |-> IF f = "repeat_rate" THEN v.repeat_rate ELSE e.repeat_rate,
     handler     |-> IF f = "handler" THEN v.handler ELSE e.handler]

\* handlers[index] = builder, one field a step.
StoreField(f) ==
    /\ ThreadRuns /\ op = "store" /\ f \in todo
    /\ handlers' = [handlers EXCEPT ![index] = Overwrite(@, f, builder)]
    /\ fired' = IF f = "fire_tick" THEN fired \ {index} ELSE fired
    /\ FieldDone(f)
    /\ UNCHANGED <<clockVars, irq, t_i, crashed>>

\* timing_deregister_timer looks for the handler, one slot a step.
TimingDeregisterTimer ==
    /\ ThreadRuns /\ op = "idle"
    /\ \E h \in Handlers : builder' = [builder EXCEPT !.handler = h]
    /\ op' = "find" /\ index' = 0
    /\ UNCHANGED <<clockVars, handlers, irq, t_i, todo, stall, crashed, fired>>

DeregisterFind ==
    /\ ThreadRuns /\ op = "find"
    /\ \/ /\ index < Slots /\ handlers[index].handler = builder.handler
          /\ op' = "clear" /\ todo' = Fields
          /\ UNCHANGED <<index, builder, stall>>
       \/ /\ index < Slots /\ handlers[index].handler # builder.handler
          /\ index' = index + 1 /\ UNCHANGED <<op, builder, todo, stall>>
       \/ index = Slots /\ Return
    /\ UNCHANGED <<clockVars, handlers, irq, t_i, crashed, fired>>

ClearField(f) ==
    /\ ThreadRuns /\ op = "clear" /\ f \in todo
    /\ handlers' = [handlers EXCEPT ![index] = Overwrite(@, f, FreeSlot)]
    /\ FieldDone(f)
    /\ UNCHANGED <<clockVars, irq, t_i, crashed, fired>>

\* timing_remove_index(i), called with the number of a caller's own timer:
\* any slot but the reaper's, which is the first one registered.
TimingRemoveIndex(i) ==
    /\ ThreadRuns /\ op = "idle"
    /\ handlers' = [handlers EXCEPT ![i].repeat_rate = 0]
    /\ UNCHANGED <<clockVars, irq, t_i, threadVars, crashed, fired>>

-----------------------------------------------------------------------------
(* The tick interrupt: timer_recieveTick, then the scan of cyclic_tasks.   *)

\* A registration whose fire_tick is computed is interrupted by at most
\* MaxStall ticks before its last store.
TimerRecieveTick ==
    /\ ThreadRuns
    /\ device = TickDevice
    /\ timer_hi < MaxTick
    /\ op = "store" => stall < MaxStall
    /\ timer_hi' = Plus(timer_hi, 1)
    /\ timer_low' = IF timer_hi' % LowPeriod = 0 THEN Plus(timer_low, 1)
                                                 ELSE timer_low
    /\ irq' = TRUE /\ t_i' = 0
    /\ stall' = IF op = "store" THEN stall + 1 ELSE stall
    /\ UNCHANGED <<device, handlers, op, index, builder, todo, crashed, fired>>

IrqRuns == irq /\ ~crashed

Due(s) == handlers[s].fire_tick # 0 /\ handlers[s].fire_tick = timer_hi

\* What cyclic_tasks does to a slot after its handler returned.
Reschedule(table, s) ==
    IF table[s].repeat_rate # 0
    THEN [table EXCEPT ![s].fire_tick = Plus(timer_hi, table[s].repeat_rate)]
    ELSE table

\* Fault: the reaper also takes what is due now.
ExpiredOrDue(e) == e.fire_tick # 0 /\ Signed(e.fire_tick) <= Signed(timer_hi)

\* Does the reaper clear this entry?  A signed comparison of two ints.
Expired(e) == e.fire_tick # 0 /\ Signed(e.fire_tick) < Signed(timer_hi)

\* Fault: the reaper forgets fire_tick, the field that marks a slot as used.
ReapKeepsTick(table) ==
    [s \in Slot |-> IF Expired(table[s])
                    THEN [FreeSlot EXCEPT !.fire_tick = table[s].fire_tick]
                    ELSE table[s]]

Reap(table) ==
    [s \in Slot |-> IF Expired(table[s]) THEN FreeSlot ELSE table[s]]

\* What one call of a handler does to the table.  A registered callback
\* gets its own entry: it may leave it alone, disarm it (timing_remove_index)
\* or deregister itself.
HandlerEffect(s) ==
    IF handlers[s].handler = Reaper
    THEN { Reap(handlers) }
    ELSE { handlers,
           [handlers EXCEPT ![s].repeat_rate = 0],
           [handlers EXCEPT ![s] = FreeSlot] }

CyclicSkip ==
    /\ IrqRuns /\ t_i < Slots /\ ~Due(t_i)
    /\ t_i' = t_i + 1
    /\ UNCHANGED <<clockVars, handlers, irq, threadVars, crashed, fired>>

CyclicCall ==
    /\ IrqRuns /\ t_i < Slots /\ Due(t_i)
    /\ handlers[t_i].handler # Null
    /\ \E table \in HandlerEffect(t_i) : handlers' = Reschedule(table, t_i)
    /\ fired' = fired \cup {t_i}
    /\ t_i' = t_i + 1
    /\ UNCHANGED <<clockVars, irq, threadVars, crashed>>

CyclicCallNull ==
    /\ IrqRuns /\ t_i < Slots /\ Due(t_i)
    /\ handlers[t_i].handler = Null
    /\ crashed' = TRUE
    /\ UNCHANGED <<clockVars, handlers, irq, t_i, threadVars, fired>>

IrqReturn ==
    /\ IrqRuns /\ t_i = Slots
    /\ irq' = FALSE
    /\ UNCHANGED <<clockVars, handlers, t_i, threadVars, crashed, fired>>

-----------------------------------------------------------------------------

Thread ==
    \/ TimerSwitchDevice(TickDevice)
    \/ TimingInit
    \/ TimingRegisterTimer
    \/ RegisterScan
    \/ BuildTimer
    \/ \E f \in Fields : StoreField(f)
    \/ TimingDeregisterTimer
    \/ DeregisterFind
    \/ \E f \in Fields : ClearField(f)
    \/ \E i \in Slot \ {0} : TimingRemoveIndex(i)

Interrupt ==
    \/ TimerRecieveTick
    \/ CyclicSkip
    \/ CyclicCall
    \/ CyclicCallNull
    \/ IrqReturn

Next == Thread \/ Interrupt

Spec == Init /\ [][Next]_vars

-----------------------------------------------------------------------------
(* Properties.                                                             *)

(***************************************************************************)
(* cyclic_tasks calls a null handler only when the tick arrives between    *)
(* the stores of timing_deregister_timer, on the very slot being           *)
(* deregistered, after its handler and before its fire_tick was cleared.   *)
(* In particular the torn struct copy of a registration never causes it.   *)
(***************************************************************************)
NullCallOnlyInDeregister ==
    crashed => /\ op = "clear" /\ index = t_i
               /\ "handler" \notin todo /\ "fire_tick" \in todo

(* Why it holds: a registration works on a free slot until it stores       *)
(* fire_tick, and the tick it stores stays ahead of timer_hi for as long   *)
(* as the registration runs.                                               *)

IndexOK == op \in {"build", "store", "clear"} => index \in Slot

Registering == op \in {"scan", "build", "store"}

RequestOK ==
    /\ Registering => /\ builder.handler # Null
                      /\ builder.delay \in MaxStall + 1 .. Half - 1
    /\ op = "store" =>
          builder.fire_tick = Plus(timer_hi, builder.delay - stall)

\* The slot under registration has no fire_tick yet, or the slot under
\* deregistration has none any more.
SlotClaimed ==
    \/ op = "build"
    \/ op = "store" /\ "fire_tick" \in todo
    \/ op = "clear" /\ "fire_tick" \notin todo

ClaimOK ==
    SlotClaimed => /\ handlers[index].fire_tick = 0
                   /\ (op = "store" /\ "handler" \notin todo)
                         => handlers[index].handler # Null

\* An armed slot without a handler is torn: half registered or half cleared.
HalfStored(s) == /\ op = "store" /\ s = index /\ "handler" \in todo
                 /\ handlers[s].fire_tick = builder.fire_tick
HalfCleared(s) == /\ op = "clear" /\ s = index
                  /\ "handler" \notin todo /\ "fire_tick" \in todo

ArmedOK ==
    \A s \in Slot :
        handlers[s].fire_tick # 0 /\ handlers[s].handler = Null
            => HalfStored(s) \/ HalfCleared(s)

HandlerInv == RequestOK /\ ClaimOK /\ ArmedOK /\ NullCallOnlyInDeregister

\* The slot is being taken down by a caller of the deregistration functions.
BeingDeregistered(s) ==
    \/ op = "clear" /\ s = index
    \/ irq /\ s = t_i

(***************************************************************************)
(* timing_reaper never takes a timer that still has to fire: a slot in use *)
(* becomes free only when it is deregistered or when its timer is a        *)
(* one-shot (or was disarmed) that has been called.  Needs that time stays *)
(* below 2^31 ticks and that no registration is stalled past its delay.    *)
(***************************************************************************)
NoTimerLost ==
    [][\A s \in Slot :
         (handlers[s].fire_tick # 0 /\ handlers'[s].fire_tick = 0)
            => \/ BeingDeregistered(s)
               \/ s \in fired /\ handlers[s].repeat_rate = 0]_vars

(* Why it holds: a timer that is periodic, or that was not called yet, is  *)
(* ahead of the scan of cyclic_tasks, and the reaper takes only what is    *)
(* behind timer_hi.  This needs time to be bounded: past 2^31 ticks the    *)
(* signed comparison of the reaper takes timers that are ahead.            *)

BoundedTime == \A d \in Delays \cup Rates \cup {ReapRate} : MaxTick + d < Half

Live(s) == handlers[s].repeat_rate # 0 \/ s \notin fired

Scanned(s) == irq => s < t_i

AheadAt(s) ==
    /\ handlers[s].repeat_rate \in Rates \cup {0, ReapRate}
    /\ handlers[s].fire_tick < Half
    /\ handlers[s].fire_tick # 0 /\ Live(s) =>
          /\ timer_hi <= handlers[s].fire_tick
          /\ Scanned(s) => timer_hi < handlers[s].fire_tick

AheadOK == timer_hi <= MaxTick /\ \A s \in Slot : AheadAt(s)

\* A registration that has stored fire_tick has an uncalled timer.
StoredOK ==
    /\ Registering => builder.repeat_rate \in Rates \cup {ReapRate}
    /\ Registering => builder.delay \in Delays \cup {ReapRate}
    /\ op = "store" /\ "fire_tick" \notin todo =>
          /\ handlers[index].fire_tick = builder.fire_tick
          /\ index \notin fired

TimeInv == AheadOK /\ StoredOK

(***************************************************************************)
(* A timer that will not fire again holds its slot for at most one period  *)
(* of the reaper, so the table of 0xFF slots is not exhausted by expired   *)
(* timers.                                                                 *)
(***************************************************************************)
ExpiredSlotFreedInTime ==
    \A s \in Slot :
        handlers[s].fire_tick # 0
            => timer_hi - handlers[s].fire_tick <= ReapRate

(* Why it holds: from its registration on the reaper is armed in slot 0,   *)
(* at most one period ahead, and no slot is older than the reaper's last   *)
(* run.                                                                    *)

OnlyReaper == \A s \in Slot \ {0} : handlers[s].fire_tick = 0

ReaperStarting ==
    \/ op = "boot" /\ OnlyReaper /\ handlers[0].fire_tick = 0
    \/ /\ Registering /\ builder.handler = Reaper /\ index = 0 /\ OnlyReaper
       /\ builder.repeat_rate = ReapRate /\ builder.delay = ReapRate
       /\ op = "scan" => handlers[0].fire_tick = 0
       /\ op = "store" =>
             /\ "repeat_rate" \notin todo => handlers[0].repeat_rate = ReapRate
             /\ "handler" \notin todo => handlers[0].handler = Reaper

ReaperArmed ==
    /\ handlers[0].handler = Reaper /\ handlers[0].repeat_rate = ReapRate
    /\ handlers[0].fire_tick # 0
    /\ handlers[0].fire_tick <= timer_hi + ReapRate
    /\ op \in {"build", "store", "clear"} => index # 0
    /\ op = "find" => builder.handler \in Handlers
    /\ op # "boot"
    /\ \A s \in Slot : handlers[s].fire_tick # 0 =>
          handlers[0].fire_tick <= handlers[s].fire_tick + ReapRate

ReaperInv == ReaperStarting \/ ReaperArmed

=============================================================================
