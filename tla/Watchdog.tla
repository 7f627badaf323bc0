------------------------------ MODULE Watchdog ------------------------------
(***************************************************************************)
(* The watchdog of wd.c on top of the timer table, as kmain uses them:     *)
(* timing_init, wd_init, then a loop that calls wd_notify.  wd_evaluate is *)
(* a periodic timer, so it runs inside the tick interrupt.  kmain may hang *)
(* at any point of its loop.                                               *)
(***************************************************************************)
EXTENDS Timing

CONSTANTS
    WdEvaluate,        \* the handler wd_init registers
    WdRate,            \* its delay and period (25)
    WD_HU_LIMIT,       \* 0x500
    WD_HU_LIMIT_KMAIN, \* 200
    MaxNotify          \* bound: notifications between two evaluations

ASSUME WatchdogAssumption ==
    /\ Handlers = {WdEvaluate}
    /\ Delays = {WdRate} /\ Rates = {WdRate} /\ WdRate # 0
    /\ WD_HU_LIMIT_KMAIN \in Nat /\ WD_HU_LIMIT \in Nat
    /\ MaxNotify \in 1 .. WordSize - 1

VARIABLES
    kmain,             \* where kmain is: "init", "wd_init", "loop" or "hung"
    wd_kmain, wd_kmain_o,
    wd_kmain_hangups, wd_total_hangups,
    wd_enabled,
    halted,            \* panic was called: interrupts off, processor halted
    iterations,        \* history: rounds of kmain since the last evaluation
    silent,            \* history: evaluations that no round of kmain preceded
    muted,             \* history: evaluations preceded only by rounds made
                       \* while the watchdog was disabled
    heard,             \* history: a round since then was counted
    hungAt             \* history: the tick at which kmain hung

counters == <<wd_kmain, wd_kmain_o, wd_kmain_hangups, wd_total_hangups>>
history == <<iterations, silent, muted, heard>>
wdVars == <<counters, wd_enabled, halted, history>>
allVars == <<vars, kmain, wdVars, hungAt>>

WdTypeOK ==
    /\ kmain \in {"init", "wd_init", "loop", "hung"}
    /\ wd_kmain \in Word /\ wd_kmain_o \in Word
    /\ wd_kmain_hangups \in 0 .. WD_HU_LIMIT_KMAIN + 1
    /\ wd_total_hangups \in 0 .. WD_HU_LIMIT + 1
    /\ wd_enabled \in BOOLEAN /\ halted \in BOOLEAN
    /\ iterations \in 0 .. MaxNotify
    /\ silent \in Nat /\ muted \in Nat /\ heard \in BOOLEAN
    /\ hungAt \in Word

WdStart ==
    /\ Init
    /\ kmain = "init"
    /\ wd_kmain = 0 /\ wd_kmain_o = 0
    /\ wd_kmain_hangups = 0 /\ wd_total_hangups = 0
    /\ wd_enabled = TRUE /\ halted = FALSE
    /\ iterations = 0 /\ silent = 0 /\ muted = 0 /\ heard = FALSE
    /\ hungAt = 0

-----------------------------------------------------------------------------
(* kmain.                                                                  *)

\* timing_init, then wd_init: the steps of the two registrations.
KmainInit ==
    /\ ~halted /\ kmain \in {"init", "wd_init"}
    /\ \/ TimingInit /\ UNCHANGED kmain
       \/ kmain = "init" /\ TimingRegisterTimer /\ kmain' = "wd_init"
       \/ /\ RegisterScan \/ BuildTimer \/ \E f \in Fields : StoreField(f)
          /\ kmain' = IF kmain = "wd_init" /\ op' = "idle" THEN "loop"
                                                         ELSE kmain
    /\ UNCHANGED <<wdVars, hungAt>>

KmainRuns == ~halted /\ ThreadRuns /\ kmain = "loop"

\* One round of kmain's loop: wd_notify(WD_NOTIFY_KMAIN).
WdNotify ==
    /\ KmainRuns
    /\ iterations < MaxNotify
    /\ wd_kmain' = IF wd_enabled THEN Plus(wd_kmain, 1) ELSE wd_kmain
    /\ iterations' = iterations + 1
    /\ heard' = (heard \/ wd_enabled)
    /\ UNCHANGED <<vars, kmain, wd_kmain_o, wd_kmain_hangups, wd_total_hangups,
                   wd_enabled, halted, silent, muted, hungAt>>

WdSetEnabled(on) ==
    /\ KmainRuns
    /\ wd_enabled' = on
    /\ UNCHANGED <<vars, kmain, counters, halted, history, hungAt>>

KmainHangs ==
    /\ KmainRuns
    /\ kmain' = "hung" /\ hungAt' = timer_hi
    /\ UNCHANGED <<vars, wdVars>>

-----------------------------------------------------------------------------
(* The tick interrupt.                                                     *)

CallsWd ==
    IrqRuns /\ t_i < Slots /\ Due(t_i) /\ handlers[t_i].handler = WdEvaluate

\* What wd_evaluate does with the two counters it compares its limits to.
EvaluateWith(hangup, panic, seen) ==
    /\ wd_total_hangups' = wd_total_hangups + hangup
    /\ wd_kmain_hangups' = wd_kmain_hangups + hangup
    /\ halted' = panic
    /\ wd_kmain_o' = IF panic THEN wd_kmain_o ELSE seen
    /\ IF panic THEN UNCHANGED vars
       ELSE CyclicCall /\ handlers' = Reschedule(handlers, t_i)
    /\ UNCHANGED <<wd_kmain, wd_enabled>>

Hangup == IF wd_kmain = wd_kmain_o THEN 1 ELSE 0

OverLimit ==
    \/ wd_total_hangups + Hangup > WD_HU_LIMIT
    \/ wd_kmain_hangups + Hangup > WD_HU_LIMIT_KMAIN

\* Fault: only the total is compared with its limit.
EvaluateTotalOnly ==
    EvaluateWith(Hangup, wd_total_hangups + Hangup > WD_HU_LIMIT, wd_kmain)

\* Fault: the value seen is not remembered.
EvaluateForgets == EvaluateWith(Hangup, OverLimit, wd_kmain_o)

\* Fault: the evaluation is skipped while the watchdog is disabled.
EvaluateIfEnabled ==
    IF wd_enabled THEN EvaluateWith(Hangup, OverLimit, wd_kmain)
                  ELSE EvaluateWith(0, FALSE, wd_kmain_o)

\* wd_evaluate: it never looks at wd_enabled.  Panic does not return, so
\* neither wd_kmain_o nor the timer's next tick is set after it.
Evaluate == EvaluateWith(Hangup, OverLimit, wd_kmain)

CyclicWd ==
    /\ ~halted /\ CallsWd
    /\ Evaluate
    /\ silent' = IF iterations = 0 THEN silent + 1 ELSE silent
    /\ muted' = IF iterations # 0 /\ ~heard THEN muted + 1 ELSE muted
    /\ iterations' = 0 /\ heard' = FALSE
    /\ UNCHANGED <<kmain, hungAt>>

WdTick == ~halted /\ TimerRecieveTick /\ UNCHANGED <<kmain, wdVars, hungAt>>

CyclicOther ==
    /\ ~halted /\ irq /\ ~CallsWd
    /\ Interrupt
    /\ UNCHANGED <<kmain, wdVars, hungAt>>

WdInterrupt == WdTick \/ CyclicWd \/ CyclicOther

-----------------------------------------------------------------------------

WdNext ==
    \/ KmainInit
    \/ WdNotify
    \/ \E on \in BOOLEAN : WdSetEnabled(on)
    \/ KmainHangs
    \/ WdInterrupt

\* The timer hardware keeps ticking and an interrupt that began is served to
\* its end; kmain's own initialisation runs on.  Nothing else is assumed: the
\* loop of kmain may stop for ever.
WdFairness == WF_allVars(WdInterrupt) /\ WF_allVars(KmainInit)

WdSpec == WdStart /\ [][WdNext]_allVars /\ WdFairness

-----------------------------------------------------------------------------
(* Properties.                                                             *)

(***************************************************************************)
(* The hang-ups wd_evaluate counts are exactly the periods in which kmain  *)
(* made no round of its loop, plus the periods in which all its rounds     *)
(* were made while wd_disable was in force.  So a panic of the watchdog    *)
(* over a kmain that does run is due to wd_disable and to nothing else.    *)
(* The counts end one above their limits, where the machine halts.         *)
(***************************************************************************)
HangupsExplained ==
    /\ WdTypeOK
    /\ wd_kmain_hangups = silent + muted
    /\ wd_total_hangups = wd_kmain_hangups

(***************************************************************************)
(* A kmain that hung is noticed in time: the kernel panics at the latest   *)
(* WD_HU_LIMIT_KMAIN + 2 periods of wd_evaluate later, whatever the timer  *)
(* table went through and whether or not the watchdog is enabled.          *)
(***************************************************************************)
Patience == (WD_HU_LIMIT_KMAIN + 2) * WdRate

PanicInTime ==
    (kmain = "hung" /\ ~halted) => timer_hi <= hungAt + Patience

(***************************************************************************)
(* A kmain that hung is noticed: as long as the bound on ticks leaves the  *)
(* time for it, panic is eventually called.                                *)
(***************************************************************************)
HungKmainPanics ==
    (kmain = "hung" /\ hungAt + Patience <= MaxTick) ~> halted

=============================================================================
