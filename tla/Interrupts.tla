----------------------------- MODULE Interrupts -----------------------------
(***************************************************************************)
(* Interrupts on x86: the descriptor table (low/idt.c), the exceptions     *)
(* (low/isr.c), the two interrupt controllers as low/irq.c programs and    *)
(* acknowledges them, the installation of the PIT (drivers/pit.c) and the  *)
(* order in which x86_early brings all this up.  The controllers are       *)
(* hardware: they keep requested and in-service lines, give the processor  *)
(* the line of highest priority, and hold back what is not of higher       *)
(* priority than a line in service.                                        *)
(***************************************************************************)
EXTENDS Integers, FiniteSets

CONSTANTS
    Lines,        \* the lines that devices raise, of 0 .. 15
    Spurious,     \* the lines on which a request may vanish: of {7, 15}
    Exceptions    \* the exceptions that may happen, of 0 .. 31

ASSUME InterruptsAssumption ==
    /\ Lines \subseteq 0 .. 15 \ {2} /\ Spurious \subseteq {7, 15}
    /\ Exceptions \subseteq 0 .. 31

VARIABLES
    boot,         \* how far x86_early is, an index into BootOrder
    gates,        \* vectors with a gate in idt
    handlers,     \* interrupt_handlers: vector -> handler or "none"
    base,         \* the vector of line 0
    requested,    \* lines whose request waits (IRR of both controllers)
    in_service,   \* lines in service (ISR of both controllers)
    recent,       \* lines raised since nothing waited: see Raise
    IF_flag,      \* the processor takes interrupts
    cpu,          \* "thread", "gate", "eoi_slave", "eoi_master", "halted"
    int_no        \* the vector being handled

intVars == <<boot, gates, handlers, base, requested, in_service, recent,
             IF_flag, cpu, int_no>>

BootOrder == <<"idt_setup", "isrs_setup", "irq_install", "kb_init",
               "paging_init", "sti", "pit_init", "kmain">>

IRQ0 == 32
IRQ1 == 33

\* The loader leaves interrupts off and the controllers at vectors 8 .. 15.
IntInit ==
    /\ boot = 1 /\ gates = {} /\ base = 8 /\ IF_flag = FALSE
    /\ handlers = [n \in 0 .. 47 |-> "none"]
    /\ requested = {} /\ in_service = {} /\ recent = {}
    /\ cpu = "thread" /\ int_no = 0

-----------------------------------------------------------------------------
(* The boot processor, step by step; interrupts are on from "sti".         *)

BootStep(name) == cpu = "thread" /\ BootOrder[boot] = name /\ boot' = boot + 1

\* memset over the table, idt_load.
IdtSetup ==
    /\ BootStep("idt_setup") /\ gates' = {}
    /\ UNCHANGED <<handlers, base, requested, in_service, recent, IF_flag, cpu, int_no>>

IsrsSetup ==
    /\ BootStep("isrs_setup") /\ gates' = gates \cup 0 .. 31
    /\ UNCHANGED <<handlers, base, requested, in_service, recent, IF_flag, cpu, int_no>>

\* irq_remap programs both controllers, which forget what they had in
\* service, and unmasks all lines; then the gates of the 16 lines.
IrqInstall ==
    /\ BootStep("irq_install")
    /\ base' = 32 /\ in_service' = {}
    /\ gates' = gates \cup 32 .. 47
    /\ UNCHANGED <<handlers, requested, recent, IF_flag, cpu, int_no>>

register_interrupt_handler(n, h) == handlers' = [handlers EXCEPT ![n] = h]

KbInit ==
    /\ BootStep("kb_init") /\ register_interrupt_handler(IRQ1, "kb_handler")
    /\ UNCHANGED <<gates, base, requested, in_service, recent, IF_flag, cpu, int_no>>

PagingInit ==
    /\ BootStep("paging_init") /\ register_interrupt_handler(14, "paging_fault")
    /\ UNCHANGED <<gates, base, requested, in_service, recent, IF_flag, cpu, int_no>>

Sti ==
    /\ BootStep("sti") /\ IF_flag' = TRUE
    /\ UNCHANGED <<gates, handlers, base, requested, in_service, recent, cpu, int_no>>

\* device_start calls pit_start: the handler first, then pit_phase.
PitInit ==
    /\ BootStep("pit_init") /\ register_interrupt_handler(IRQ0, "timer_handler")
    /\ UNCHANGED <<gates, base, requested, in_service, recent, IF_flag, cpu, int_no>>

\* kb_stop and kb_start, by a thread with interrupts on.
KbStop ==
    /\ cpu = "thread" /\ BootOrder[boot] = "kmain"
    /\ handlers[IRQ1] # "none" /\ handlers' = [handlers EXCEPT ![IRQ1] = "none"]
    /\ UNCHANGED <<boot, gates, base, requested, in_service, recent, IF_flag, cpu, int_no>>

KbStart ==
    /\ cpu = "thread" /\ BootOrder[boot] = "kmain" /\ handlers[IRQ1] = "none"
    /\ register_interrupt_handler(IRQ1, "kb_handler")
    /\ UNCHANGED <<boot, gates, base, requested, in_service, recent, IF_flag, cpu, int_no>>

Boot ==
    \/ IdtSetup \/ IsrsSetup \/ IrqInstall \/ KbInit \/ PagingInit \/ Sti
    \/ PitInit

-----------------------------------------------------------------------------
(* The controllers.                                                        *)

\* Priorities: the slave's lines 8 .. 15 come in on line 2.
Priority(l) == IF l >= 8 THEN <<2, l>> ELSE <<l, 0>>
Above(k, l) == Priority(k)[1] < Priority(l)[1]
               \/ (Priority(k)[1] = Priority(l)[1] /\ Priority(k)[2] < Priority(l)[2])

\* A device raises its line.  Handling all the lines takes less time than
\* passes between two requests of one line.
Raise(l) ==
    /\ cpu # "halted" /\ l \notin requested /\ l \notin recent
    /\ requested' = requested \cup {l} /\ recent' = recent \cup {l}
    /\ UNCHANGED <<boot, gates, handlers, base, in_service, IF_flag, cpu, int_no>>

\* The lines a request or acknowledge of l occupies: a slave's line also the
\* cascade.
Occupies(l) == IF l >= 8 THEN {2, l} ELSE {l}

\* Delivery sets the line in service and the gate turns interrupts off.
Deliver(l) ==
    /\ IF_flag /\ cpu = "thread" /\ l \in requested
    /\ \A k \in requested \ {l} : Above(l, k)
    /\ \A k \in in_service : Above(l, k)
    /\ requested' = requested \ {l}
    /\ in_service' = in_service \cup Occupies(l)
    /\ recent' = IF requested' = {} THEN {} ELSE recent
    /\ int_no' = base + l /\ cpu' = "gate" /\ IF_flag' = FALSE
    /\ UNCHANGED <<boot, gates, handlers, base>>

\* A request that vanishes before it is acknowledged comes in as line 7 or 15
\* and is not in service, but for the slave's the cascade is.
DeliverSpurious(l) ==
    /\ IF_flag /\ cpu = "thread" /\ requested = {} /\ in_service = {}
    /\ in_service' = Occupies(l) \ {l}
    /\ int_no' = base + l /\ cpu' = "gate" /\ IF_flag' = FALSE
    /\ UNCHANGED <<boot, gates, handlers, base, requested, recent>>

\* The non-specific end of interrupt takes the line of highest priority out
\* of service.
Eoi(served) ==
    LET top == {l \in served : \A k \in served : k = l \/ Above(l, k)}
    IN  in_service \ top

\* The master's lines, its cascade among them.
OfMaster(S) == S \cap 0 .. 7
OfSlave(S) == S \cap 8 .. 15

-----------------------------------------------------------------------------
(* irq_handler, from the gate on, interrupts off to its iret.              *)

\* Fault: the slave is acknowledged for vectors above 40 only.
CallHandlerOffByOne ==
    /\ cpu = "gate"
    /\ cpu' = IF int_no > 40 THEN "eoi_slave" ELSE "eoi_master"
    /\ UNCHANGED <<boot, gates, handlers, base, requested, in_service, recent,
                   IF_flag, int_no>>

\* The handler, if there is one; the action of Scheduler adds what it does.
CallHandler ==
    /\ cpu = "gate"
    /\ cpu' = IF int_no >= 40 THEN "eoi_slave" ELSE "eoi_master"
    /\ UNCHANGED <<boot, gates, handlers, base, requested, in_service, recent,
                   IF_flag, int_no>>

EoiSlave ==
    /\ cpu = "eoi_slave"
    /\ in_service' = Eoi(OfSlave(in_service))
    /\ cpu' = "eoi_master"
    /\ UNCHANGED <<boot, gates, handlers, base, requested, recent, IF_flag, int_no>>

\* Fault: the master is not acknowledged for the slave's lines.
EoiMasterOnce ==
    /\ cpu = "eoi_master"
    /\ in_service' = IF int_no >= 40 THEN in_service ELSE Eoi(OfMaster(in_service))
    /\ cpu' = "thread" /\ IF_flag' = TRUE
    /\ UNCHANGED <<boot, gates, handlers, base, requested, recent, int_no>>

\* The master, then iret.
EoiMaster ==
    /\ cpu = "eoi_master"
    /\ in_service' = Eoi(OfMaster(in_service))
    /\ cpu' = "thread" /\ IF_flag' = TRUE
    /\ UNCHANGED <<boot, gates, handlers, base, requested, recent, int_no>>

\* fault_handler: a page fault is first sent through irq_handler, its EOI to
\* the master included; then the processor halts with interrupts off.
Fault(n) ==
    /\ cpu # "halted" /\ n \in gates
    /\ in_service' = IF n = 14 THEN Eoi(OfMaster(in_service)) ELSE in_service
    /\ int_no' = n /\ cpu' = "halted" /\ IF_flag' = FALSE
    /\ UNCHANGED <<boot, gates, handlers, base, requested, recent>>

-----------------------------------------------------------------------------
(* Properties.                                                             *)

(***************************************************************************)
(* Whenever a thread runs, no line is left in service at either            *)
(* controller, spurious requests of both included: a line that was not     *)
(* acknowledged would keep out its own requests and those below it.  And   *)
(* every interrupt the processor takes finds its gate.                     *)
(***************************************************************************)
Acknowledged ==
    /\ cpu = "thread" => in_service = {}
    /\ cpu = "gate" => int_no \in gates /\ int_no >= 32

=============================================================================
