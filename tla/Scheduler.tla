----------------------------- MODULE Scheduler ------------------------------
(***************************************************************************)
(* The thread queue of scheduler.c and thread.c under the interrupts: a    *)
(* thread starts the scheduler and adds threads while the timer interrupt  *)
(* calls scheduler_update, between any two of its stores that the handler  *)
(* can see.  A tick stands for a period of the scheduler's timer (Timing   *)
(* models the table).  scheduler_update only moves tcurrent: its call of   *)
(* thread_switch is commented out, so the threads added never run.         *)
(***************************************************************************)
EXTENDS Interrupts, Sequences

CONSTANTS
    MaxThreads,   \* bound: threads created
    NULL          \* the null pointer

\* Thread ids; 0 is the one of threading_start.
Threads == 0 .. MaxThreads - 1

ASSUME SchedulerAssumption ==
    MaxThreads \in Nat \ {0} /\ NULL \notin Threads

VARIABLES
    next,         \* the items, named by their thread: the next pointer
    tqueue, tcurrent,
    scheduler_state,
    thread_id,    \* the next id, thread_create's counter
    registered,   \* scheduler_update is in the timer table
    linked,       \* scheduler_add_thread is past its store to test->next
    turns         \* history: the threads made current, newest first, up to
                  \* the number of threads

schVars == <<next, tqueue, tcurrent, scheduler_state, thread_id, registered,
             linked, turns>>
vars == <<intVars, schVars>>

SchInit ==
    /\ next = [t \in Threads |-> NULL]
    /\ tqueue = NULL /\ tcurrent = NULL
    /\ scheduler_state = 0 /\ thread_id = 0
    /\ registered = FALSE /\ linked = FALSE /\ turns = <<>>

Init == IntInit /\ SchInit

Running == cpu = "thread" /\ BootOrder[boot] = "kmain"

\* The id of a new thread, in thread_create and threading_start.
TakeId == thread_id' = thread_id + 1

\* threading_start and scheduler_init: nothing sees the queue before the
\* timer is registered, which is the last thing done.
SchedulerInit ==
    /\ Running /\ tqueue = NULL
    /\ tqueue' = thread_id /\ tcurrent' = thread_id /\ TakeId
    /\ registered' = TRUE
    /\ UNCHANGED <<intVars, next, scheduler_state, linked, turns>>

\* The loop over the items: from tqueue, from next pointer to next pointer,
\* to the item that has none.
Walk(q) ==
    /\ q[1] = tqueue
    /\ \A k \in 1 .. Len(q) - 1 : q[k + 1] = next[q[k]]
    /\ next[q[Len(q)]] = NULL

\* The items it visits, in order (the loop ends only if there is such a walk).
Queue ==
    IF tqueue = NULL THEN <<>>
    ELSE CHOOSE q \in UNION {[1 .. n -> Threads] : n \in 1 .. MaxThreads} : Walk(q)

\* Fault: the new item goes behind the first one instead of the last.
AddThreadFront ==
    /\ Running /\ tqueue # NULL /\ thread_id \in Threads /\ ~linked
    /\ next' = [next EXCEPT ![tqueue] = thread_id]
    /\ TakeId /\ linked' = TRUE
    /\ UNCHANGED <<intVars, tqueue, tcurrent, scheduler_state, registered, turns>>

\* thread_create, then scheduler_add_thread up to the store that links the
\* new item behind the last one; the item itself is private until then.
AddThread ==
    /\ Running /\ tqueue # NULL /\ thread_id \in Threads /\ ~linked
    /\ next' = [next EXCEPT ![Queue[Len(Queue)]] = thread_id]
    /\ TakeId /\ linked' = TRUE
    /\ UNCHANGED <<intVars, tqueue, tcurrent, scheduler_state, registered, turns>>

\* Its last store.
AddThreadDone ==
    /\ Running /\ linked
    /\ scheduler_state' = 1 /\ linked' = FALSE
    /\ UNCHANGED <<intVars, next, tqueue, tcurrent, thread_id, registered, turns>>

Newest(s) == IF Len(s) > MaxThreads THEN SubSeq(s, 1, MaxThreads) ELSE s

\* Fault: the end of the queue is not noticed one item early enough.
scheduler_updateShort ==
    /\ tcurrent' = IF next[tcurrent] = NULL \/ next[next[tcurrent]] = NULL
                   THEN tqueue ELSE next[tcurrent]
    /\ turns' = Newest(<<tcurrent'>> \o turns)

scheduler_update ==
    /\ tcurrent' = IF next[tcurrent] = NULL THEN tqueue ELSE next[tcurrent]
    /\ turns' = Newest(<<tcurrent'>> \o turns)

\* irq_handler on the timer's vector: timer_handler ticks, and the timer's
\* callback runs, when there are both.
TimerTick ==
    /\ CallHandler /\ int_no = IRQ0
    /\ handlers[int_no] = "timer_handler" /\ registered /\ scheduler_state = 1
    /\ scheduler_update
    /\ UNCHANGED <<next, tqueue, scheduler_state, thread_id, registered, linked>>

OtherInterrupt ==
    /\ CallHandler
    /\ ~(/\ int_no = IRQ0 /\ handlers[int_no] = "timer_handler"
         /\ registered /\ scheduler_state = 1)
    /\ UNCHANGED schVars

Processor ==
    \/ TimerTick \/ OtherInterrupt
    \/ (Boot \/ EoiSlave \/ EoiMaster) /\ UNCHANGED schVars

Next ==
    \/ Processor
    \/ \E l \in Lines : (Raise(l) \/ Deliver(l)) /\ UNCHANGED schVars
    \/ \E l \in Spurious : DeliverSpurious(l) /\ UNCHANGED schVars
    \/ \E n \in Exceptions : Fault(n) /\ UNCHANGED schVars
    \/ (KbStop \/ KbStart) /\ UNCHANGED schVars
    \/ SchedulerInit \/ AddThread \/ AddThreadDone

\* The processor goes on, takes the interrupts it may take, and the PIT
\* ticks; nothing is assumed of the threads and of the other devices.
Spec ==
    /\ Init /\ [][Next]_vars
    /\ WF_vars(Processor)
    /\ \A l \in Lines : WF_vars(Deliver(l) /\ UNCHANGED schVars)
    /\ WF_vars(Raise(0) /\ UNCHANGED schVars)

-----------------------------------------------------------------------------
(* Properties.                                                             *)

(***************************************************************************)
(* A line that is raised is taken by the processor in the end, whatever    *)
(* its controller and whatever interrupts it meets, unless an exception    *)
(* has stopped the machine.                                                *)
(***************************************************************************)
LinesServed ==
    \A l \in Lines : (l \in requested) ~> (l \notin requested \/ cpu = "halted")

(***************************************************************************)
(* No tick finds the queue broken: it holds the threads created, each once *)
(* and in the order they were added; while the scheduler is on tcurrent is *)
(* an item of it, and successive turns follow the order of the queue or    *)
(* come round to its head.                                                 *)
(***************************************************************************)
QueueComplete ==
    /\ Queue = [k \in 1 .. thread_id |-> k - 1]
    /\ scheduler_state = 1 => tcurrent \in 0 .. thread_id - 1
    /\ \A k \in 1 .. Len(turns) - 1 : turns[k] \in {turns[k + 1] + 1, 0}

(***************************************************************************)
(* Round robin: once the scheduler is on, every thread in the queue is     *)
(* made current again and again, until the machine stops.                  *)
(***************************************************************************)
EveryThreadScheduled ==
    \A t \in Threads :
        (scheduler_state = 1 /\ t < thread_id)
            ~> (tcurrent = t \/ cpu = "halted")

=============================================================================
