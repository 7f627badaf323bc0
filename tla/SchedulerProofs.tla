--------------------------- MODULE SchedulerProofs --------------------------
(***************************************************************************)
(* Theorems about the interrupt controllers and the thread queue, for      *)
(* every set of lines, spurious requests and exceptions and every number   *)
(* of threads.                                                             *)
(***************************************************************************)
EXTENDS Scheduler, TLAPS, WellFoundedInduction

-----------------------------------------------------------------------------
(* Every line is acknowledged.                                             *)

LEMMA BootNames ==
    ASSUME NEW b \in 1 .. 8
    PROVE  /\ BootOrder[b] = "idt_setup" => b = 1
           /\ BootOrder[b] = "isrs_setup" => b = 2
           /\ BootOrder[b] = "irq_install" => b = 3
           /\ BootOrder[b] = "kb_init" => b = 4
           /\ BootOrder[b] = "paging_init" => b = 5
           /\ BootOrder[b] = "sti" => b = 6
           /\ BootOrder[b] = "pit_init" => b = 7
           /\ BootOrder[b] = "kmain" => b = 8
BY DEF BootOrder

\* Interrupts are off until the gates of the lines are set and the
\* controllers deliver them there.
BootOK ==
    /\ boot \in 1 .. 8
    /\ boot > 3 => base = 32 /\ 32 .. 47 \subseteq gates
    /\ IF_flag \/ cpu \in {"gate", "eoi_slave", "eoi_master"} => boot > 6

\* What is in service while a vector is handled: its line (unless the request
\* was spurious), and the cascade for a line of the slave.
ServiceOK ==
    /\ cpu = "thread" => in_service = {}
    /\ cpu \in {"gate", "eoi_slave"} =>
          /\ int_no \in 32 .. 47
          /\ int_no < 40 => in_service \in {{}, {int_no - 32}}
          /\ int_no >= 40 => in_service \in {{2}, {2, int_no - 32}}
    /\ cpu = "eoi_slave" => int_no >= 40
    /\ cpu = "eoi_master" => in_service = {} \/ \E l \in 0 .. 7 : in_service = {l}

IntInv == BootOK /\ ServiceOK

\* The end of interrupt takes the only line of a controller out of service,
\* and none when there is none.
LEMMA EoiOnly ==
    ASSUME NEW l
    PROVE  Eoi({l}) = in_service \ {l}
<1>1. {k \in {l} : \A m \in {l} : m = k \/ Above(k, m)} = {l}
  OBVIOUS
<1> QED
  BY <1>1 DEF Eoi

LEMMA EoiNone == Eoi({}) = in_service
BY DEF Eoi

IntAction ==
    \/ Boot \/ KbStop \/ KbStart
    \/ \E l \in Lines : Raise(l) \/ Deliver(l)
    \/ \E l \in Spurious : DeliverSpurious(l)
    \/ CallHandler \/ EoiSlave \/ EoiMaster
    \/ \E n \in Exceptions : Fault(n)

LEMMA SchedulerStep ==
    ASSUME [Next]_vars
    PROVE  [IntAction]_intVars
BY DEF Next, Processor, TimerTick, OtherInterrupt, IntAction, vars,
       SchedulerInit, AddThread, AddThreadDone

LEMMA IntNext ==
    ASSUME IntInv, [IntAction]_intVars
    PROVE  IntInv'
<1> USE DEF IntInv
<1>1. CASE Boot
  <2>1. /\ cpu = "thread" /\ cpu' = "thread" /\ boot' = boot + 1
        /\ in_service = {} /\ in_service' = {}
        /\ BootOrder[boot] \in {"idt_setup", "isrs_setup", "irq_install",
               "kb_init", "paging_init", "sti", "pit_init"}
    BY <1>1 DEF Boot, IdtSetup, IsrsSetup, IrqInstall, KbInit, PagingInit, Sti,
                PitInit, BootStep, ServiceOK
  <2>2. boot \in 1 .. 7
    BY <2>1 DEF BootOK, BootOrder
  <2>3. boot' > 3 => base' = 32 /\ 32 .. 47 \subseteq gates'
    BY <1>1, <2>1, <2>2, BootNames
       DEF Boot, IdtSetup, IsrsSetup, IrqInstall, KbInit, PagingInit, Sti,
           PitInit, BootStep, BootOK
  <2>4. IF_flag' => boot' > 6
    <3>1. Sti \/ IF_flag' = IF_flag
      BY <1>1 DEF Boot, IdtSetup, IsrsSetup, IrqInstall, KbInit, PagingInit,
                  PitInit
    <3>2. Sti => boot = 6
      BY <2>2, BootNames DEF Sti, BootStep
    <3>3. IF_flag => boot > 6
      BY DEF BootOK
    <3>4. boot = 6 \/ boot > 6 => boot' > 6
      BY <2>1, <2>2
    <3>5. IF_flag' => Sti \/ IF_flag
      BY <3>1, Zenon
    <3> QED
      BY <3>2, <3>3, <3>4, <3>5
  <2> QED
    BY <2>1, <2>2, <2>3, <2>4 DEF BootOK, ServiceOK
<1>2. CASE KbStop \/ KbStart \/ \E l \in Lines : Raise(l)
  BY <1>2 DEF KbStop, KbStart, Raise, BootOK, ServiceOK
<1>3. ASSUME NEW l \in Lines, Deliver(l) PROVE IntInv'
  <2>1. /\ boot > 6 /\ base = 32 /\ in_service = {} /\ boot \in Nat
        /\ l \in 0 .. 15
    BY <1>3, InterruptsAssumption DEF Deliver, BootOK, ServiceOK
  <2>2. int_no' = 32 + l /\ cpu' = "gate" /\ in_service' = Occupies(l)
    BY <1>3, <2>1 DEF Deliver
  <2>3. int_no' - 32 = l
    BY <2>1, <2>2
  <2>4. ServiceOK'
    BY <2>1, <2>2, <2>3 DEF ServiceOK, Occupies
  <2> QED
    BY <1>3, <2>1, <2>2, <2>4 DEF Deliver, BootOK
<1>4. ASSUME NEW l \in Spurious, DeliverSpurious(l) PROVE IntInv'
  <2>1. boot > 6 /\ base = 32 /\ boot \in Nat /\ l \in {7, 15}
    BY <1>4, InterruptsAssumption DEF DeliverSpurious, BootOK
  <2>2. int_no' = 32 + l /\ cpu' = "gate" /\ in_service' = Occupies(l) \ {l}
    BY <1>4, <2>1 DEF DeliverSpurious
  <2>3. ServiceOK'
    BY <2>1, <2>2 DEF ServiceOK, Occupies
  <2> QED
    BY <1>4, <2>1, <2>2, <2>3 DEF DeliverSpurious, BootOK
<1>5. CASE CallHandler
  BY <1>5 DEF CallHandler, BootOK, ServiceOK
<1>6. CASE EoiSlave
  <2> DEFINE l == int_no - 32
  <2>1. l \in 8 .. 15 /\ in_service \in {{2}, {2, l}}
    BY <1>6 DEF EoiSlave, ServiceOK
  <2>2. in_service' = Eoi(OfSlave(in_service))
    BY <1>6 DEF EoiSlave
  <2> HIDE DEF l
  <2>3. ASSUME in_service = {2} PROVE in_service' = {2}
    <3>1. OfSlave(in_service) = {}
      BY <2>3 DEF OfSlave
    <3> QED
      BY <2>2, <2>3, <3>1, EoiNone
  <2>4. ASSUME in_service = {2, l} PROVE in_service' = {2}
    <3>1. l # 2 /\ 2 \notin 8 .. 15
      BY <2>1
    <3>2. OfSlave({2, l}) = {l}
      BY <2>1, <3>1, Zenon DEF OfSlave
    <3>3. in_service' = in_service \ {l}
      BY <2>2, <2>4, <3>2, EoiOnly
    <3> QED
      BY <2>4, <3>1, <3>3
  <2>5. in_service' = {2}
    BY <2>1, <2>3, <2>4
  <2> QED
    BY <1>6, <2>5 DEF EoiSlave, BootOK, ServiceOK
<1>7. CASE EoiMaster
  <2>1. in_service' = {}
    <3>1. CASE in_service = {}
      <4>1. OfMaster(in_service) = {}
        BY <3>1 DEF OfMaster
      <4> QED
        BY <1>7, <3>1, <4>1, EoiNone DEF EoiMaster
    <3>2. CASE in_service # {}
      <4>1. PICK l \in 0 .. 7 : in_service = {l}
        BY <1>7, <3>2 DEF EoiMaster, ServiceOK
      <4>2. OfMaster({l}) = {l}
        BY Zenon DEF OfMaster
      <4>3. in_service' = in_service \ {l}
        BY <1>7, <4>1, <4>2, EoiOnly DEF EoiMaster
      <4> QED
        BY <4>1, <4>3
    <3> QED
      BY <3>1, <3>2
  <2> QED
    BY <1>7, <2>1 DEF EoiMaster, BootOK, ServiceOK
<1>8. ASSUME NEW n \in Exceptions, Fault(n) PROVE IntInv'
  BY <1>8 DEF Fault, BootOK, ServiceOK
<1>9. CASE UNCHANGED intVars
  BY <1>9 DEF intVars, BootOK, ServiceOK
<1> QED
  BY <1>1, <1>2, <1>3, <1>4, <1>5, <1>6, <1>7, <1>8, <1>9 DEF IntAction

LEMMA IntInitOK == Init => IntInv
BY DEF Init, IntInit, IntInv, BootOK, ServiceOK

\* For every set of lines and spurious requests: irq_handler leaves no line
\* in service behind, and no interrupt comes before its gate is set.
THEOREM LinesAcknowledged == Spec => []Acknowledged
<1>1. Init => IntInv
  BY IntInitOK
<1>2. IntInv /\ [Next]_vars => IntInv'
  BY SchedulerStep, IntNext
<1>3. IntInv => Acknowledged
  <2> SUFFICES ASSUME IntInv PROVE Acknowledged
    OBVIOUS
  <2>1. cpu = "gate" => int_no \in 32 .. 47 /\ 32 .. 47 \subseteq gates
    BY DEF IntInv, BootOK, ServiceOK
  <2> QED
    BY <2>1 DEF IntInv, ServiceOK, Acknowledged
<1> QED
  BY <1>1, <1>2, <1>3, PTL DEF Spec

-----------------------------------------------------------------------------
(* The queue is whole.                                                     *)

\* Before scheduler_init there is no queue; after it the items are linked in
\* the order of their ids and tcurrent is one of them.
LinkedInOrder ==
    /\ next \in [Threads -> Threads \cup {NULL}]
    /\ \A t \in Threads : next[t] = IF t + 1 < thread_id THEN t + 1 ELSE NULL

StartedOK ==
    \/ /\ tqueue = NULL /\ thread_id = 0
       /\ scheduler_state = 0 /\ ~registered /\ ~linked /\ turns = <<>>
    \/ /\ tqueue = 0 /\ thread_id \in 1 .. MaxThreads
       /\ tcurrent \in 0 .. thread_id - 1

TurnsOK ==
    /\ turns \in Seq(Threads)
    /\ turns # <<>> => turns[1] = tcurrent
    /\ \A k \in 1 .. Len(turns) - 1 : turns[k] \in {turns[k + 1] + 1, 0}

QueueInv == LinkedInOrder /\ StartedOK /\ TurnsOK

\* Induction over numbers, as far as the provers reach: a set of numbers that
\* is not empty has a least element.
LEMMA NatMin ==
    ASSUME NEW T \in SUBSET Nat, T # {}
    PROVE  \E x \in T : \A y \in T : x <= y
<1>1. \E x \in T : \A y \in T : ~(<<y, x>> \in OpToRel(<, Nat))
  BY WFMin, NatLessThanWellFounded
<1>2. \A x, y \in Nat : y < x => <<y, x>> \in OpToRel(<, Nat)
  BY Zenon DEF OpToRel
<1>3. \E x \in T : \A y \in T : ~(y < x)
  BY <1>1, <1>2, Zenon
<1> QED
  BY <1>3

\* A walk over items that are linked in order visits them in order.
LEMMA WalkInOrder ==
    ASSUME LinkedInOrder, tqueue = 0, thread_id \in 1 .. MaxThreads,
           NEW n \in 1 .. MaxThreads, NEW q \in [1 .. n -> Threads], Walk(q)
    PROVE  n = thread_id /\ \A k \in 1 .. n : q[k] = k - 1
<1>0. Len(q) = n /\ MaxThreads \in Nat /\ NULL \notin Threads /\ n \in Nat
  BY SchedulerAssumption
<1>1. \A k \in 1 .. n : q[k] = k - 1
  <2> DEFINE T == {k \in 1 .. n : q[k] # k - 1}
  <2> SUFFICES ASSUME T # {} PROVE FALSE
    OBVIOUS
  <2>1. T \in SUBSET Nat
    BY <1>0
  <2>2. PICK x \in T : \A y \in T : x <= y
    BY <2>1, NatMin
  <2>3. x \in 1 .. n /\ q[x] # x - 1
    BY <2>2
  <2>4. x # 1
    BY <2>3 DEF Walk
  <2>5. x - 1 \in 1 .. n - 1 /\ x - 1 \in 1 .. n /\ ~(x <= x - 1)
    BY <1>0, <2>3, <2>4
  <2>6. x - 1 \notin T
    BY <2>2, <2>5
  <2>7. q[x - 1] = (x - 1) - 1
    BY <2>5, <2>6
  <2> HIDE DEF T
  <2>8. q[(x - 1) + 1] = next[q[x - 1]]
    BY <1>0, <2>5 DEF Walk
  <2>9. (x - 1) + 1 = x /\ ((x - 1) - 1) + 1 = x - 1
    BY <2>3
  <2>10. q[x - 1] \in Threads /\ q[x] \in Threads
    BY <2>3, <2>5
  <2>11. next[q[x - 1]] \in {q[x - 1] + 1, NULL}
    BY <2>10 DEF LinkedInOrder
  <2>12. q[x] = x - 1
    BY <1>0, <2>7, <2>8, <2>9, <2>10, <2>11
  <2> QED
    BY <2>3, <2>12
<1>2. n = thread_id
  <2>1. n \in 1 .. n
    BY <1>0
  <2>2. q[n] = n - 1 /\ n - 1 \in Threads /\ next[n - 1] = NULL
    BY <1>0, <1>1, <2>1 DEF Walk
  <2>3. (n - 1) + 1 = n
    BY <1>0
  <2>4. n >= thread_id
    <3> SUFFICES ASSUME n < thread_id PROVE FALSE
      BY <1>0
    <3>1. next[n - 1] = n /\ n \in Threads
      BY <1>0, <2>2, <2>3 DEF LinkedInOrder, Threads
    <3> QED
      BY <1>0, <2>2, <3>1
  <2>5. n <= thread_id
    <3> SUFFICES ASSUME n > thread_id PROVE FALSE
      BY <1>0
    <3> DEFINE t == thread_id
    <3>1. t \in 1 .. n - 1 /\ t \in 1 .. n /\ t + 1 \in 1 .. n /\ (t - 1) + 1 = t
      BY <1>0
    <3>2. q[t] = t - 1 /\ q[t] \in Threads /\ q[t + 1] \in Threads
      BY <1>1, <3>1
    <3>3. q[t + 1] = next[t - 1]
      BY <1>0, <3>1, <3>2 DEF Walk
    <3>4. next[t - 1] = NULL
      BY <1>0, <3>1, <3>2 DEF LinkedInOrder
    <3> QED
      BY <1>0, <3>2, <3>3, <3>4
  <2> QED
    BY <1>0, <2>4, <2>5
<1> QED
  BY <1>1, <1>2

InOrder(n) == [k \in 1 .. n |-> k - 1]

\* So the queue holds the threads created, in the order of their creation.
LEMMA QueueIsInOrder ==
    ASSUME QueueInv
    PROVE  Queue = InOrder(thread_id)
<1>0. MaxThreads \in Nat /\ NULL \notin Threads
  BY SchedulerAssumption
<1>1. CASE tqueue = NULL
  <2>1. thread_id = 0
    BY <1>0, <1>1, SchedulerAssumption DEF QueueInv, StartedOK, Threads
  <2>2. InOrder(0) = <<>>
    BY DEF InOrder
  <2> QED
    BY <1>1, <2>1, <2>2 DEF Queue
<1>2. CASE tqueue # NULL
  <2> DEFINE Walks == UNION {[1 .. n -> Threads] : n \in 1 .. MaxThreads}
             t == thread_id
  <2>1. tqueue = 0 /\ t \in 1 .. MaxThreads /\ LinkedInOrder
    BY <1>2 DEF QueueInv, StartedOK
  <2>2. InOrder(t) \in [1 .. t -> Threads]
    BY <1>0, <2>1 DEF InOrder, Threads
  <2>3. InOrder(t) \in Walks
    BY <2>1, <2>2
  <2>4. Walk(InOrder(t))
    <3>1. Len(InOrder(t)) = t
      BY <1>0, <2>1 DEF InOrder
    <3>2. InOrder(t)[1] = 0 /\ InOrder(t)[t] = t - 1
      BY <1>0, <2>1 DEF InOrder
    <3>3. next[t - 1] = NULL
      <4>1. t - 1 \in Threads /\ (t - 1) + 1 = t
        BY <1>0, <2>1 DEF Threads
      <4> QED
        BY <1>0, <2>1, <4>1 DEF LinkedInOrder
    <3>4. ASSUME NEW k \in 1 .. t - 1
          PROVE  InOrder(t)[k + 1] = next[InOrder(t)[k]]
      <4>1. /\ InOrder(t)[k + 1] = (k + 1) - 1 /\ InOrder(t)[k] = k - 1
            /\ k - 1 \in Threads /\ (k - 1) + 1 = k /\ (k + 1) - 1 = k /\ k < t
        BY <1>0, <2>1 DEF InOrder, Threads
      <4>2. next[k - 1] = k
        BY <2>1, <4>1 DEF LinkedInOrder
      <4> QED
        BY <4>1, <4>2
    <3> QED
      BY <2>1, <3>1, <3>2, <3>3, <3>4 DEF Walk
  <2>5. ASSUME NEW q \in Walks, Walk(q) PROVE q = InOrder(t)
    <3>1. PICK n \in 1 .. MaxThreads : q \in [1 .. n -> Threads]
      BY <2>5
    <3>2. n = t /\ \A k \in 1 .. n : q[k] = k - 1
      BY <2>1, <2>5, <3>1, WalkInOrder
    <3> QED
      BY <3>1, <3>2 DEF InOrder
  <2> HIDE DEF Walks
  <2>6. (CHOOSE q \in Walks : Walk(q)) = InOrder(t)
    BY <2>3, <2>4, <2>5
  <2> QED
    BY <1>2, <2>6 DEF Queue, Walks
<1> QED
  BY <1>1, <1>2

\* The newest turns of a list of turns that are consecutive.
LEMMA NewestKeeps ==
    ASSUME NEW s \in Seq(Threads), s # <<>>,
           \A k \in 1 .. Len(s) - 1 : s[k] \in {s[k + 1] + 1, 0}
    PROVE  LET u == Newest(s)
           IN  /\ u \in Seq(Threads) /\ u # <<>> /\ u[1] = s[1]
               /\ \A k \in 1 .. Len(u) - 1 : u[k] \in {u[k + 1] + 1, 0}
<1>0. MaxThreads \in Nat \ {0} /\ Len(s) \in Nat \ {0}
  BY SchedulerAssumption
<1>1. CASE Len(s) > MaxThreads
  <2> DEFINE u == SubSeq(s, 1, MaxThreads)
  <2>1. /\ u \in Seq(Threads) /\ Len(u) = MaxThreads
        /\ \A k \in 1 .. MaxThreads : u[k] = s[k]
    BY <1>0, <1>1
  <2>2. Newest(s) = u
    BY <1>1 DEF Newest
  <2> HIDE DEF u
  <2>3. u # <<>> /\ u[1] = s[1]
    BY <1>0, <2>1
  <2>4. ASSUME NEW k \in 1 .. Len(u) - 1 PROVE u[k] \in {u[k + 1] + 1, 0}
    <3>1. k \in 1 .. MaxThreads /\ k + 1 \in 1 .. MaxThreads /\ k \in 1 .. Len(s) - 1
      BY <1>0, <1>1, <2>1
    <3> QED
      BY <2>1, <3>1
  <2> QED
    BY <2>1, <2>2, <2>3, <2>4
<1>2. CASE ~(Len(s) > MaxThreads)
  BY <1>2 DEF Newest
<1> QED
  BY <1>1, <1>2

LEMMA QueueNext ==
    ASSUME QueueInv, [Next]_vars
    PROVE  QueueInv'
<1>0. MaxThreads \in Nat \ {0} /\ NULL \notin Threads /\ 0 \in Threads
  BY SchedulerAssumption DEF Threads
<1>1. CASE UNCHANGED schVars
  BY <1>1 DEF schVars, QueueInv, LinkedInOrder, StartedOK, TurnsOK
<1>2. CASE SchedulerInit
  <2>1. /\ tqueue = NULL /\ thread_id = 0 /\ turns = <<>>
    BY <1>0, <1>2 DEF SchedulerInit, QueueInv, StartedOK
  <2>2. /\ tqueue' = 0 /\ tcurrent' = 0 /\ thread_id' = 1
        /\ next' = next /\ turns' = turns
    BY <1>2, <2>1 DEF SchedulerInit, TakeId
  <2>3. LinkedInOrder'
    <3>1. \A t \in Threads : ~(t + 1 < 0) /\ ~(t + 1 < 1)
      BY <1>0 DEF Threads
    <3> QED
      BY <2>1, <2>2, <3>1 DEF QueueInv, LinkedInOrder
  <2>4. StartedOK'
    BY <1>0, <2>2 DEF StartedOK
  <2>5. TurnsOK'
    BY <2>1, <2>2 DEF QueueInv, TurnsOK
  <2> QED
    BY <2>3, <2>4, <2>5 DEF QueueInv
<1>3. CASE AddThread
  <2> DEFINE n == thread_id
  <2>1. tqueue = 0 /\ n \in 1 .. MaxThreads /\ n \in Threads
        /\ tcurrent \in 0 .. n - 1
    BY <1>0, <1>3 DEF AddThread, QueueInv, StartedOK
  <2>2. Queue[Len(Queue)] = n - 1
    BY <1>0, <2>1, QueueIsInOrder DEF InOrder
  <2>3. /\ next' = [next EXCEPT ![n - 1] = n] /\ thread_id' = n + 1
        /\ UNCHANGED <<tqueue, tcurrent, turns>>
    BY <1>3, <2>2 DEF AddThread, TakeId
  <2>4. LinkedInOrder'
    <3>1. n - 1 \in Threads /\ (n - 1) + 1 = n /\ n < n + 1
      BY <1>0, <2>1 DEF Threads
    <3>2. next' \in [Threads -> Threads \cup {NULL}]
      BY <2>1, <2>3 DEF QueueInv, LinkedInOrder
    <3>3. ASSUME NEW t \in Threads
          PROVE  next'[t] = IF t + 1 < n + 1 THEN t + 1 ELSE NULL
      <4>1. CASE t = n - 1
        BY <2>3, <3>1, <4>1 DEF QueueInv, LinkedInOrder
      <4>2. CASE t # n - 1
        <5>1. next'[t] = next[t]
          BY <2>3, <4>2 DEF QueueInv, LinkedInOrder
        <5>2. t + 1 < n + 1 <=> t + 1 < n
          BY <1>0, <2>1, <4>2 DEF Threads
        <5> QED
          BY <5>1, <5>2 DEF QueueInv, LinkedInOrder
      <4> QED
        BY <4>1, <4>2
    <3> QED
      BY <2>3, <3>2, <3>3 DEF LinkedInOrder
  <2>5. StartedOK'
    BY <1>0, <2>1, <2>3 DEF StartedOK, Threads
  <2>6. TurnsOK'
    BY <2>3 DEF QueueInv, TurnsOK
  <2> QED
    BY <2>4, <2>5, <2>6 DEF QueueInv
<1>4. CASE AddThreadDone
  BY <1>4 DEF AddThreadDone, QueueInv, LinkedInOrder, StartedOK, TurnsOK
<1>5. CASE TimerTick
  <2>1. /\ UNCHANGED <<next, tqueue, scheduler_state, thread_id, registered, linked>>
        /\ scheduler_state = 1
        /\ tcurrent' = IF next[tcurrent] = NULL THEN tqueue ELSE next[tcurrent]
        /\ turns' = Newest(<<tcurrent'>> \o turns)
    BY <1>5 DEF TimerTick, scheduler_update
  <2>2. tqueue = 0 /\ thread_id \in 1 .. MaxThreads /\ tcurrent \in 0 .. thread_id - 1
    BY <2>1 DEF QueueInv, StartedOK
  <2>3. tcurrent \in Threads
    BY <1>0, <2>2 DEF Threads
  <2>4. /\ tcurrent' \in 0 .. thread_id - 1 /\ tcurrent' \in Threads
        /\ tcurrent' \in {tcurrent + 1, 0}
    <3>1. next[tcurrent] = IF tcurrent + 1 < thread_id THEN tcurrent + 1 ELSE NULL
      BY <2>3 DEF QueueInv, LinkedInOrder
    <3>2. tcurrent' \in {tcurrent + 1, 0} /\ tcurrent' \in 0 .. thread_id - 1
      <4>1. CASE next[tcurrent] = NULL
        BY <1>0, <2>1, <2>2, <4>1
      <4>2. CASE next[tcurrent] # NULL
        <5>1. tcurrent + 1 < thread_id /\ tcurrent' = tcurrent + 1
          BY <2>1, <3>1, <4>2, Zenon
        <5> QED
          BY <1>0, <2>2, <5>1
      <4> QED
        BY <4>1, <4>2
    <3> QED
      BY <1>0, <2>2, <3>2 DEF Threads
  <2> DEFINE s == <<tcurrent'>> \o turns
  <2>5. /\ s \in Seq(Threads) /\ s # <<>> /\ s[1] = tcurrent'
        /\ \A k \in 1 .. Len(s) - 1 : s[k] \in {s[k + 1] + 1, 0}
    <3>0. turns \in Seq(Threads) /\ Len(turns) \in Nat
      BY DEF QueueInv, TurnsOK
    <3>1. s \in Seq(Threads) /\ Len(s) = Len(turns) + 1 /\ s[1] = tcurrent'
      BY <2>4, <3>0
    <3>2. \A k \in 2 .. Len(s) : s[k] = turns[k - 1]
      BY <2>4, <3>0, <3>1
    <3> HIDE DEF s
    <3>3. ASSUME NEW k \in 1 .. Len(s) - 1 PROVE s[k] \in {s[k + 1] + 1, 0}
      <4>1. /\ k \in 1 .. Len(turns) /\ k + 1 \in 2 .. Len(s) /\ (k + 1) - 1 = k
            /\ turns # <<>>
        BY <3>0, <3>1
      <4>2. s[k + 1] = turns[k]
        BY <3>2, <4>1
      <4>3. CASE k = 1
        BY <2>4, <3>1, <4>1, <4>2, <4>3 DEF QueueInv, TurnsOK
      <4>4. CASE k # 1
        <5>1. k \in 2 .. Len(s) /\ k - 1 \in 1 .. Len(turns) - 1 /\ (k - 1) + 1 = k
          BY <3>0, <4>1, <4>4
        <5>2. s[k] = turns[k - 1]
          BY <3>2, <5>1
        <5>3. turns[k - 1] \in {turns[(k - 1) + 1] + 1, 0}
          BY <5>1 DEF QueueInv, TurnsOK
        <5> QED
          BY <4>2, <5>1, <5>2, <5>3
      <4> QED
        BY <4>3, <4>4
    <3> QED
      BY <3>0, <3>1, <3>3
  <2> HIDE DEF s
  <2>6. turns' = Newest(s)
    BY <2>1 DEF s
  <2>7. TurnsOK'
    <3>1. /\ Newest(s) \in Seq(Threads) /\ Newest(s)[1] = s[1]
          /\ \A k \in 1 .. Len(Newest(s)) - 1 :
                Newest(s)[k] \in {Newest(s)[k + 1] + 1, 0}
      BY <2>5, NewestKeeps
    <3> QED
      BY <2>5, <2>6, <3>1 DEF TurnsOK
  <2>8. LinkedInOrder' /\ StartedOK'
    BY <2>1, <2>2, <2>4 DEF QueueInv, LinkedInOrder, StartedOK
  <2> QED
    BY <2>7, <2>8 DEF QueueInv
<1>6. CASE UNCHANGED vars
  BY <1>1, <1>6 DEF vars
<1> QED
  BY <1>1, <1>2, <1>3, <1>4, <1>5, <1>6 DEF Next, Processor, OtherInterrupt

\* For every number of threads: whatever tick comes between the stores of
\* scheduler_add_thread finds all threads in the queue, once and in order,
\* and the turns follow it.
THEOREM QueueStaysComplete == Spec => []QueueComplete
<1>1. Init => QueueInv
  <2> SUFFICES ASSUME Init PROVE QueueInv
    OBVIOUS
  <2>1. LinkedInOrder
    <3>1. \A t \in Threads : ~(t + 1 < 0)
      BY SchedulerAssumption DEF Threads
    <3> QED
      BY <3>1 DEF Init, SchInit, LinkedInOrder
  <2>2. ~registered /\ ~linked
    BY Zenon DEF Init, SchInit
  <2>3. StartedOK
    BY <2>2 DEF Init, SchInit, StartedOK
  <2>4. TurnsOK
    BY DEF Init, SchInit, TurnsOK
  <2> QED
    BY <2>1, <2>3, <2>4 DEF QueueInv
<1>2. QueueInv /\ [Next]_vars => QueueInv'
  BY QueueNext
<1>3. QueueInv => QueueComplete
  <2> SUFFICES ASSUME QueueInv PROVE QueueComplete
    OBVIOUS
  <2>1. Queue = [k \in 1 .. thread_id |-> k - 1]
    BY QueueIsInOrder DEF InOrder
  <2>2. scheduler_state = 1 => tcurrent \in 0 .. thread_id - 1
    BY DEF QueueInv, StartedOK
  <2> QED
    BY <2>1, <2>2 DEF QueueComplete, QueueInv, TurnsOK
<1> QED
  BY <1>1, <1>2, <1>3, PTL DEF Spec

=============================================================================
