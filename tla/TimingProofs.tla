---------------------------- MODULE TimingProofs ----------------------------
(***************************************************************************)
(* Theorems about the timer table and the watchdog that depends on it, for *)
(* every number of slots, word size, set of delays and rates and every     *)
(* limit.  Those about the table come first and know nothing of the        *)
(* watchdog; every step of kmain, of the watchdog and of the tick interrupt*)
(* is a step of the table, so they hold under the watchdog too.            *)
(***************************************************************************)
EXTENDS Watchdog, TLAPS

Ops == {"boot", "idle", "scan", "build", "store", "find", "clear"}
Entry == [fire_tick : Word, repeat_rate : Word, handler : AnyHandler]
Timer == [delay : Word, fire_tick : Word, repeat_rate : Word,
          handler : AnyHandler]

\* Addition of words yields a word; adding less than half the range moves.
LEMMA PlusWord ==
    ASSUME NEW a \in Word, NEW b \in Word
    PROVE  Plus(a, b) \in Word
BY TimingAssumption DEF Plus, Word, Half

LEMMA PlusMoves ==
    ASSUME NEW a \in Word, NEW k \in 1 .. Half - 1
    PROVE  Plus(a, k) # a
BY TimingAssumption DEF Plus, Word, Half

\* One tick later the remaining distance is one less.
LEMMA PlusTick ==
    ASSUME NEW a \in Word, NEW k \in 1 .. Half - 1, k > 1
    PROVE  Plus(Plus(a, 1), k - 1) = Plus(a, k)
BY TimingAssumption DEF Plus, Word, Half

LEMMA ConstantTypes ==
    /\ 0 \in Word /\ 1 \in Word
    /\ ReapRate \in Word /\ ReapRate \in MaxStall + 1 .. Half - 1
    /\ Delays \subseteq Word /\ Rates \subseteq Word
    /\ Null \in AnyHandler /\ Reaper \in AnyHandler /\ Handlers \subseteq AnyHandler
    /\ FreeSlot \in Entry /\ NoTimer \in Timer
    /\ Reaper # Null /\ Null \notin Handlers
    /\ Slot \subseteq 0 .. Slots
    /\ Half \in Nat /\ WordSize \in Nat
<1>1. WordSize \in Nat /\ Half \in Nat /\ WordSize = 2 * Half /\ Half > 1
  BY TimingAssumption DEF Half
<1>2. 0 \in Word /\ 1 \in Word /\ ReapRate \in Word
  BY <1>1, TimingAssumption DEF Word
<1>3. ReapRate \in MaxStall + 1 .. Half - 1
  BY <1>1, TimingAssumption
<1>4. Delays \subseteq Word /\ Rates \subseteq Word
  BY <1>1, TimingAssumption DEF Word
<1>5. Null \in AnyHandler /\ Reaper \in AnyHandler /\ Handlers \subseteq AnyHandler
  BY DEF AnyHandler
<1>6. FreeSlot \in Entry /\ NoTimer \in Timer
  BY <1>2, <1>5 DEF FreeSlot, NoTimer, Entry, Timer
<1>7. Reaper # Null /\ Null \notin Handlers
  BY TimingAssumption
<1>8. Slot \subseteq 0 .. Slots
  BY TimingAssumption DEF Slot
<1> QED
  BY <1>1, <1>2, <1>3, <1>4, <1>5, <1>6, <1>7, <1>8

-----------------------------------------------------------------------------
(* What a call of a handler can do to the table.                           *)

LEMMA EffectTypes ==
    ASSUME handlers \in [Slot -> Entry], timer_hi \in Word, NEW s \in Slot,
           NEW table \in HandlerEffect(s)
    PROVE  /\ table \in [Slot -> Entry]
           /\ Reschedule(table, s) \in [Slot -> Entry]
<1>1. table \in [Slot -> Entry]
  BY ConstantTypes DEF HandlerEffect, Reap, Entry
<1>2. Reschedule(table, s) \in [Slot -> Entry]
  <2>1. table[s].repeat_rate \in Word
    BY <1>1 DEF Entry
  <2>2. Plus(timer_hi, table[s].repeat_rate) \in Word
    BY <2>1, PlusWord
  <2> QED
    BY <1>1, <2>2 DEF Reschedule, Entry
<1> QED
  BY <1>1, <1>2

\* Every other slot is left alone or freed; the slot itself keeps its handler
\* or is free.
LEMMA EffectShape ==
    ASSUME handlers \in [Slot -> Entry], timer_hi \in Word, NEW s \in Slot,
           NEW table \in HandlerEffect(s)
    PROVE  LET new == Reschedule(table, s) IN
           /\ \A q \in Slot \ {s} : \/ new[q] = handlers[q]
                                    \/ /\ new[q] = FreeSlot
                                       /\ Expired(handlers[q])
           /\ \/ new[s].handler = handlers[s].handler
              \/ new[s] = FreeSlot
<1>1. table \in [Slot -> Entry]
  BY EffectTypes
<1>2. \A q \in Slot \ {s} : \/ table[q] = handlers[q]
                            \/ table[q] = FreeSlot /\ Expired(handlers[q])
  BY DEF HandlerEffect, Reap, Entry
<1>3. table[s].handler = handlers[s].handler \/ table[s] = FreeSlot
  BY DEF HandlerEffect, Reap, Entry
<1>4. \A q \in Slot \ {s} : Reschedule(table, s)[q] = table[q]
  BY <1>1 DEF Reschedule
<1>5. table[s] = FreeSlot => Reschedule(table, s) = table
  BY DEF Reschedule, FreeSlot
<1>6. Reschedule(table, s)[s].handler = table[s].handler
  BY <1>1 DEF Reschedule, Entry
<1> QED
  BY <1>2, <1>3, <1>4, <1>5, <1>6

-----------------------------------------------------------------------------
(* Type correctness.                                                       *)

LEMMA InitTypeOK == Init => TypeOK
<1> SUFFICES ASSUME Init PROVE TypeOK
  OBVIOUS
<1>1. fired \in SUBSET Slot
  BY DEF Init
<1>2. handlers \in [Slot -> Entry]
  BY ConstantTypes DEF Init
<1>3. builder \in Timer
  BY ConstantTypes DEF Init
<1>4. /\ timer_hi \in Word /\ timer_low \in Word /\ device \in {0, 2}
      /\ t_i \in 0 .. Slots /\ index \in 0 .. Slots /\ stall \in 0 .. MaxStall
  BY ConstantTypes, TimingAssumption DEF Init
<1>5. irq \in BOOLEAN /\ crashed \in BOOLEAN /\ op \in Ops
  BY DEF Init, Ops
<1>6. todo \in SUBSET Fields
  BY DEF Init
<1> QED
  BY <1>1, <1>2, <1>3, <1>4, <1>5, <1>6 DEF TypeOK, Entry, Timer, Ops

LEMMA ReturnTypes ==
    ASSUME Return
    PROVE  /\ op' = "idle" /\ index' \in 0 .. Slots /\ builder' \in Timer
           /\ todo' \in SUBSET Fields /\ stall' \in 0 .. MaxStall
BY ConstantTypes, TimingAssumption DEF Return

FieldTypes(f) ==
    /\ op' \in {op, "idle"} /\ index' \in {0, index} /\ builder' \in Timer
    /\ op' # "idle" => index' = index
    /\ todo' \in SUBSET Fields /\ stall' \in 0 .. MaxStall

LEMMA StoreTypes ==
    ASSUME TypeOK, NEW f \in Fields, FieldDone(f), op # "idle"
    PROVE  FieldTypes(f)
BY ReturnTypes DEF FieldDone, Return, FieldTypes, TypeOK, Timer

LEMMA NextTypeOK ==
    ASSUME TypeOK, IndexOK, [Next]_vars
    PROVE  TypeOK' /\ IndexOK'
<1> USE DEF Entry, Timer, Ops
<1>1. CASE TimerSwitchDevice(TickDevice)
  BY <1>1 DEF TypeOK, IndexOK, TimerSwitchDevice, threadVars
<1>2. ASSUME NEW d \in Word, NEW r \in Word, NEW h \in AnyHandler,
             RegisterTimer(d, r, h)
      PROVE  TypeOK' /\ IndexOK'
  BY <1>2, TimingAssumption, ConstantTypes
     DEF TypeOK, IndexOK, RegisterTimer, clockVars
<1>3. CASE TimingInit
  BY <1>2, <1>3, ConstantTypes DEF TimingInit
<1>4. CASE TimingRegisterTimer
  BY <1>2, <1>4, ConstantTypes DEF TimingRegisterTimer
<1>5. CASE RegisterScan
  <2>1. CASE index = Slots /\ Return
    BY <1>5, <2>1, ReturnTypes
       DEF TypeOK, IndexOK, RegisterScan, clockVars, Return
  <2>2. CASE index < Slots
    BY <1>5, <2>2, TimingAssumption
       DEF TypeOK, IndexOK, RegisterScan, clockVars, Return, Slot
  <2> QED
    BY <1>5, <2>1, <2>2 DEF RegisterScan
<1>6. CASE BuildTimer
  <2>1. Plus(builder.delay, timer_hi) \in Word
    BY PlusWord DEF TypeOK
  <2> QED
    BY <1>6, <2>1, TimingAssumption
       DEF TypeOK, IndexOK, BuildTimer, clockVars, Fields
<1>7. ASSUME NEW f \in Fields, StoreField(f) PROVE TypeOK' /\ IndexOK'
  <2>1. Overwrite(handlers[index], f, builder) \in Entry
    BY <1>7 DEF TypeOK, IndexOK, StoreField, Overwrite
  <2>2. FieldTypes(f)
    BY <1>7, StoreTypes DEF StoreField, IndexOK
  <2>3. fired' \in SUBSET Slot
    BY <1>7 DEF TypeOK, StoreField
  <2>4. handlers' \in [Slot -> Entry]
    BY <1>7, <2>1 DEF TypeOK, StoreField
  <2>5. op' \in Ops /\ index' \in 0 .. Slots
    BY <1>7, <2>2, TimingAssumption DEF StoreField, FieldTypes, TypeOK
  <2>6. IndexOK'
    BY <1>7, <2>2 DEF StoreField, FieldTypes, IndexOK
  <2> QED
    BY <1>7, <2>2, <2>3, <2>4, <2>5, <2>6
       DEF TypeOK, StoreField, FieldTypes, clockVars
<1>8. CASE TimingDeregisterTimer
  BY <1>8, TimingAssumption, ConstantTypes
     DEF TypeOK, IndexOK, TimingDeregisterTimer, clockVars
<1>9. CASE DeregisterFind
  <2>1. CASE index = Slots /\ Return
    BY <1>9, <2>1, ReturnTypes
       DEF TypeOK, IndexOK, DeregisterFind, clockVars, Return
  <2>2. CASE index < Slots
    BY <1>9, <2>2, TimingAssumption
       DEF TypeOK, IndexOK, DeregisterFind, clockVars, Return, Slot
  <2> QED
    BY <1>9, <2>1, <2>2 DEF DeregisterFind
<1>10. ASSUME NEW f \in Fields, ClearField(f) PROVE TypeOK' /\ IndexOK'
  <2>1. Overwrite(handlers[index], f, FreeSlot) \in Entry
    BY <1>10, ConstantTypes DEF TypeOK, IndexOK, ClearField, Overwrite, FreeSlot
  <2>2. FieldTypes(f)
    BY <1>10, StoreTypes DEF ClearField, IndexOK
  <2>3. handlers' \in [Slot -> Entry]
    BY <1>10, <2>1 DEF TypeOK, ClearField
  <2>4. op' \in Ops /\ index' \in 0 .. Slots
    BY <1>10, <2>2, TimingAssumption DEF ClearField, FieldTypes, TypeOK
  <2>5. IndexOK'
    BY <1>10, <2>2 DEF ClearField, FieldTypes, IndexOK
  <2> QED
    BY <1>10, <2>2, <2>3, <2>4, <2>5
       DEF TypeOK, ClearField, FieldTypes, clockVars
<1>11. ASSUME NEW i \in Slot \ {0}, TimingRemoveIndex(i)
       PROVE  TypeOK' /\ IndexOK'
  BY <1>11, ConstantTypes
     DEF TypeOK, IndexOK, TimingRemoveIndex, clockVars, threadVars
<1>12. CASE TimerRecieveTick
  <2>1. Plus(timer_hi, 1) \in Word /\ Plus(timer_low, 1) \in Word
    BY PlusWord, ConstantTypes DEF TypeOK
  <2> QED
    BY <1>12, <2>1, TimingAssumption DEF TypeOK, IndexOK, TimerRecieveTick
<1>13. CASE CyclicSkip
  BY <1>13, TimingAssumption
     DEF TypeOK, IndexOK, CyclicSkip, clockVars, threadVars
<1>14. CASE CyclicCall
  <2>1. t_i \in Slot
    BY <1>14, TimingAssumption DEF CyclicCall, TypeOK, Slot
  <2>2. handlers' \in [Slot -> Entry]
    BY <1>14, <2>1, EffectTypes DEF CyclicCall, TypeOK
  <2>3. fired' \in SUBSET Slot
    BY <1>14, <2>1 DEF TypeOK, CyclicCall
  <2>4. t_i' \in 0 .. Slots
    BY <1>14, <2>1, TimingAssumption DEF CyclicCall, Slot
  <2> QED
    BY <1>14, <2>2, <2>3, <2>4
       DEF TypeOK, IndexOK, CyclicCall, clockVars, threadVars
<1>15. CASE CyclicCallNull
  BY <1>15 DEF TypeOK, IndexOK, CyclicCallNull, clockVars, threadVars
<1>16. CASE IrqReturn
  BY <1>16 DEF TypeOK, IndexOK, IrqReturn, clockVars, threadVars
<1>17. CASE UNCHANGED vars
  BY <1>17 DEF TypeOK, IndexOK, vars, clockVars, threadVars
<1> QED
  BY <1>1, <1>3, <1>4, <1>5, <1>6, <1>7, <1>8, <1>9, <1>10, <1>11, <1>12,
     <1>13, <1>14, <1>15, <1>16, <1>17 DEF Next, Thread, Interrupt

\* The counters, the table and the state of the running calls keep their
\* types, through every overflow of the tick counter.
THEOREM TypeCorrect == Spec => []TypeOK
<1>1. Init => TypeOK /\ IndexOK
  BY InitTypeOK DEF Init, IndexOK
<1>2. TypeOK /\ IndexOK /\ [Next]_vars => (TypeOK /\ IndexOK)'
  BY NextTypeOK
<1> QED
  BY <1>1, <1>2, PTL DEF Spec

-----------------------------------------------------------------------------
(* No null handler is called outside a deregistration.                     *)

\* A step of the thread that changes one slot, and no crash.
LEMMA HandlerInvNext ==
    ASSUME TypeOK, IndexOK, HandlerInv, [Next]_vars, TypeOK', IndexOK'
    PROVE  HandlerInv'
<1> USE DEF HandlerInv, Entry, Timer
<1>1. CASE TimerSwitchDevice(TickDevice)
  BY <1>1 DEF TimerSwitchDevice, threadVars, RequestOK, Registering, ClaimOK,
              SlotClaimed, ArmedOK, HalfStored, HalfCleared,
              NullCallOnlyInDeregister, Plus
<1>2. ASSUME NEW d \in MaxStall + 1 .. Half - 1, NEW r \in Word,
             NEW h \in AnyHandler, h # Null, RegisterTimer(d, r, h),
             ThreadRuns, op \in {"boot", "idle"}
      PROVE  HandlerInv'
  BY <1>2 DEF RegisterTimer, ThreadRuns, clockVars, RequestOK, Registering,
              ClaimOK, SlotClaimed, ArmedOK, HalfStored, HalfCleared,
              NullCallOnlyInDeregister
<1>3. CASE TimingInit
  BY <1>2, <1>3, ConstantTypes DEF TimingInit
<1>4. CASE TimingRegisterTimer
  <2>1. PICK d \in Delays, r \in Rates, h \in Handlers : RegisterTimer(d, r, h)
    BY <1>4 DEF TimingRegisterTimer
  <2>2. d \in MaxStall + 1 .. Half - 1 /\ r \in Word /\ h \in AnyHandler /\ h # Null
    BY ConstantTypes, TimingAssumption
  <2> QED
    BY <1>2, <1>4, <2>1, <2>2 DEF TimingRegisterTimer
<1>5. CASE RegisterScan
  BY <1>5 DEF RegisterScan, Return, ThreadRuns, clockVars, RequestOK,
              Registering, ClaimOK, SlotClaimed, ArmedOK, HalfStored,
              HalfCleared, NullCallOnlyInDeregister
<1>6. CASE BuildTimer
  <2>1. RequestOK'
    <3>1. Plus(builder.delay, timer_hi) = Plus(timer_hi, builder.delay - 0)
      BY ConstantTypes DEF Plus, TypeOK, Word
    <3> QED
      BY <1>6, <3>1 DEF BuildTimer, clockVars, RequestOK, Registering, TypeOK
  <2>2. ClaimOK'
    BY <1>6 DEF BuildTimer, ClaimOK, SlotClaimed, Fields
  <2>3. ArmedOK'
    BY <1>6 DEF BuildTimer, ArmedOK, HalfStored, HalfCleared
  <2>4. NullCallOnlyInDeregister'
    BY <1>6 DEF BuildTimer, ThreadRuns, NullCallOnlyInDeregister
  <2> QED
    BY <2>1, <2>2, <2>3, <2>4
<1>7. ASSUME NEW f \in Fields, StoreField(f) PROVE HandlerInv'
  <2>1. index \in Slot /\ builder.handler # Null
    BY <1>7 DEF StoreField, IndexOK, RequestOK, Registering
  <2>2. RequestOK'
    BY <1>7 DEF StoreField, FieldDone, Return, clockVars, RequestOK, Registering
  <2>3. ClaimOK'
    BY <1>7, <2>1 DEF StoreField, FieldDone, Return, ClaimOK, SlotClaimed,
                      Overwrite, TypeOK, Fields
  <2>4. ArmedOK'
    BY <1>7, <2>1 DEF StoreField, FieldDone, Return, ArmedOK, HalfStored,
                      HalfCleared, ClaimOK, SlotClaimed, Overwrite, TypeOK,
                      Fields
  <2>5. NullCallOnlyInDeregister'
    BY <1>7 DEF StoreField, ThreadRuns, NullCallOnlyInDeregister
  <2> QED
    BY <2>2, <2>3, <2>4, <2>5
<1>8. CASE TimingDeregisterTimer
  BY <1>8 DEF TimingDeregisterTimer, ThreadRuns, clockVars, RequestOK,
              Registering, ClaimOK, SlotClaimed, ArmedOK, HalfStored,
              HalfCleared, NullCallOnlyInDeregister
<1>9. CASE DeregisterFind
  BY <1>9 DEF DeregisterFind, Return, ThreadRuns, clockVars, Fields, RequestOK,
              Registering, ClaimOK, SlotClaimed, ArmedOK, HalfStored,
              HalfCleared, NullCallOnlyInDeregister
<1>10. ASSUME NEW f \in Fields, ClearField(f) PROVE HandlerInv'
  <2>1. index \in Slot
    BY <1>10 DEF ClearField, IndexOK
  <2>2. RequestOK' /\ ClaimOK'
    BY <1>10, <2>1 DEF ClearField, FieldDone, Return, RequestOK, Registering,
                       ClaimOK, SlotClaimed, Overwrite, FreeSlot, TypeOK
  <2>3. ArmedOK'
    BY <1>10, <2>1 DEF ClearField, FieldDone, Return, ArmedOK, HalfStored,
                       HalfCleared, ClaimOK, SlotClaimed, Overwrite, FreeSlot,
                       TypeOK, Fields
  <2>4. NullCallOnlyInDeregister'
    BY <1>10 DEF ClearField, ThreadRuns, NullCallOnlyInDeregister
  <2> QED
    BY <2>2, <2>3, <2>4
<1>11. ASSUME NEW i \in Slot \ {0}, TimingRemoveIndex(i) PROVE HandlerInv'
  <2>1. \A s \in Slot : /\ handlers'[s].fire_tick = handlers[s].fire_tick
                        /\ handlers'[s].handler = handlers[s].handler
    BY <1>11 DEF TimingRemoveIndex, TypeOK
  <2> QED
    BY <1>11, <2>1
       DEF TimingRemoveIndex, ThreadRuns, clockVars, threadVars, RequestOK,
           Registering, ClaimOK, SlotClaimed, ArmedOK, HalfStored, HalfCleared,
           NullCallOnlyInDeregister
<1>12. CASE TimerRecieveTick
  <2>1. RequestOK'
    <3>1. CASE op = "store"
      <4>1. /\ stall < MaxStall /\ timer_hi' = Plus(timer_hi, 1)
            /\ stall' = stall + 1 /\ builder' = builder /\ op' = op
        BY <1>12, <3>1 DEF TimerRecieveTick
      <4>2. builder.delay - stall \in 1 .. Half - 1 /\ builder.delay - stall > 1
        BY <3>1, <4>1, ConstantTypes, TimingAssumption
           DEF RequestOK, Registering, TypeOK
      <4>3. (builder.delay - stall) - 1 = builder.delay - (stall + 1)
        BY TimingAssumption DEF TypeOK, Word
      <4>4. Plus(timer_hi', builder.delay - stall') =
               Plus(timer_hi, builder.delay - stall)
        BY <4>1, <4>2, <4>3, PlusTick DEF TypeOK
      <4> QED
        BY <3>1, <4>1, <4>4 DEF RequestOK, Registering
    <3>2. CASE op # "store"
      BY <1>12, <3>2 DEF TimerRecieveTick, RequestOK, Registering
    <3> QED
      BY <3>1, <3>2
  <2>2. ClaimOK' /\ ArmedOK'
    BY <1>12 DEF TimerRecieveTick, ClaimOK, SlotClaimed, ArmedOK, HalfStored,
                 HalfCleared
  <2>3. NullCallOnlyInDeregister'
    BY <1>12 DEF TimerRecieveTick, ThreadRuns, NullCallOnlyInDeregister
  <2> QED
    BY <2>1, <2>2, <2>3
<1>13. CASE CyclicSkip
  BY <1>13 DEF CyclicSkip, IrqRuns, clockVars, threadVars, RequestOK,
               Registering, ClaimOK, SlotClaimed, ArmedOK, HalfStored,
               HalfCleared, NullCallOnlyInDeregister
<1>14. CASE CyclicCall
  <2>1. t_i \in Slot /\ Due(t_i) /\ handlers[t_i].handler # Null
    BY <1>14, TimingAssumption DEF CyclicCall, TypeOK, Slot
  <2>2. PICK table \in HandlerEffect(t_i) : handlers' = Reschedule(table, t_i)
    BY <1>14 DEF CyclicCall
  <2>3. /\ \A q \in Slot \ {t_i} : \/ handlers'[q] = handlers[q]
                                   \/ /\ handlers'[q] = FreeSlot
                                      /\ Expired(handlers[q])
        /\ \/ handlers'[t_i].handler = handlers[t_i].handler
           \/ handlers'[t_i] = FreeSlot
    BY <2>1, <2>2, EffectShape DEF TypeOK
  <2>4. ClaimOK'
    BY <1>14, <2>1, <2>3
       DEF CyclicCall, threadVars, ClaimOK, SlotClaimed, Due, Expired, IndexOK
  <2>5. ArmedOK'
    BY <1>14, <2>1, <2>3
       DEF CyclicCall, threadVars, ArmedOK, HalfStored, HalfCleared, FreeSlot
  <2>6. RequestOK' /\ NullCallOnlyInDeregister'
    BY <1>14 DEF CyclicCall, IrqRuns, clockVars, threadVars, RequestOK,
                 Registering, NullCallOnlyInDeregister
  <2> QED
    BY <2>4, <2>5, <2>6
<1>15. CASE CyclicCallNull
  <2>1. t_i \in Slot /\ Due(t_i) /\ handlers[t_i].handler = Null
    BY <1>15, TimingAssumption DEF CyclicCallNull, TypeOK, Slot
  <2>2. ~HalfStored(t_i)
    <3> SUFFICES ASSUME HalfStored(t_i) PROVE FALSE
      OBVIOUS
    <3>1. builder.delay - stall \in 1 .. Half - 1
      BY ConstantTypes, TimingAssumption
         DEF HalfStored, RequestOK, Registering, TypeOK
    <3>2. handlers[t_i].fire_tick = Plus(timer_hi, builder.delay - stall)
      BY DEF HalfStored, RequestOK
    <3> QED
      BY <2>1, <3>1, <3>2, PlusMoves DEF Due, TypeOK
  <2>3. HalfCleared(t_i)
    BY <2>1, <2>2 DEF ArmedOK, Due
  <2> QED
    BY <1>15, <2>3
       DEF CyclicCallNull, clockVars, threadVars, RequestOK, Registering,
           ClaimOK, SlotClaimed, ArmedOK, HalfStored, HalfCleared,
           NullCallOnlyInDeregister
<1>16. CASE IrqReturn
  BY <1>16 DEF IrqReturn, IrqRuns, clockVars, threadVars, RequestOK,
               Registering, ClaimOK, SlotClaimed, ArmedOK, HalfStored,
               HalfCleared, NullCallOnlyInDeregister
<1>17. CASE UNCHANGED vars
  BY <1>17 DEF vars, clockVars, threadVars, RequestOK, Registering, ClaimOK,
               SlotClaimed, ArmedOK, HalfStored, HalfCleared,
               NullCallOnlyInDeregister
<1> QED
  BY <1>1, <1>3, <1>4, <1>5, <1>6, <1>7, <1>8, <1>9, <1>10, <1>11, <1>12,
     <1>13, <1>14, <1>15, <1>16, <1>17 DEF Next, Thread, Interrupt

\* cyclic_tasks calls a null handler only between the stores of
\* timing_deregister_timer, for every table, every set of delays longer than
\* the stall of a registration, and through every overflow of timer_hi.
THEOREM NullCallsExplained == Spec => []NullCallOnlyInDeregister
<1>1. Init => TypeOK /\ IndexOK /\ HandlerInv
  <2>1. Init => HandlerInv
    BY DEF Init, HandlerInv, RequestOK, Registering, ClaimOK, SlotClaimed,
           ArmedOK, FreeSlot, NullCallOnlyInDeregister
  <2> QED
    BY <2>1, InitTypeOK DEF Init, IndexOK
<1>2. TypeOK /\ IndexOK /\ HandlerInv /\ [Next]_vars
        => (TypeOK /\ IndexOK /\ HandlerInv)'
  BY NextTypeOK, HandlerInvNext
<1>3. HandlerInv => NullCallOnlyInDeregister
  BY DEF HandlerInv
<1> QED
  BY <1>1, <1>2, <1>3, PTL DEF Spec

-----------------------------------------------------------------------------
(* No live timer is taken by the reaper, as long as time is bounded.       *)

LEMMA NoWrap ==
    ASSUME BoundedTime, NEW t \in 0 .. MaxTick,
           NEW d \in Delays \cup Rates \cup {ReapRate}, NEW k \in 0 .. d
    PROVE  d \in Nat /\ t + k < Half /\ Plus(t, k) = t + k /\ t + k < WordSize
<1>1. d \in Nat
  BY TimingAssumption, ConstantTypes DEF Word
<1>2. MaxTick + d < Half
  BY DEF BoundedTime
<1> QED
  BY <1>1, <1>2, TimingAssumption, ConstantTypes DEF Plus

\* Below 2^31 the reaper takes exactly what is behind timer_hi.
LEMMA ExpiredBehind ==
    ASSUME NEW e \in Entry, timer_hi \in Word, timer_hi < Half,
           e.fire_tick < Half
    PROVE  Expired(e) <=> e.fire_tick # 0 /\ e.fire_tick < timer_hi
BY ConstantTypes DEF Expired, Signed, Entry, Word

LEMMA TickBound ==
    ASSUME BoundedTime, TypeOK, TimeInv
    PROVE  timer_hi \in 0 .. MaxTick /\ timer_hi < Half /\ MaxTick < Half
<1>1. MaxTick + ReapRate < Half
  BY DEF BoundedTime
<1> QED
  BY <1>1, TimingAssumption, ConstantTypes DEF TimeInv, AheadOK, TypeOK, Word

LEMMA BuiltAhead ==
    ASSUME BoundedTime, TypeOK, RequestOK, TimeInv, op = "store"
    PROVE  timer_hi < builder.fire_tick /\ builder.fire_tick < Half
<1>1. timer_hi \in 0 .. MaxTick
  BY TickBound
<1>2. builder.delay \in Delays \cup {ReapRate}
  BY DEF TimeInv, StoredOK, Registering
<1>3. builder.delay - stall \in 1 .. builder.delay
  BY TimingAssumption, ConstantTypes DEF RequestOK, Registering, TypeOK, Word
<1>4. builder.fire_tick = timer_hi + (builder.delay - stall)
  BY <1>1, <1>2, <1>3, NoWrap DEF RequestOK
<1>5. timer_hi + (builder.delay - stall) < Half
  BY <1>1, <1>2, <1>3, NoWrap
<1> QED
  BY <1>1, <1>3, <1>4, <1>5, TimingAssumption

\* What a call leaves behind: the slot called is free, or keeps its rate and
\* moves ahead, or has no rate and stays.
LEMMA CallAhead ==
    ASSUME TypeOK, NEW s \in Slot, Due(s), NEW table \in HandlerEffect(s),
           timer_hi < Half, handlers[s].fire_tick < Half
    PROVE  LET new == Reschedule(table, s) IN
           \/ new[s] = FreeSlot
           \/ /\ new[s].repeat_rate = 0
              /\ new[s].fire_tick = timer_hi
           \/ /\ new[s].repeat_rate = handlers[s].repeat_rate
              /\ new[s].fire_tick = Plus(timer_hi, handlers[s].repeat_rate)
<1>1. table \in [Slot -> Entry]
  BY EffectTypes DEF TypeOK, Entry
<1>2. \/ table[s] = FreeSlot
      \/ /\ table[s].repeat_rate \in {0, handlers[s].repeat_rate}
         /\ table[s].fire_tick = timer_hi
  BY DEF HandlerEffect, Reap, TypeOK, Entry, Due
<1>3. CASE table[s].repeat_rate = 0
  BY <1>2, <1>3 DEF Reschedule
<1>4. CASE table[s].repeat_rate # 0
  <2>1. table[s].repeat_rate = handlers[s].repeat_rate
    BY <1>2, <1>4 DEF FreeSlot
  <2>2. /\ Reschedule(table, s)[s].repeat_rate = table[s].repeat_rate
        /\ Reschedule(table, s)[s].fire_tick
              = Plus(timer_hi, table[s].repeat_rate)
    BY <1>1, <1>4 DEF Reschedule, Entry
  <2> QED
    BY <2>1, <2>2
<1> QED
  BY <1>3, <1>4

LEMMA TimeInvNext ==
    ASSUME BoundedTime, TypeOK, IndexOK, HandlerInv, TimeInv, [Next]_vars,
           TypeOK', IndexOK'
    PROVE  TimeInv'
<1> USE DEF TimeInv, HandlerInv, Entry, Timer
<1>1. CASE TimerSwitchDevice(TickDevice)
  BY <1>1 DEF TimerSwitchDevice, threadVars, AheadOK, AheadAt, Live, Scanned, StoredOK,
              Registering
<1>2. ASSUME NEW d \in Delays \cup {ReapRate}, NEW r \in Rates \cup {ReapRate},
             NEW h \in AnyHandler, RegisterTimer(d, r, h)
      PROVE  TimeInv'
  BY <1>2 DEF RegisterTimer, clockVars, AheadOK, AheadAt, Live, Scanned, StoredOK,
              Registering
<1>3. CASE TimingInit
  BY <1>2, <1>3, ConstantTypes DEF TimingInit
<1>4. CASE TimingRegisterTimer
  BY <1>2, <1>4, ConstantTypes DEF TimingRegisterTimer
<1>5. CASE RegisterScan
  BY <1>5 DEF RegisterScan, Return, clockVars, AheadOK, AheadAt, Live, Scanned, StoredOK,
              Registering
<1>6. CASE BuildTimer
  BY <1>6 DEF BuildTimer, clockVars, AheadOK, AheadAt, Live, Scanned, StoredOK,
              Registering, Fields, TypeOK
<1>7. ASSUME NEW f \in Fields, StoreField(f) PROVE TimeInv'
  <2>1. index \in Slot /\ op = "store" /\ ~irq
    BY <1>7 DEF StoreField, ThreadRuns, IndexOK
  <2>2. timer_hi < builder.fire_tick /\ builder.fire_tick < Half
    BY <2>1, BuiltAhead
  <2>3. AheadOK'
    <3>1. timer_hi' <= MaxTick /\ timer_hi' = timer_hi /\ irq' = irq /\ t_i' = t_i
      BY <1>7 DEF StoreField, clockVars, AheadOK
    <3>2. \A s \in Slot \ {index} :
             handlers'[s] = handlers[s] /\ (s \in fired' <=> s \in fired)
      BY <1>7 DEF StoreField, TypeOK
    <3>3. handlers'[index] = Overwrite(handlers[index], f, builder)
      BY <1>7, <2>1 DEF StoreField, TypeOK
    <3>4. handlers'[index].fire_tick \in {0, builder.fire_tick}
      BY <1>7, <2>1, <3>3
         DEF StoreField, Overwrite, StoredOK, ClaimOK, SlotClaimed
    <3>5. handlers'[index].repeat_rate \in Rates \cup {0, ReapRate}
      BY <2>1, <3>3 DEF Overwrite, AheadOK, AheadAt, StoredOK, Registering
    <3>6. 0 < Half /\ timer_hi \in Nat /\ builder.fire_tick \in Nat
      BY ConstantTypes, TimingAssumption DEF TypeOK, Word
    <3>7. ASSUME NEW s \in Slot PROVE AheadAt(s)'
      <4>1. CASE s = index
        BY <2>1, <2>2, <3>1, <3>4, <3>5, <3>6, <4>1 DEF AheadAt, Live, Scanned
      <4>2. CASE s # index
        BY <3>1, <3>2, <4>2 DEF AheadOK, AheadAt, Live, Scanned
      <4> QED
        BY <4>1, <4>2
    <3> QED
      BY <3>1, <3>7 DEF AheadOK
  <2>4. StoredOK'
    BY <1>7, <2>1 DEF StoreField, FieldDone, Return, StoredOK, Registering,
                      Overwrite, TypeOK, Fields
  <2> QED
    BY <2>3, <2>4
<1>8. CASE TimingDeregisterTimer
  BY <1>8 DEF TimingDeregisterTimer, clockVars, AheadOK, AheadAt, Live, Scanned,
              StoredOK, Registering
<1>9. CASE DeregisterFind
  BY <1>9 DEF DeregisterFind, Return, clockVars, AheadOK, AheadAt, Live, Scanned,
              StoredOK, Registering
<1>10. ASSUME NEW f \in Fields, ClearField(f) PROVE TimeInv'
  <2>1. index \in Slot
    BY <1>10 DEF ClearField, IndexOK
  <2>2. AheadOK'
    <3>1. \A s \in Slot :
            /\ handlers'[s].fire_tick \in {0, handlers[s].fire_tick}
            /\ handlers'[s].repeat_rate \in {0, handlers[s].repeat_rate}
      BY <1>10, <2>1 DEF ClearField, Overwrite, FreeSlot, TypeOK
    <3>2. 0 < Half
      BY ConstantTypes, TimingAssumption
    <3> QED
      BY <1>10, <3>1, <3>2 DEF ClearField, clockVars, AheadOK, AheadAt, Live, Scanned
  <2>3. StoredOK'
    BY <1>10 DEF ClearField, FieldDone, Return, StoredOK, Registering
  <2> QED
    BY <2>2, <2>3
<1>11. ASSUME NEW i \in Slot \ {0}, TimingRemoveIndex(i) PROVE TimeInv'
  <2>1. \A s \in Slot :
          /\ handlers'[s].fire_tick = handlers[s].fire_tick
          /\ handlers'[s].repeat_rate \in {0, handlers[s].repeat_rate}
    BY <1>11 DEF TimingRemoveIndex, TypeOK
  <2> QED
    BY <1>11, <2>1 DEF TimingRemoveIndex, clockVars, threadVars, AheadOK, AheadAt, Live,
                       Scanned, StoredOK, Registering, IndexOK
<1>12. CASE TimerRecieveTick
  <2>1. timer_hi' = timer_hi + 1 /\ timer_hi' <= MaxTick /\ ~irq /\ timer_hi \in Nat
    <3>1. timer_hi \in 0 .. MaxTick /\ timer_hi < MaxTick
          /\ MaxTick < Half
      BY <1>12, TickBound DEF TimerRecieveTick
    <3> QED
      BY <1>12, <3>1, ConstantTypes, TimingAssumption
         DEF TimerRecieveTick, Plus, ThreadRuns, Half
  <2>2. AheadOK'
    <3>1. \A s \in Slot : handlers[s].fire_tick \in Nat
      BY ConstantTypes DEF TypeOK, Word
    <3>2. handlers' = handlers /\ fired' = fired /\ irq' = TRUE /\ t_i' = 0
      BY <1>12 DEF TimerRecieveTick
    <3>3. \A s \in Slot : ~(s < 0)
      BY DEF Slot
    <3> QED
      BY <2>1, <3>1, <3>2, <3>3 DEF AheadOK, AheadAt, Live, Scanned
  <2>3. StoredOK'
    BY <1>12 DEF TimerRecieveTick, StoredOK, Registering
  <2> QED
    BY <2>2, <2>3
<1>13. CASE CyclicSkip
  <2>1. AheadOK'
    <3>1. \A s \in Slot : s < t_i + 1 => s < t_i \/ s = t_i
      BY DEF TypeOK, Slot
    <3>2. \A s \in Slot : handlers[s].fire_tick \in Nat /\ timer_hi \in Nat
      BY ConstantTypes DEF TypeOK, Word
    <3> QED
      BY <1>13, <3>1, <3>2
         DEF CyclicSkip, IrqRuns, Due, clockVars, AheadOK, AheadAt, Live, Scanned
  <2>2. StoredOK'
    BY <1>13 DEF CyclicSkip, threadVars, StoredOK, Registering
  <2> QED
    BY <2>1, <2>2
<1>14. CASE CyclicCall
  <2>1. t_i \in Slot /\ Due(t_i) /\ irq
    BY <1>14, TimingAssumption DEF CyclicCall, TypeOK, Slot, IrqRuns
  <2>2. PICK table \in HandlerEffect(t_i) : handlers' = Reschedule(table, t_i)
    BY <1>14 DEF CyclicCall
  <2>3. timer_hi < Half /\ timer_hi \in 0 .. MaxTick
    BY TickBound
  <2>4. \A q \in Slot \ {t_i} : handlers'[q] = handlers[q] \/ handlers'[q] = FreeSlot
    BY <2>1, <2>2, EffectShape DEF TypeOK
  <2>5. \/ handlers'[t_i] = FreeSlot
        \/ /\ handlers'[t_i].repeat_rate = 0
           /\ handlers'[t_i].fire_tick = timer_hi
        \/ /\ handlers'[t_i].repeat_rate = handlers[t_i].repeat_rate
           /\ handlers'[t_i].fire_tick = Plus(timer_hi, handlers[t_i].repeat_rate)
    BY <2>1, <2>2, <2>3, CallAhead DEF AheadOK, AheadAt
  <2>6. \/ handlers'[t_i].repeat_rate = 0 /\ handlers'[t_i].fire_tick \in {0, timer_hi}
        \/ /\ handlers'[t_i].repeat_rate \in Rates \cup {ReapRate}
           /\ handlers'[t_i].fire_tick > timer_hi
           /\ handlers'[t_i].fire_tick < Half
    <3>1. CASE handlers'[t_i].repeat_rate = 0
      <4>1. Plus(timer_hi, 0) = timer_hi
        BY <2>3, ConstantTypes, TimingAssumption DEF Plus, TypeOK, Word
      <4> QED
        BY <2>5, <3>1, <4>1 DEF FreeSlot
    <3>2. CASE handlers'[t_i].repeat_rate # 0
      <4> DEFINE r == handlers[t_i].repeat_rate
      <4>1. /\ handlers'[t_i].repeat_rate = r /\ r # 0
            /\ handlers'[t_i].fire_tick = Plus(timer_hi, r)
        BY <2>5, <3>2 DEF FreeSlot
      <4>2. r \in Rates \cup {ReapRate}
        BY <2>1, <4>1 DEF AheadOK, AheadAt
      <4>3. r \in Nat
        BY <2>1, ConstantTypes DEF TypeOK, Word
      <4>4. Plus(timer_hi, r) = timer_hi + r /\ timer_hi + r < Half
        BY <2>3, <4>2, <4>3, NoWrap
      <4>5. timer_hi \in Nat /\ timer_hi + r > timer_hi
        BY <2>3, <4>1, <4>3
      <4> QED
        BY <4>1, <4>2, <4>4, <4>5
    <3> QED
      BY <3>1, <3>2
  <2>7. /\ timer_hi' = timer_hi /\ irq' = irq /\ t_i' = t_i + 1
        /\ fired' = fired \cup {t_i}
    BY <1>14 DEF CyclicCall, clockVars
  <2>8. AheadOK'
    <3>1. /\ 0 < Half /\ Half \in Nat /\ timer_hi \in Nat
          /\ handlers'[t_i].fire_tick \in Nat
      BY <2>1, ConstantTypes, TimingAssumption DEF TypeOK, Word
    <3>2. \A s \in Slot \ {t_i} : s < t_i + 1 => s < t_i
      BY <2>1 DEF TypeOK, Slot
    <3>3. ASSUME NEW s \in Slot PROVE AheadAt(s)'
      <4>1. CASE s = t_i
        BY <2>3, <2>6, <2>7, <3>1, <4>1 DEF AheadAt, Live, Scanned
      <4>2. CASE s # t_i /\ handlers'[s] = FreeSlot
        BY <3>1, <4>2 DEF AheadAt, FreeSlot
      <4>3. CASE s # t_i /\ handlers'[s] = handlers[s]
        BY <2>1, <2>7, <3>2, <4>3 DEF AheadOK, AheadAt, Live, Scanned
      <4> QED
        BY <2>4, <4>1, <4>2, <4>3
    <3> QED
      BY <2>3, <2>7, <3>3 DEF AheadOK
  <2>9. StoredOK'
    <3>1. /\ Registering' => Registering
          /\ builder' = builder /\ op' = op /\ todo' = todo /\ index' = index
      BY <1>14 DEF CyclicCall, threadVars, Registering
    <3>2. ASSUME op = "store", "fire_tick" \notin todo
          PROVE  /\ handlers'[index].fire_tick = builder.fire_tick
                 /\ index \notin fired'
      <4>1. /\ index \in Slot /\ handlers[index].fire_tick = builder.fire_tick
            /\ index \notin fired
        BY <3>2 DEF IndexOK, StoredOK
      <4>2. timer_hi < builder.fire_tick /\ builder.fire_tick < Half
        BY <3>2, BuiltAhead
      <4>3. index # t_i
        BY <2>1, <2>3, <4>1, <4>2 DEF Due
      <4>4. ~Expired(handlers[index])
        BY <2>3, <4>1, <4>2, ConstantTypes DEF Expired, Signed, TypeOK, Word
      <4>5. handlers'[index] = handlers[index]
        BY <2>1, <2>2, <4>1, <4>3, <4>4, EffectShape DEF TypeOK
      <4> QED
        BY <2>7, <4>1, <4>3, <4>5
    <3> QED
      BY <3>1, <3>2 DEF StoredOK
  <2> QED
    BY <2>8, <2>9
<1>15. CASE CyclicCallNull
  BY <1>15 DEF CyclicCallNull, clockVars, threadVars, AheadOK, AheadAt, Live, Scanned,
               StoredOK, Registering
<1>16. CASE IrqReturn
  <2>1. \A s \in Slot : s < Slots
    BY TimingAssumption DEF Slot
  <2> QED
    BY <1>16, <2>1 DEF IrqReturn, IrqRuns, clockVars, threadVars, AheadOK, AheadAt, Live,
                       Scanned, StoredOK, Registering
<1>17. CASE UNCHANGED vars
  BY <1>17 DEF vars, clockVars, threadVars, AheadOK, AheadAt, Live, Scanned, StoredOK,
               Registering
<1> QED
  BY <1>1, <1>3, <1>4, <1>5, <1>6, <1>7, <1>8, <1>9, <1>10, <1>11, <1>12,
     <1>13, <1>14, <1>15, <1>16, <1>17 DEF Next, Thread, Interrupt

\* Only a deregistration and a call can free a slot in use.
LEMMA FreedBy ==
    ASSUME BoundedTime, TypeOK, IndexOK, HandlerInv, TimeInv, [Next]_vars,
           NEW s \in Slot, handlers[s].fire_tick # 0,
           handlers'[s].fire_tick = 0
    PROVE  \/ BeingDeregistered(s)
           \/ s \in fired /\ handlers[s].repeat_rate = 0
<1> USE DEF Entry, Timer
<1>1. ASSUME NEW f \in Fields, StoreField(f) PROVE FALSE
  <2>1. index \in Slot /\ op = "store"
    BY <1>1 DEF StoreField, IndexOK
  <2>2. builder.fire_tick # 0
    <3>1. timer_hi < builder.fire_tick /\ timer_hi \in Nat
      BY <2>1, BuiltAhead, TickBound, TimingAssumption DEF HandlerInv
    <3> QED
      BY <3>1
  <2> QED
    BY <1>1, <2>1, <2>2 DEF StoreField, Overwrite, TypeOK
<1>2. ASSUME NEW f \in Fields, ClearField(f) PROVE BeingDeregistered(s)
  BY <1>2 DEF ClearField, IndexOK, TypeOK, BeingDeregistered
<1>3. ASSUME NEW i \in Slot \ {0}, TimingRemoveIndex(i) PROVE FALSE
  BY <1>3 DEF TimingRemoveIndex, TypeOK
<1>4. CASE CyclicCall
  <2>1. t_i \in Slot /\ irq
    BY <1>4, TimingAssumption DEF CyclicCall, TypeOK, Slot, IrqRuns
  <2>2. CASE s = t_i
    BY <2>1, <2>2 DEF BeingDeregistered
  <2>3. CASE s # t_i
    <3>1. Expired(handlers[s])
      <4>1. PICK table \in HandlerEffect(t_i) :
               handlers' = Reschedule(table, t_i)
        BY <1>4 DEF CyclicCall
      <4> QED
        BY <2>1, <2>3, <4>1, EffectShape DEF TypeOK
    <3>2. handlers[s].fire_tick < timer_hi
      <4>1. handlers[s] \in Entry /\ timer_hi \in Word
        BY DEF TypeOK
      <4>2. timer_hi < Half /\ handlers[s].fire_tick < Half
        BY TickBound DEF TimeInv, AheadOK, AheadAt
      <4> QED
        BY <3>1, <4>1, <4>2, ExpiredBehind
    <3>3. ~(timer_hi <= handlers[s].fire_tick)
      BY <3>2, ConstantTypes DEF TypeOK, Word
    <3> QED
      BY <3>3 DEF TimeInv, AheadOK, AheadAt, Live
  <2> QED
    BY <2>2, <2>3
<1>5. CASE UNCHANGED handlers
  BY <1>5
<1> QED
  BY <1>1, <1>2, <1>3, <1>4, <1>5
     DEF Next, Thread, Interrupt, TimerSwitchDevice, TimingInit,
         TimingRegisterTimer, RegisterTimer, RegisterScan, BuildTimer,
         TimingDeregisterTimer, DeregisterFind, TimerRecieveTick, CyclicSkip,
         CyclicCallNull, IrqReturn, vars

TimeBoundedInv == TypeOK /\ IndexOK /\ HandlerInv /\ TimeInv

LEMMA InitTimeBounded == Init => TimeBoundedInv
<1> SUFFICES ASSUME Init PROVE TimeBoundedInv
  OBVIOUS
<1>1. TypeOK /\ IndexOK
  BY InitTypeOK DEF Init, IndexOK
<1>2. HandlerInv
  BY DEF Init, HandlerInv, RequestOK, Registering, ClaimOK, SlotClaimed,
         ArmedOK, FreeSlot, NullCallOnlyInDeregister
<1>3. TimeInv
  BY ConstantTypes, TimingAssumption
     DEF Init, TimeInv, AheadOK, AheadAt, StoredOK, Registering, FreeSlot
<1> QED
  BY <1>1, <1>2, <1>3 DEF TimeBoundedInv

\* As long as time stays below 2^31 ticks, timing_reaper and cyclic_tasks
\* free a slot only when its timer was called and does not repeat, or when it
\* is deregistered: for every table size, delay and rate.
THEOREM TimersKept == BoundedTime => (Spec => NoTimerLost)
<1> SUFFICES ASSUME BoundedTime PROVE Spec => NoTimerLost
  OBVIOUS
<1>1. Init => TimeBoundedInv
  BY InitTimeBounded
<1>2. TimeBoundedInv /\ [Next]_vars => TimeBoundedInv'
  BY NextTypeOK, HandlerInvNext, TimeInvNext DEF TimeBoundedInv
<1>3. TimeBoundedInv /\ [Next]_vars =>
        [\A s \in Slot :
           (handlers[s].fire_tick # 0 /\ handlers'[s].fire_tick = 0)
              => \/ BeingDeregistered(s)
                 \/ s \in fired /\ handlers[s].repeat_rate = 0]_vars
  BY FreedBy DEF TimeBoundedInv
<1> QED
  BY <1>1, <1>2, <1>3, PTL DEF Spec, NoTimerLost

-----------------------------------------------------------------------------
(* The reaper stays armed, so no expired timer holds its slot for long.    *)

\* While the reaper registers itself nothing is due.
LEMMA StartingQuiet ==
    ASSUME BoundedTime, TimeBoundedInv, ReaperStarting, NEW s \in Slot
    PROVE  ~Due(s) /\ (handlers[s].fire_tick # 0 =>
                          /\ s = 0 /\ op = "store" /\ "fire_tick" \notin todo
                          /\ timer_hi < handlers[s].fire_tick)
<1> USE DEF TimeBoundedInv, Entry, Timer
<1> SUFFICES ASSUME handlers[s].fire_tick # 0
             PROVE  /\ s = 0 /\ op = "store" /\ "fire_tick" \notin todo
                    /\ timer_hi < handlers[s].fire_tick
                    /\ handlers[s].fire_tick # timer_hi
  BY DEF Due
<1>1. s = 0
  BY DEF ReaperStarting, OnlyReaper
<1>2. op = "store" /\ index = 0
  BY <1>1 DEF ReaperStarting, Registering, HandlerInv, ClaimOK, SlotClaimed
<1>3. "fire_tick" \notin todo
  BY <1>1, <1>2 DEF HandlerInv, ClaimOK, SlotClaimed
<1>4. handlers[s].fire_tick = builder.fire_tick
  BY <1>1, <1>2, <1>3 DEF TimeInv, StoredOK
<1>5. timer_hi < builder.fire_tick
  BY <1>2, BuiltAhead DEF HandlerInv
<1>6. timer_hi \in Nat
  BY ConstantTypes DEF TypeOK, Word
<1> QED
  BY <1>1, <1>2, <1>3, <1>4, <1>5, <1>6

LEMMA ArmedAhead ==
    ASSUME BoundedTime, TimeBoundedInv, ReaperArmed
    PROVE  /\ 0 \in Slot /\ timer_hi <= handlers[0].fire_tick
           /\ ~Expired(handlers[0])
<1> USE DEF TimeBoundedInv, Entry, Timer
<1>1. 0 \in Slot
  BY TimingAssumption DEF Slot
<1>2. Live(0) /\ handlers[0].fire_tick # 0
  BY ConstantTypes, TimingAssumption DEF ReaperArmed, Live
<1>3. timer_hi <= handlers[0].fire_tick /\ handlers[0].fire_tick < Half
  BY <1>1, <1>2 DEF TimeInv, AheadOK, AheadAt
<1>4. handlers[0] \in Entry /\ timer_hi \in Word /\ timer_hi < Half
  BY <1>1, TickBound DEF TypeOK
<1>5. ~(handlers[0].fire_tick < timer_hi)
  BY <1>3, <1>4, ConstantTypes DEF Word
<1> QED
  BY <1>1, <1>3, <1>4, <1>5, ExpiredBehind

\* The reaper's registration, until its last store.
LEMMA StartingNext ==
    ASSUME BoundedTime, TimeBoundedInv, ReaperStarting, [Next]_vars,
           TimeBoundedInv'
    PROVE  ReaperInv'
<1> USE DEF TimeBoundedInv, Entry, Timer, ReaperInv
<1>0. 0 \in Slot /\ Slots # 0 /\ Slots \in Nat
  BY TimingAssumption DEF Slot
<1>1. CASE TimerSwitchDevice(TickDevice)
  BY <1>1 DEF TimerSwitchDevice, threadVars, ReaperStarting, OnlyReaper,
              Registering
<1>2. CASE TimingInit
  BY <1>2, <1>0 DEF TimingInit, RegisterTimer, ReaperStarting, OnlyReaper,
              Registering
<1>3. CASE RegisterScan
  BY <1>3, <1>0 DEF RegisterScan, ReaperStarting, OnlyReaper, Registering
<1>4. CASE BuildTimer
  BY <1>4 DEF BuildTimer, ReaperStarting, OnlyReaper, Registering, Fields,
              TypeOK
<1>5. ASSUME NEW f \in Fields, StoreField(f) PROVE ReaperInv'
  <2>1. /\ op = "store" /\ index = 0 /\ builder.handler = Reaper
        /\ builder.repeat_rate = ReapRate /\ builder.delay = ReapRate
    BY <1>5 DEF StoreField, ReaperStarting, Registering
  <2>2. handlers'[0] = Overwrite(handlers[0], f, builder)
    BY <1>0, <1>5, <2>1 DEF StoreField, TypeOK
  <2>3. \A s \in Slot \ {0} : handlers'[s] = handlers[s]
    BY <1>5, <2>1 DEF StoreField, TypeOK
  <2>4. OnlyReaper'
    BY <2>1, <2>3 DEF ReaperStarting, OnlyReaper
  <2>5. CASE todo # {f}
    BY <1>5, <2>1, <2>2, <2>4, <2>5
       DEF StoreField, FieldDone, ReaperStarting, Registering, Overwrite
  <2>6. CASE todo = {f}
    <3>1. /\ handlers'[0].handler = Reaper
          /\ handlers'[0].repeat_rate = ReapRate
          /\ handlers'[0].fire_tick = builder.fire_tick
      BY <2>1, <2>2, <2>6
         DEF Overwrite, ReaperStarting, Fields, TimeInv, StoredOK
    <3>2. op' = "idle" /\ timer_hi' = timer_hi
      BY <1>5, <2>6 DEF StoreField, FieldDone, Return, clockVars
    <3>3. /\ timer_hi < builder.fire_tick
          /\ builder.fire_tick <= timer_hi + ReapRate
      <4>1. timer_hi < builder.fire_tick /\ builder.fire_tick < Half
        BY <2>1, BuiltAhead DEF HandlerInv
      <4>2. builder.fire_tick = Plus(timer_hi, ReapRate - stall)
        BY <2>1 DEF HandlerInv, RequestOK
      <4> QED
        BY <4>1, <4>2, ConstantTypes, TimingAssumption
           DEF Plus, TypeOK, Word
    <3>4. timer_hi \in Nat /\ builder.fire_tick \in Nat /\ ReapRate \in Nat
      BY ConstantTypes, TimingAssumption DEF TypeOK, Word
    <3>5. ReaperArmed'
      BY <1>0, <2>4, <3>1, <3>2, <3>3, <3>4 DEF ReaperArmed, OnlyReaper
    <3> QED
      BY <3>5
  <2> QED
    BY <2>5, <2>6
<1>6. CASE TimerRecieveTick
  BY <1>6 DEF TimerRecieveTick, ReaperStarting, OnlyReaper, Registering
<1>7. CASE CyclicSkip \/ CyclicCallNull \/ IrqReturn \/ UNCHANGED vars
  BY <1>7 DEF CyclicSkip, CyclicCallNull, IrqReturn, vars, threadVars,
              ReaperStarting, OnlyReaper, Registering
<1>8. CASE CyclicCall
  <2>1. t_i \in Slot /\ Due(t_i)
    BY <1>8, TimingAssumption DEF CyclicCall, TypeOK, Slot
  <2> QED
    BY <2>1, StartingQuiet
<1>9. op \in {"boot", "scan", "build", "store"}
  BY DEF ReaperStarting, Registering
<1> QED
  BY <1>1, <1>2, <1>3, <1>4, <1>5, <1>6, <1>7, <1>8, <1>9
     DEF Next, Thread, Interrupt, TimingRegisterTimer, TimingDeregisterTimer,
         DeregisterFind, ClearField, TimingRemoveIndex

\* The armed reaper: no thread reaches its slot, and its own call moves it
\* one period ahead after it took everything behind timer_hi.
LEMMA ArmedNext ==
    ASSUME BoundedTime, TimeBoundedInv, ReaperArmed, [Next]_vars,
           TimeBoundedInv'
    PROVE  ReaperArmed'
<1> USE DEF TimeBoundedInv, Entry, Timer
<1>0. /\ 0 \in Slot /\ Slots \in Nat
      /\ timer_hi \in Nat /\ ReapRate \in Nat
      /\ \A s \in Slot : handlers[s].fire_tick \in Nat
      /\ \A s \in Slot : handlers'[s].fire_tick \in Nat
  <2>1. 0 \in Slot /\ Slots \in Nat /\ ReapRate \in Nat /\ Word \subseteq Nat
    BY ConstantTypes, TimingAssumption DEF Word, Slot
  <2>2. /\ timer_hi \in Word
        /\ \A s \in Slot : handlers[s].fire_tick \in Word
        /\ \A s \in Slot : handlers'[s].fire_tick \in Word
    BY DEF TypeOK
  <2> QED
    BY <2>1, <2>2
<1>1. CASE UNCHANGED <<timer_hi, handlers, op, index, builder>>
  BY <1>1 DEF ReaperArmed
<1>2. ASSUME NEW d, NEW r, NEW h, RegisterTimer(d, r, h) PROVE ReaperArmed'
  BY <1>2 DEF RegisterTimer, clockVars, ReaperArmed
<1>3. CASE RegisterScan
  BY <1>0, <1>3 DEF RegisterScan, Return, clockVars, ReaperArmed
<1>4. CASE BuildTimer
  BY <1>4 DEF BuildTimer, clockVars, ReaperArmed
<1>5. ASSUME NEW f \in Fields, StoreField(f) PROVE ReaperArmed'
  <2>1. index \in Slot /\ index # 0 /\ op = "store" /\ timer_hi' = timer_hi
    BY <1>5 DEF StoreField, IndexOK, ReaperArmed, clockVars
  <2>2. \A s \in Slot \ {index} : handlers'[s] = handlers[s]
    BY <1>5 DEF StoreField, TypeOK
  <2>3. handlers'[index].fire_tick
           \in {handlers[index].fire_tick, builder.fire_tick}
    BY <1>5, <2>1 DEF StoreField, Overwrite, TypeOK
  <2>4. timer_hi < builder.fire_tick /\ builder.fire_tick \in Nat
    BY <2>1, BuiltAhead, ConstantTypes DEF HandlerInv, TypeOK, Word
  <2>5. handlers'[0] = handlers[0]
    BY <1>0, <2>1, <2>2
  <2>6. ASSUME NEW s \in Slot, handlers'[s].fire_tick # 0
        PROVE  handlers[0].fire_tick <= handlers'[s].fire_tick + ReapRate
    <3>1. CASE handlers'[s].fire_tick = handlers[s].fire_tick
      BY <2>6, <3>1 DEF ReaperArmed
    <3>2. CASE handlers'[s].fire_tick = builder.fire_tick
      BY <1>0, <2>4, <3>2 DEF ReaperArmed
    <3> QED
      BY <2>2, <2>3, <3>1, <3>2
  <2>7. op' \in {op, "idle"} /\ (op' # "idle" => index' = index)
    BY <1>5 DEF StoreField, FieldDone, Return
  <2> QED
    BY <2>1, <2>5, <2>6, <2>7 DEF ReaperArmed
<1>6. CASE TimingDeregisterTimer
  BY <1>6 DEF TimingDeregisterTimer, clockVars, ReaperArmed, TypeOK
<1>7. CASE DeregisterFind
  BY <1>0, <1>7, TimingAssumption
     DEF DeregisterFind, Return, clockVars, ReaperArmed
<1>8. ASSUME NEW f \in Fields, ClearField(f) PROVE ReaperArmed'
  <2>1. index \in Slot /\ index # 0 /\ op = "clear" /\ timer_hi' = timer_hi
    BY <1>8 DEF ClearField, IndexOK, ReaperArmed, clockVars
  <2>2. /\ handlers'[0] = handlers[0]
        /\ \A s \in Slot : handlers'[s].fire_tick \in {0, handlers[s].fire_tick}
    BY <1>0, <1>8, <2>1 DEF ClearField, Overwrite, FreeSlot, TypeOK
  <2>3. op' \in {op, "idle"} /\ (op' # "idle" => index' = index)
    BY <1>8 DEF ClearField, FieldDone, Return
  <2> QED
    BY <2>1, <2>2, <2>3 DEF ReaperArmed
<1>9. ASSUME NEW i \in Slot \ {0}, TimingRemoveIndex(i) PROVE ReaperArmed'
  <2>1. /\ handlers'[0] = handlers[0]
        /\ \A s \in Slot : handlers'[s].fire_tick = handlers[s].fire_tick
    BY <1>0, <1>9 DEF TimingRemoveIndex, TypeOK
  <2> QED
    BY <1>9, <2>1 DEF TimingRemoveIndex, clockVars, threadVars, ReaperArmed
<1>10. CASE TimerRecieveTick
  <2>1. timer_hi' = timer_hi + 1
    <3>1. timer_hi < Half
      BY TickBound
    <3> QED
      BY <1>0, <1>10, <3>1, ConstantTypes, TimingAssumption
         DEF TimerRecieveTick, Plus, Half
  <2> QED
    BY <1>0, <1>10, <2>1 DEF TimerRecieveTick, ReaperArmed
<1>11. CASE CyclicCall
  <2>1. t_i \in Slot /\ Due(t_i)
    BY <1>11, TimingAssumption DEF CyclicCall, TypeOK, Slot
  <2>2. PICK table \in HandlerEffect(t_i) : handlers' = Reschedule(table, t_i)
    BY <1>11 DEF CyclicCall
  <2>3. timer_hi' = timer_hi /\ op' = op /\ index' = index /\ builder' = builder
    BY <1>11 DEF CyclicCall, clockVars, threadVars
  <2>4. \A q \in Slot \ {t_i} : \/ handlers'[q] = handlers[q]
                                \/ /\ handlers'[q] = FreeSlot
                                   /\ Expired(handlers[q])
    BY <2>1, <2>2, EffectShape DEF TypeOK
  <2>5. timer_hi < Half /\ \A s \in Slot : handlers[s].fire_tick < Half
    BY TickBound DEF TimeInv, AheadOK, AheadAt
  <2>6. CASE t_i = 0
    <3>1. table = Reap(handlers)
      BY <2>2, <2>6 DEF HandlerEffect, ReaperArmed
    <3>2. table[0] = handlers[0]
      BY <1>0, <3>1, ArmedAhead DEF Reap
    <3>3. /\ handlers'[0].handler = Reaper
          /\ handlers'[0].repeat_rate = ReapRate
          /\ handlers'[0].fire_tick = Plus(timer_hi, ReapRate)
      <4>1. table \in [Slot -> Entry]
        BY <2>1, <2>2, EffectTypes DEF TypeOK
      <4>2. table[0].repeat_rate = ReapRate /\ ReapRate # 0
        BY <3>2, ConstantTypes, TimingAssumption DEF ReaperArmed
      <4> QED
        BY <1>0, <2>2, <2>6, <3>2, <4>1, <4>2 DEF Reschedule, ReaperArmed
    <3>4. Plus(timer_hi, ReapRate) = timer_hi + ReapRate
      <4>1. timer_hi \in 0 .. MaxTick /\ ReapRate \in 0 .. ReapRate
        BY <1>0, TickBound
      <4> QED
        BY <4>1, NoWrap
    <3>5. ASSUME NEW s \in Slot, handlers'[s].fire_tick # 0
          PROVE  timer_hi + ReapRate <= handlers'[s].fire_tick + ReapRate
      <4>1. CASE s = 0
        BY <1>0, <3>3, <3>4, <4>1
      <4>2. CASE s # 0
        <5>1. handlers'[s] = table[s] /\ table[s] = handlers[s]
              /\ ~Expired(handlers[s])
          BY <2>2, <2>6, <3>1, <3>5, <4>2
             DEF Reschedule, Reap, FreeSlot, TypeOK
        <5>2. ~(handlers[s].fire_tick < timer_hi)
          BY <2>5, <3>5, <5>1, ExpiredBehind DEF TypeOK
        <5> QED
          BY <1>0, <5>1, <5>2
      <4> QED
        BY <4>1, <4>2
    <3>6. timer_hi + ReapRate # 0 /\ timer_hi + ReapRate <= timer_hi + ReapRate
      BY <1>0, TimingAssumption, ConstantTypes
    <3> QED
      BY <2>3, <3>3, <3>4, <3>5, <3>6 DEF ReaperArmed
  <2>7. CASE t_i # 0
    <3>1. handlers'[0] = handlers[0]
      BY <1>0, <2>4, <2>7, ArmedAhead
    <3>2. handlers'[t_i].fire_tick \in {0, timer_hi}
          \/ handlers'[t_i].fire_tick >= timer_hi
      <4>1. \/ handlers'[t_i] = FreeSlot
            \/ handlers'[t_i].fire_tick = timer_hi
            \/ handlers'[t_i].fire_tick
                  = Plus(timer_hi, handlers[t_i].repeat_rate)
        BY <2>1, <2>2, <2>5, CallAhead
      <4>2. Plus(timer_hi, handlers[t_i].repeat_rate) >= timer_hi
        <5> DEFINE r == handlers[t_i].repeat_rate
        <5>1. r \in Nat /\ r \in Rates \cup {0, ReapRate}
          BY <2>1, ConstantTypes DEF TypeOK, Word, TimeInv, AheadOK, AheadAt
        <5>2. CASE r = 0
          BY <1>0, <2>5, <5>2, ConstantTypes, TimingAssumption DEF Plus, Half
        <5>3. CASE r # 0
          <6>1. timer_hi \in 0 .. MaxTick /\ r \in 0 .. r
            BY <5>1, TickBound
          <6>2. Plus(timer_hi, r) = timer_hi + r
            BY <5>1, <5>3, <6>1, NoWrap
          <6> QED
            BY <1>0, <5>1, <6>2
        <5> QED
          BY <5>2, <5>3
      <4> QED
        BY <4>1, <4>2 DEF FreeSlot
    <3>3. ASSUME NEW s \in Slot, handlers'[s].fire_tick # 0
          PROVE  handlers[0].fire_tick <= handlers'[s].fire_tick + ReapRate
      <4>1. CASE s = t_i
        <5>1. handlers'[s].fire_tick >= timer_hi
          BY <1>0, <3>2, <3>3, <4>1
        <5> QED
          BY <1>0, <5>1 DEF ReaperArmed
      <4>2. CASE s # t_i
        BY <2>4, <3>3, <4>2 DEF ReaperArmed, FreeSlot
      <4> QED
        BY <4>1, <4>2
    <3> QED
      BY <2>3, <3>1, <3>3 DEF ReaperArmed
  <2> QED
    BY <2>6, <2>7
<1> QED
  BY <1>1, <1>2, <1>3, <1>4, <1>5, <1>6, <1>7, <1>8, <1>9, <1>10, <1>11
     DEF Next, Thread, Interrupt, TimerSwitchDevice, TimingInit,
         TimingRegisterTimer, CyclicSkip, CyclicCallNull, IrqReturn, vars,
         clockVars, threadVars

\* As long as time stays below 2^31 ticks, a timer that will not fire again
\* holds its slot for at most one period of timing_reaper.
THEOREM ExpiredSlotsFreed ==
    BoundedTime => (Spec => []ExpiredSlotFreedInTime)
<1> SUFFICES ASSUME BoundedTime PROVE Spec => []ExpiredSlotFreedInTime
  OBVIOUS
<1>1. Init => TimeBoundedInv /\ ReaperInv
  <2>1. Init => ReaperInv
    BY TimingAssumption
       DEF Init, ReaperInv, ReaperStarting, OnlyReaper, FreeSlot, Slot
  <2> QED
    BY <2>1, InitTimeBounded
<1>2. TimeBoundedInv /\ ReaperInv /\ [Next]_vars
        => (TimeBoundedInv /\ ReaperInv)'
  <2> SUFFICES ASSUME TimeBoundedInv, ReaperInv, [Next]_vars
               PROVE  (TimeBoundedInv /\ ReaperInv)'
    OBVIOUS
  <2>1. TimeBoundedInv'
    BY NextTypeOK, HandlerInvNext, TimeInvNext DEF TimeBoundedInv
  <2>2. ReaperInv'
    BY <2>1, StartingNext, ArmedNext DEF ReaperInv
  <2> QED
    BY <2>1, <2>2
<1>3. TimeBoundedInv /\ ReaperInv => ExpiredSlotFreedInTime
  <2> SUFFICES ASSUME TimeBoundedInv, ReaperInv, NEW s \in Slot,
                      handlers[s].fire_tick # 0
               PROVE  timer_hi - handlers[s].fire_tick <= ReapRate
    BY DEF ExpiredSlotFreedInTime
  <2>1. timer_hi \in Nat /\ handlers[s].fire_tick \in Nat /\ ReapRate \in Nat
    BY ConstantTypes, TimingAssumption DEF TimeBoundedInv, TypeOK, Word
  <2>2. CASE ReaperStarting
    BY <2>1, <2>2, StartingQuiet
  <2>3. CASE ReaperArmed
    <3>1. /\ timer_hi <= handlers[0].fire_tick
          /\ handlers[0].fire_tick <= handlers[s].fire_tick + ReapRate
      BY <2>3, ArmedAhead DEF ReaperArmed
    <3>2. handlers[0].fire_tick \in Nat
      BY <2>3, ArmedAhead, ConstantTypes DEF TimeBoundedInv, TypeOK, Word
    <3> QED
      BY <2>1, <3>1, <3>2
  <2> QED
    BY <2>2, <2>3 DEF ReaperInv
<1> QED
  BY <1>1, <1>2, <1>3, PTL DEF Spec

-----------------------------------------------------------------------------
(* The watchdog.                                                           *)

LEMMA WdStepIsTimingStep ==
    ASSUME [WdNext]_allVars
    PROVE  [Next]_vars
<1>1. CASE KmainInit
  BY <1>1 DEF KmainInit, Next, Thread
<1>2. CASE WdNotify \/ (\E on \in BOOLEAN : WdSetEnabled(on)) \/ KmainHangs
  BY <1>2 DEF WdNotify, WdSetEnabled, KmainHangs
<1>3. CASE WdTick \/ CyclicOther
  BY <1>3 DEF WdTick, CyclicOther, Next, Interrupt
<1>4. CASE CyclicWd
  BY <1>4 DEF CyclicWd, Evaluate, EvaluateWith, Next, Interrupt
<1>5. CASE UNCHANGED allVars
  BY <1>5 DEF allVars
<1> QED
  BY <1>1, <1>2, <1>3, <1>4, <1>5 DEF WdNext, WdInterrupt

\* The kernel with its watchdog uses the timer table as its specification
\* allows: boot, kmain and wd_evaluate take only steps that timing.c takes.
THEOREM WatchdogUsesTiming == WdSpec => Spec
<1>1. WdStart => Init
  BY DEF WdStart
<1>2. [WdNext]_allVars => [Next]_vars
  BY WdStepIsTimingStep
<1> QED
  BY <1>1, <1>2, PTL DEF WdSpec, Spec

-----------------------------------------------------------------------------
(* The hang-ups are explained.                                             *)

\* How far a counter that wraps has moved, from b to a.
Distance(a, b) == IF a >= b THEN a - b ELSE a - b + WordSize

\* How far wd_kmain has moved from the value the last evaluation saw.
Counted == Distance(wd_kmain, wd_kmain_o)

LEMMA NoDistance ==
    ASSUME NEW a \in Word PROVE Distance(a, a) = 0
BY ConstantTypes DEF Distance, Word

\* As long as the machine runs: wd_kmain has not come round to the old value,
\* so that it is unchanged only when no round was counted, and the limits are
\* not passed.
RunningOK ==
    ~halted =>
        /\ Counted <= iterations
        /\ heard <=> Counted # 0
        /\ wd_kmain_hangups <= WD_HU_LIMIT_KMAIN
        /\ wd_total_hangups <= WD_HU_LIMIT

ExplainedInv == TypeOK /\ IndexOK /\ HangupsExplained /\ RunningOK

LEMMA InitExplained == WdStart => ExplainedInv
<1> SUFFICES ASSUME WdStart PROVE ExplainedInv
  OBVIOUS
<1>1. TypeOK /\ IndexOK
  BY InitTypeOK DEF WdStart, Init, IndexOK
<1>2. /\ WordSize \in Nat /\ 0 \in Word /\ MaxNotify \in Nat
      /\ WD_HU_LIMIT \in Nat /\ WD_HU_LIMIT_KMAIN \in Nat
  BY ConstantTypes, WatchdogAssumption
<1>3. WdTypeOK
  <2>1. wd_enabled \in BOOLEAN /\ halted \in BOOLEAN /\ heard \in BOOLEAN
    BY Zenon DEF WdStart
  <2> QED
    BY <1>2, <2>1 DEF WdStart, WdTypeOK
<1>4. Counted = 0
  BY DEF WdStart, Counted, Distance
<1>5. ~heard
  BY Zenon DEF WdStart
<1> QED
  BY <1>1, <1>2, <1>3, <1>4, <1>5 DEF WdStart, ExplainedInv, HangupsExplained, RunningOK

LEMMA ExplainedNext ==
    ASSUME ExplainedInv, [WdNext]_allVars
    PROVE  ExplainedInv'
<1> USE DEF ExplainedInv
<1>1. TypeOK' /\ IndexOK'
  BY WdStepIsTimingStep, NextTypeOK
<1>2. /\ WordSize \in Nat /\ WordSize > 0 /\ MaxNotify \in 1 .. WordSize - 1
      /\ WD_HU_LIMIT \in Nat /\ WD_HU_LIMIT_KMAIN \in Nat
  BY ConstantTypes, WatchdogAssumption, TimingAssumption
<1>3. WdTypeOK
  BY DEF HangupsExplained
<1>4. CASE UNCHANGED wdVars /\ kmain' \in {"init", "wd_init", "loop", "hung"}
           /\ hungAt' \in Word
  BY <1>1, <1>3, <1>4 DEF wdVars, counters, history, HangupsExplained,
                          WdTypeOK, RunningOK, Counted
<1>5. CASE KmainInit
  BY <1>3, <1>4, <1>5 DEF KmainInit, WdTypeOK
<1>6. CASE WdNotify
  <2>1. /\ iterations' = iterations + 1 /\ iterations' \in 0 .. MaxNotify
        /\ iterations \in Nat /\ iterations < MaxNotify
    BY <1>2, <1>3, <1>6 DEF WdNotify, WdTypeOK
  <2>2. CASE wd_enabled
    <3>1. wd_kmain' = Plus(wd_kmain, 1) /\ wd_kmain' \in Word
      BY <1>3, <1>6, <2>2, PlusWord, ConstantTypes DEF WdNotify, WdTypeOK
    <3>2. heard' = TRUE
      BY <1>6, <2>2, Zenon DEF WdNotify
    <3>3. ~halted
      BY <1>6 DEF WdNotify, KmainRuns
    <3>4. Counted <= iterations /\ Counted < WordSize - 1 /\ Counted >= 0
      BY <1>2, <1>3, <2>1, <3>3 DEF RunningOK, Counted, Distance, WdTypeOK, Word
    <3>5. Counted' = Counted + 1
      <4>1. Counted' = Distance(wd_kmain', wd_kmain_o)
        BY <1>6 DEF Counted, WdNotify
      <4> QED
        BY <1>2, <1>3, <3>1, <3>4, <4>1 DEF Counted, Distance, Plus, WdTypeOK, Word
    <3>6. Counted \in Nat
      BY <1>2, <1>3, <3>4 DEF Counted, Distance, WdTypeOK, Word
    <3>7. WdTypeOK'
      <4>1. heard' \in BOOLEAN
        BY <3>2
      <4> QED
        BY <1>3, <1>6, <2>1, <3>1, <4>1 DEF WdNotify, WdTypeOK
    <3>8. RunningOK'
      <4>1. Counted' <= iterations' /\ Counted' # 0
        BY <2>1, <3>4, <3>5, <3>6
      <4>2. heard' <=> Counted' # 0
        BY <3>2, <4>1, Zenon
      <4> QED
        BY <1>6, <4>1, <4>2 DEF WdNotify, RunningOK
    <3> QED
      BY <1>1, <1>6, <3>7, <3>8 DEF HangupsExplained, WdNotify
  <2>3. CASE ~wd_enabled
    <3>1. wd_kmain' = wd_kmain /\ Counted' = Counted
      BY <1>6, <2>3 DEF WdNotify, Counted
    <3>2. heard' = heard
      BY <1>3, <1>6, <2>3, Zenon DEF WdNotify, WdTypeOK
    <3>3. WdTypeOK'
      BY <1>3, <1>6, <2>1, <3>1, <3>2 DEF WdNotify, WdTypeOK
    <3>4. RunningOK'
      <4>1. Counted \in Int
        BY <1>2, <1>3 DEF Counted, Distance, WdTypeOK, Word
      <4> QED
        BY <1>6, <2>1, <3>1, <3>2, <4>1 DEF WdNotify, RunningOK
    <3> QED
      BY <1>1, <1>6, <3>3, <3>4 DEF HangupsExplained, WdNotify
  <2> QED
    BY <2>2, <2>3
<1>7. ASSUME NEW on \in BOOLEAN, WdSetEnabled(on) PROVE ExplainedInv'
  BY <1>1, <1>3, <1>7 DEF WdSetEnabled, counters, history, HangupsExplained,
                          WdTypeOK, RunningOK, Counted
<1>8. CASE KmainHangs
  BY <1>3, <1>4, <1>8 DEF KmainHangs, TypeOK
<1>9. CASE WdTick \/ CyclicOther \/ UNCHANGED allVars
  BY <1>3, <1>4, <1>9 DEF WdTick, CyclicOther, allVars, WdTypeOK
<1>10. CASE CyclicWd
  <2>1. /\ wd_total_hangups' = wd_total_hangups + Hangup
        /\ wd_kmain_hangups' = wd_kmain_hangups + Hangup
        /\ halted' = OverLimit
        /\ wd_kmain_o' = IF OverLimit THEN wd_kmain_o ELSE wd_kmain
        /\ wd_kmain' = wd_kmain /\ wd_enabled' = wd_enabled
        /\ kmain' = kmain /\ hungAt' = hungAt /\ iterations' = 0
        /\ silent' = IF iterations = 0 THEN silent + 1 ELSE silent
        /\ muted' = IF iterations # 0 /\ ~heard THEN muted + 1 ELSE muted
    BY <1>10 DEF CyclicWd, Evaluate, EvaluateWith
  <2>2. halted' \in BOOLEAN /\ heard' = FALSE
    BY <1>10, Zenon DEF CyclicWd, Evaluate, EvaluateWith, OverLimit
  <2>3. ~halted
    BY <1>10 DEF CyclicWd
  <2>4. Hangup \in 0 .. 1 /\ (Hangup = 1 <=> Counted = 0)
    BY <1>2, <1>3 DEF Hangup, Counted, Distance, WdTypeOK, Word
  <2>5. /\ iterations \in Nat /\ Counted \in Nat
        /\ wd_kmain_hangups \in 0 .. WD_HU_LIMIT_KMAIN
        /\ wd_total_hangups \in 0 .. WD_HU_LIMIT
    BY <1>2, <1>3, <2>3 DEF RunningOK, WdTypeOK, Counted, Distance, Word
  <2>6. Hangup = 1 <=> iterations = 0 \/ ~heard
    BY <2>3, <2>4, <2>5 DEF RunningOK
  <2>7. silent' + muted' = silent + muted + Hangup
    BY <1>3, <2>1, <2>4, <2>6 DEF WdTypeOK
  <2>8. WdTypeOK'
    <3>1. heard' \in BOOLEAN
      BY <2>2
    <3>2. /\ wd_kmain_hangups' \in 0 .. WD_HU_LIMIT_KMAIN + 1
          /\ wd_total_hangups' \in 0 .. WD_HU_LIMIT + 1
      BY <1>2, <2>1, <2>4, <2>5
    <3>3. /\ silent' \in Nat /\ muted' \in Nat /\ iterations' \in 0 .. MaxNotify
          /\ wd_kmain' \in Word /\ wd_kmain_o' \in Word
      BY <1>2, <1>3, <2>1 DEF WdTypeOK
    <3> QED
      BY <1>3, <2>1, <2>2, <3>1, <3>2, <3>3, Zenon DEF WdTypeOK
  <2>9. RunningOK'
    <3>1. ASSUME ~OverLimit
          PROVE  /\ wd_kmain_hangups' <= WD_HU_LIMIT_KMAIN
                 /\ wd_total_hangups' <= WD_HU_LIMIT
                 /\ Counted' = 0
      <4>1. Distance(wd_kmain, wd_kmain) = 0
        BY <1>3, NoDistance DEF WdTypeOK
      <4>2. Counted' = Distance(wd_kmain', wd_kmain_o')
        BY DEF Counted
      <4>3. Counted' = 0
        BY <2>1, <3>1, <4>1, <4>2, Zenon
      <4> QED
        BY <1>2, <2>1, <2>4, <2>5, <3>1, <4>3 DEF OverLimit
    <3>2. ~halted' => ~OverLimit
      BY <1>10, Zenon DEF CyclicWd, Evaluate, EvaluateWith
    <3>3. ~heard'
      BY <2>2, Zenon
    <3> QED
      BY <2>1, <3>1, <3>2, <3>3 DEF RunningOK
  <2> QED
    BY <1>1, <1>3, <2>1, <2>4, <2>5, <2>7, <2>8, <2>9 DEF HangupsExplained, WdTypeOK
<1> QED
  BY <1>5, <1>6, <1>7, <1>8, <1>9, <1>10 DEF WdNext, WdInterrupt

\* For every word size, limit and timing: each hang-up that wd_evaluate counts
\* is a period without a round of kmain, or one whose rounds all fell under
\* wd_disable, although wd_kmain wraps and kmain never reads the counters.
THEOREM HangupsAreExplained == WdSpec => []HangupsExplained
<1>1. WdStart => ExplainedInv
  BY InitExplained
<1>2. ExplainedInv /\ [WdNext]_allVars => ExplainedInv'
  BY ExplainedNext
<1>3. ExplainedInv => HangupsExplained
  BY DEF ExplainedInv
<1> QED
  BY <1>1, <1>2, <1>3, PTL DEF WdSpec

-----------------------------------------------------------------------------
(* A kmain that hung is noticed in time.                                   *)

\* The table has room for the reaper and the watchdog (it has 0xFF slots).
RoomForTwo == Slots >= 2

\* The watchdog's timer: in slot 1, periodic, at most one period ahead.
WdArmed ==
    /\ handlers[1].handler = WdEvaluate /\ handlers[1].repeat_rate = WdRate
    /\ handlers[1].fire_tick # 0
    /\ handlers[1].fire_tick <= timer_hi + WdRate

\* wd_init's registration, until its last store.
WdRegistering ==
    /\ Registering
    /\ builder.handler = WdEvaluate
    /\ builder.repeat_rate = WdRate /\ builder.delay = WdRate
    /\ index \in {0, 1}
    /\ op \in {"scan", "build"} => handlers[1].fire_tick = 0
    /\ op \in {"build", "store"} => index = 1
    /\ op = "store" =>
          /\ "repeat_rate" \notin todo => handlers[1].repeat_rate = WdRate
          /\ "handler" \notin todo => handlers[1].handler = WdEvaluate

\* The next evaluation leaves kmain's hang-ups, of which there may be one
\* less than evaluations since it hung, enough periods.
HungOK ==
    kmain = "hung" /\ ~halted =>
        handlers[1].fire_tick
            <= hungAt + (wd_kmain_hangups + 1 + Hangup) * WdRate

WatchInv ==
    /\ \A s \in Slot : s > 1 => handlers[s].fire_tick = 0
    /\ kmain = "init" =>
          /\ handlers[1].fire_tick = 0
          /\ op # "idle" => ReaperStarting
    /\ kmain # "init" \/ op = "idle" => ReaperArmed
    /\ kmain = "wd_init" => WdRegistering
    /\ kmain \in {"loop", "hung"} => op = "idle" /\ WdArmed
    /\ HungOK

WatchdogInv == TimeBoundedInv /\ ReaperInv /\ ExplainedInv /\ WatchInv

\* The periods fit in the patience, and one more adds its length.
LEMMA PeriodsFit ==
    ASSUME NEW n \in Nat, NEW k \in Nat, NEW r \in Nat, n <= k
    PROVE  n * r <= k * r /\ (n + 1) * r = n * r + r /\ n * r \in Nat
<1>1. k * r = n * r + (k - n) * r
  OBVIOUS
<1>2. (k - n) * r >= 0 /\ n * r >= 0
  <2>1. k - n >= 0 /\ n >= 0 /\ r >= 0 /\ k - n \in Int
    OBVIOUS
  <2>2. ASSUME NEW a \in Nat, NEW b \in Nat PROVE a * b \in Nat
    OBVIOUS
  <2> QED
    BY <2>1, <2>2
<1> QED
  BY <1>1, <1>2

LEMMA RateTypes ==
    ASSUME RoomForTwo
    PROVE  /\ WdRate \in Nat \ {0} /\ WdRate \in Delays \cup Rates \cup {ReapRate}
           /\ Handlers = {WdEvaluate} /\ Delays = {WdRate} /\ Rates = {WdRate}
           /\ WdEvaluate # Reaper /\ WdEvaluate # Null
           /\ 0 \in Slot /\ 1 \in Slot
           /\ WD_HU_LIMIT_KMAIN \in Nat
<1>1. WdRate \in Nat
  BY WatchdogAssumption, TimingAssumption
<1> QED
  BY <1>1, WatchdogAssumption, TimingAssumption DEF RoomForTwo, Slot

\* In the table there are the reaper, in slot 0, and the watchdog, in slot 1
\* and ahead of the reaper.
LEMMA WatchQuiet ==
    ASSUME BoundedTime, RoomForTwo, WatchdogInv, NEW s \in Slot
    PROVE  /\ Due(s) => \/ s = 0 /\ handlers[s].handler = Reaper
                        \/ s = 1 /\ kmain \in {"loop", "hung"}
           /\ s = 1 => ~Expired(handlers[s])
           /\ kmain \in {"loop", "hung"} => timer_hi <= handlers[1].fire_tick
<1> USE DEF WatchdogInv, TimeBoundedInv
<1>1. /\ timer_hi \in Word /\ timer_hi < Half /\ timer_hi \in Nat
      /\ \A q \in Slot : handlers[q] \in Entry /\ handlers[q].fire_tick < Half
      /\ \A q \in Slot : handlers[q].fire_tick \in Nat
  BY TickBound, ConstantTypes DEF TypeOK, Entry, Word, TimeInv, AheadOK, AheadAt
<1>2. ASSUME Due(s), s = 0 PROVE handlers[s].handler = Reaper
  BY <1>2, StartingQuiet DEF ReaperInv, ReaperArmed
<1>3. s = 1 /\ kmain \notin {"loop", "hung"} /\ handlers[s].fire_tick # 0 =>
        timer_hi < handlers[s].fire_tick
  <2>1. CASE kmain = "wd_init" /\ s = 1 /\ handlers[s].fire_tick # 0
    <3>1. op = "store" /\ index = 1
      BY <2>1 DEF WatchInv, WdRegistering, Registering
    <3>2. "fire_tick" \notin todo
      BY <2>1, <3>1 DEF HandlerInv, ClaimOK, SlotClaimed
    <3>3. handlers[1].fire_tick = builder.fire_tick
      BY <3>1, <3>2 DEF TimeInv, StoredOK
    <3> QED
      BY <2>1, <3>1, <3>3, BuiltAhead DEF HandlerInv
  <2>2. kmain \in {"init", "wd_init", "loop", "hung"}
    BY DEF ExplainedInv, HangupsExplained, WdTypeOK
  <2> QED
    BY <2>1, <2>2 DEF WatchInv
<1>4. ASSUME kmain \in {"loop", "hung"} PROVE timer_hi <= handlers[1].fire_tick
  <2>1. 1 \in Slot /\ Live(1) /\ handlers[1].fire_tick # 0
    BY <1>4, RateTypes DEF WatchInv, WdArmed, Live
  <2> QED
    BY <2>1 DEF TimeInv, AheadOK, AheadAt
<1>5. Due(s) => s \in {0, 1}
  BY <1>1 DEF Due, WatchInv, Slot
<1>6. s = 1 /\ kmain \notin {"loop", "hung"} => ~Due(s)
  BY <1>1, <1>3 DEF Due
<1>7. s = 1 => ~Expired(handlers[s])
  <2>1. s = 1 /\ handlers[s].fire_tick # 0 => ~(handlers[s].fire_tick < timer_hi)
    BY <1>1, <1>3, <1>4
  <2> QED
    BY <1>1, <2>1, ExpiredBehind
<1> QED
  BY <1>2, <1>4, <1>5, <1>6, <1>7

LEMMA InitWatch ==
    ASSUME RoomForTwo, WdStart
    PROVE  WatchdogInv
<1>1. Init
  BY DEF WdStart
<1>2. ReaperStarting
  BY <1>1, TimingAssumption
     DEF Init, ReaperStarting, OnlyReaper, FreeSlot, Slot
<1>3. WatchInv
  BY <1>1, <1>2, RateTypes DEF WdStart, Init, WatchInv, FreeSlot, HungOK
<1> QED
  BY <1>1, <1>2, <1>3, InitTimeBounded, InitExplained
     DEF WatchdogInv, ReaperInv

LEMMA WatchNext ==
    ASSUME BoundedTime, RoomForTwo, WatchdogInv, [WdNext]_allVars,
           TimeBoundedInv', ReaperInv', ExplainedInv'
    PROVE  WatchInv'
<1> USE DEF WatchdogInv, TimeBoundedInv
<1>1. /\ 0 \in Slot /\ 1 \in Slot /\ Slots \in Nat /\ Slots >= 2
      /\ handlers \in [Slot -> Entry] /\ builder \in Timer
      /\ handlers' \in [Slot -> Entry]
      /\ timer_hi \in Nat
      /\ \A q \in Slot : handlers[q].fire_tick \in Nat
      /\ \A q \in Slot : q \in Nat
      /\ kmain \in {"init", "wd_init", "loop", "hung"}
  <2>1. kmain \in {"init", "wd_init", "loop", "hung"}
    BY DEF ExplainedInv, HangupsExplained, WdTypeOK
  <2>2. handlers \in [Slot -> Entry] /\ handlers' \in [Slot -> Entry] /\ builder \in Timer
    BY DEF TypeOK, Entry, Timer
  <2>3. timer_hi \in Nat /\ \A q \in Slot : handlers[q].fire_tick \in Nat
    BY ConstantTypes DEF TypeOK, Word
  <2> QED
    BY <2>1, <2>2, <2>3, RateTypes, TimingAssumption DEF RoomForTwo, Slot
<1>2. CASE UNCHANGED <<timer_hi, handlers, op, index, builder, todo, kmain,
                      wd_kmain, wd_kmain_o, wd_kmain_hangups, halted, hungAt>>
  BY <1>2 DEF WatchInv, ReaperStarting, OnlyReaper, ReaperArmed, Registering,
              WdRegistering, WdArmed, HungOK, Hangup
<1>3. [Next]_vars
  BY WdStepIsTimingStep
<1>4. ReaperArmed => ReaperArmed'
  BY <1>3, ArmedNext DEF TimeBoundedInv
<1>5. ASSUME ReaperStarting, op' \in {"boot", "scan", "build", "store"},
             index' = 0 \/ op' = "boot",
             op' = "scan" => handlers'[0].fire_tick = 0
      PROVE  ReaperStarting'
  <2>1. ~ReaperArmed'
    BY <1>5 DEF ReaperArmed
  <2> QED
    BY <2>1 DEF ReaperInv
<1>6. CASE KmainInit
  <2>1. /\ UNCHANGED <<wd_kmain, wd_kmain_o, wd_kmain_hangups, halted, hungAt>>
        /\ kmain \in {"init", "wd_init"} /\ kmain' # "hung"
    BY <1>6 DEF KmainInit, wdVars, counters
  <2>2. HungOK'
    BY <2>1 DEF HungOK
  <2>3. CASE TimingInit /\ UNCHANGED kmain
    <3>1. kmain = "init" /\ ReaperStarting
      BY <2>1, <2>3 DEF WatchInv, TimingInit, ReaperArmed
    <3>2. op' = "scan" /\ index' = 0 /\ handlers' = handlers
      BY <2>3 DEF TimingInit, RegisterTimer
    <3>3. ReaperStarting'
      BY <1>5, <2>3, <3>1, <3>2 DEF ReaperStarting, Registering, TimingInit
    <3> QED
      BY <2>2, <2>3, <3>1, <3>2, <3>3 DEF WatchInv
  <2>4. CASE kmain = "init" /\ TimingRegisterTimer /\ kmain' = "wd_init"
    <3>1. ReaperArmed'
      BY <1>4, <2>4 DEF WatchInv, TimingRegisterTimer
    <3>2. /\ op' = "scan" /\ index' = 0 /\ handlers' = handlers
          /\ builder'.handler = WdEvaluate /\ builder'.delay = WdRate
          /\ builder'.repeat_rate = WdRate
      BY <2>4, RateTypes DEF TimingRegisterTimer, RegisterTimer
    <3> QED
      BY <2>2, <2>4, <3>1, <3>2 DEF WatchInv, WdRegistering, Registering
  <2>5. ASSUME RegisterScan \/ BuildTimer \/ \E f \in Fields : StoreField(f)
        PROVE  kmain' = IF kmain = "wd_init" /\ op' = "idle" THEN "loop"
                                                             ELSE kmain
    <3>1. op \notin {"boot", "idle"}
      BY <2>5 DEF RegisterScan, BuildTimer, StoreField
    <3> QED
      BY <1>6, <3>1 DEF KmainInit, TimingInit, TimingRegisterTimer
  <2>6. CASE RegisterScan
    <3>1. op = "scan" /\ handlers' = handlers
      BY <2>6 DEF RegisterScan
    <3>2. CASE kmain = "init"
      <4>1. ReaperStarting /\ index = 0 /\ handlers[0].fire_tick = 0
        BY <3>1, <3>2 DEF WatchInv, ReaperStarting
      <4>2. op' = "build" /\ index' = 0
        BY <1>1, <2>6, <4>1 DEF RegisterScan
      <4>3. ReaperStarting' /\ kmain' = "init"
        BY <1>5, <2>5, <2>6, <3>2, <4>1, <4>2
      <4> QED
        BY <2>2, <3>1, <3>2, <4>2, <4>3 DEF WatchInv
    <3>3. CASE kmain = "wd_init"
      <4>1. ReaperArmed' /\ handlers[0].fire_tick # 0
        BY <1>4, <3>3 DEF WatchInv, ReaperArmed
      <4>2. index \in {0, 1} /\ handlers[1].fire_tick = 0
        BY <3>1, <3>3 DEF WatchInv, WdRegistering
      <4>3. /\ builder' = builder /\ index' = 1
            /\ op' \in {"scan", "build"}
        BY <1>1, <2>6, <4>1, <4>2 DEF RegisterScan
      <4>4. kmain' = "wd_init"
        BY <2>5, <2>6, <3>3, <4>3
      <4> QED
        BY <2>2, <3>1, <3>3, <4>1, <4>2, <4>3, <4>4
           DEF WatchInv, WdRegistering, Registering
    <3> QED
      BY <2>1, <3>2, <3>3
  <2>7. CASE BuildTimer
    <3>1. /\ op = "build" /\ op' = "store" /\ handlers' = handlers
          /\ index' = index /\ todo' = Fields
          /\ builder' = [builder EXCEPT !.fire_tick = Plus(builder.delay, timer_hi)]
      BY <2>7 DEF BuildTimer
    <3>2. kmain' = kmain
      BY <2>5, <2>7, <3>1
    <3>3. CASE kmain = "init"
      <4>1. ReaperStarting /\ index = 0
        BY <3>1, <3>3 DEF WatchInv, ReaperStarting
      <4>2. ReaperStarting'
        BY <1>5, <3>1, <4>1
      <4> QED
        BY <2>2, <3>1, <3>2, <3>3, <4>2 DEF WatchInv
    <3>4. CASE kmain = "wd_init"
      <4>1. ReaperArmed'
        BY <1>4, <3>4 DEF WatchInv
      <4>2. WdRegistering
        BY <3>4 DEF WatchInv
      <4>3. /\ builder'.handler = builder.handler /\ builder'.delay = builder.delay
            /\ builder'.repeat_rate = builder.repeat_rate
        BY <1>1, <3>1 DEF Timer
      <4>4. WdRegistering'
        BY <3>1, <4>2, <4>3 DEF WdRegistering, Registering, Fields
      <4> QED
        BY <2>2, <3>1, <3>2, <3>4, <4>1, <4>4 DEF WatchInv
    <3> QED
      BY <2>1, <3>3, <3>4
  <2>8. ASSUME NEW f \in Fields, StoreField(f) PROVE WatchInv'
    <3>1. /\ op = "store" /\ index \in Slot /\ f \in todo /\ timer_hi' = timer_hi
          /\ handlers'[index] = Overwrite(handlers[index], f, builder)
          /\ \A q \in Slot \ {index} : handlers'[q] = handlers[q]
      BY <1>1, <2>8 DEF StoreField, IndexOK, clockVars
    <3>2. /\ todo = {f} => op' = "idle"
          /\ todo # {f} => /\ op' = op /\ index' = index /\ builder' = builder
                           /\ todo' = todo \ {f}
      BY <2>8 DEF StoreField, FieldDone, Return
    <3>3. CASE kmain = "init"
      <4>1. ReaperStarting /\ index = 0
        BY <3>1, <3>3 DEF WatchInv, ReaperStarting
      <4>2. kmain' = "init" /\ handlers'[1].fire_tick = 0
        BY <1>1, <2>5, <2>8, <3>1, <3>3, <4>1 DEF WatchInv
      <4>3. \A s \in Slot : s > 1 => handlers'[s].fire_tick = 0
        BY <1>1, <3>1, <4>1 DEF WatchInv
      <4>4. CASE todo # {f}
        <5>1. ReaperStarting'
          BY <1>5, <3>1, <3>2, <4>1, <4>4
        <5> QED
          BY <2>2, <3>1, <3>2, <4>2, <4>3, <4>4, <5>1 DEF WatchInv
      <4>5. CASE todo = {f}
        <5>1. op' = "idle" /\ ReaperArmed'
          BY <3>2, <4>5 DEF ReaperInv, ReaperStarting, Registering
        <5> QED
          BY <2>2, <4>2, <4>3, <5>1 DEF WatchInv
      <4> QED
        BY <4>4, <4>5
    <3>4. CASE kmain = "wd_init"
      <4>1. ReaperArmed'
        BY <1>4, <3>4 DEF WatchInv
      <4>2. WdRegistering /\ index = 1
        BY <3>1, <3>4 DEF WatchInv, WdRegistering
      <4>3. \A s \in Slot : s > 1 => handlers'[s].fire_tick = 0
        BY <1>1, <3>1, <4>2 DEF WatchInv
      <4>4. CASE todo # {f}
        <5>1. WdRegistering'
          BY <3>1, <3>2, <4>2, <4>4 DEF WdRegistering, Registering, Overwrite
        <5>2. kmain' = "wd_init"
          BY <2>5, <2>8, <3>1, <3>2, <3>4, <4>4
        <5> QED
          BY <2>2, <4>1, <4>3, <5>1, <5>2 DEF WatchInv
      <4>5. CASE todo = {f}
        <5>1. op' = "idle" /\ kmain' = "loop"
          BY <2>5, <2>8, <3>2, <3>4, <4>5
        <5>2. /\ handlers'[1].handler = WdEvaluate
              /\ handlers'[1].repeat_rate = WdRate
              /\ handlers'[1].fire_tick = builder.fire_tick
          BY <3>1, <4>2, <4>5
             DEF WdRegistering, Overwrite, Fields, TimeInv, StoredOK
        <5>3. timer_hi < builder.fire_tick
          BY <3>1, BuiltAhead DEF HandlerInv
        <5>4. builder.fire_tick <= timer_hi + WdRate /\ builder.fire_tick # 0
          <6>1. builder.fire_tick = Plus(timer_hi, WdRate - stall)
            BY <3>1, <4>2 DEF HandlerInv, RequestOK, WdRegistering
          <6>2. stall \in Nat /\ WdRate \in Nat /\ builder.fire_tick \in Nat
            BY <1>1, RateTypes, ConstantTypes, TimingAssumption DEF TypeOK, Word
          <6> QED
            BY <1>1, <5>3, <6>1, <6>2, ConstantTypes DEF Plus
        <5>5. WdArmed'
          BY <3>1, <5>2, <5>4 DEF WdArmed
        <5> QED
          BY <2>2, <4>1, <4>3, <5>1, <5>5 DEF WatchInv
      <4> QED
        BY <4>4, <4>5
    <3> QED
      BY <2>1, <3>3, <3>4
  <2> QED
    BY <1>6, <2>3, <2>4, <2>6, <2>7, <2>8 DEF KmainInit
<1>7. CASE WdNotify \/ \E on \in BOOLEAN : WdSetEnabled(on)
  <2>1. /\ UNCHANGED <<timer_hi, handlers, op, index, builder, todo, kmain>>
        /\ kmain = "loop"
    BY <1>7 DEF WdNotify, WdSetEnabled, KmainRuns, vars, clockVars, threadVars
  <2> QED
    BY <1>4, <2>1 DEF WatchInv, WdArmed, HungOK
<1>8. CASE KmainHangs
  <2>1. /\ UNCHANGED <<timer_hi, handlers, op, index, builder, todo>>
        /\ UNCHANGED <<wd_kmain, wd_kmain_o, wd_kmain_hangups, halted>>
        /\ kmain = "loop" /\ kmain' = "hung" /\ hungAt' = timer_hi
    BY <1>8 DEF KmainHangs, KmainRuns, vars, clockVars, threadVars, wdVars,
                counters
  <2>2. handlers[1].fire_tick <= timer_hi + WdRate
    BY <2>1 DEF WatchInv, WdArmed
  <2>3. wd_kmain_hangups \in Nat /\ Hangup \in Nat
    BY RateTypes DEF ExplainedInv, HangupsExplained, WdTypeOK, Hangup
  <2>4. 1 * WdRate <= (wd_kmain_hangups + 1 + Hangup) * WdRate
    <3>1. 1 <= wd_kmain_hangups + 1 + Hangup
          /\ wd_kmain_hangups + 1 + Hangup \in Nat
      BY <2>3
    <3> QED
      BY <3>1, RateTypes, PeriodsFit
  <2>5. HungOK'
    <3>1. Hangup' = Hangup
      BY <2>1 DEF Hangup
    <3> DEFINE P == (wd_kmain_hangups + 1 + Hangup) * WdRate
    <3>2. P \in Nat /\ WdRate <= P
      BY <2>3, <2>4, RateTypes, PeriodsFit
    <3> HIDE DEF P
    <3>3. handlers[1].fire_tick <= timer_hi + P
      BY <1>1, <2>2, <3>2, RateTypes
    <3>4. handlers[1].fire_tick
             <= timer_hi + (wd_kmain_hangups + 1 + Hangup) * WdRate
      BY <3>3 DEF P
    <3> QED
      BY <2>1, <3>1, <3>4 DEF HungOK
  <2> QED
    BY <1>4, <2>1, <2>5 DEF WatchInv, WdArmed
<1>9. CASE WdTick
  <2>1. /\ UNCHANGED <<handlers, op, index, builder, todo, kmain>>
        /\ UNCHANGED <<wd_kmain, wd_kmain_o, wd_kmain_hangups, halted, hungAt>>
        /\ timer_hi < MaxTick /\ timer_hi' = Plus(timer_hi, 1)
    BY <1>9 DEF WdTick, TimerRecieveTick, wdVars, counters
  <2>2. timer_hi <= timer_hi' /\ timer_hi' \in Nat
    <3>1. timer_hi < Half
      BY TickBound
    <3> QED
      BY <1>1, <2>1, <3>1, ConstantTypes, TimingAssumption DEF Plus, Half
  <2>3. ReaperStarting => ReaperStarting'
    BY <2>1 DEF ReaperStarting, OnlyReaper, Registering
  <2>4. WdRegistering => WdRegistering'
    BY <2>1 DEF WdRegistering, Registering
  <2>5. WdArmed => WdArmed'
    BY <1>1, <2>1, <2>2, RateTypes DEF WdArmed
  <2>6. HungOK'
    <3>1. Hangup' = Hangup /\ HungOK
      BY <2>1 DEF Hangup, WatchInv
    <3> QED
      BY <2>1, <3>1 DEF HungOK
  <2> QED
    BY <1>4, <2>1, <2>3, <2>4, <2>5, <2>6 DEF WatchInv
<1>10. CASE CyclicOther
  <2>1. /\ UNCHANGED <<kmain, wd_kmain, wd_kmain_o, wd_kmain_hangups, halted,
                       hungAt>>
        /\ irq
    BY <1>10 DEF CyclicOther, wdVars, counters
  <2>2. CASE CyclicSkip \/ CyclicCallNull \/ IrqReturn
    BY <1>2, <2>1, <2>2
       DEF CyclicSkip, CyclicCallNull, IrqReturn, clockVars, threadVars
  <2>3. CASE CyclicCall
    <3>1. t_i \in Slot /\ Due(t_i) /\ IrqRuns /\ t_i < Slots
      BY <2>3, TimingAssumption DEF CyclicCall, TypeOK, Slot
    <3>2. handlers[t_i].handler # WdEvaluate
      BY <1>10, <3>1 DEF CyclicOther, CallsWd
    <3>3. t_i = 0 /\ handlers[0].handler = Reaper
      BY <3>1, <3>2, WatchQuiet DEF WatchInv, WdArmed
    <3>4. PICK table \in HandlerEffect(t_i) : handlers' = Reschedule(table, t_i)
      BY <2>3 DEF CyclicCall
    <3>5. \A q \in Slot \ {t_i} : \/ handlers'[q] = handlers[q]
                                  \/ /\ handlers'[q] = FreeSlot
                                     /\ Expired(handlers[q])
      BY <3>1, <3>4, EffectShape DEF TypeOK, Entry
    <3>6. handlers'[1] = handlers[1]
      BY <1>1, <3>3, <3>5, WatchQuiet
    <3>7. \A s \in Slot : s > 1 => handlers'[s].fire_tick = 0
      BY <1>1, <3>3, <3>5 DEF WatchInv, FreeSlot
    <3>8. UNCHANGED <<timer_hi, op, index, builder, todo>>
      BY <2>3 DEF CyclicCall, clockVars, threadVars
    <3>9. ~ReaperStarting
      BY <3>1, StartingQuiet
    <3>10. WdRegistering => WdRegistering'
      BY <3>6, <3>8 DEF WdRegistering, Registering
    <3>11. WdArmed => WdArmed'
      BY <3>6, <3>8 DEF WdArmed
    <3>12. HungOK'
      <4>1. Hangup' = Hangup /\ HungOK
        BY <2>1 DEF Hangup, WatchInv
      <4> QED
        BY <2>1, <3>6, <4>1 DEF HungOK
    <3> QED
      BY <1>4, <2>1, <3>6, <3>7, <3>8, <3>9, <3>10, <3>11, <3>12 DEF WatchInv
  <2> QED
    BY <1>10, <2>1, <2>2, <2>3
       DEF CyclicOther, Interrupt, TimerRecieveTick, ThreadRuns
<1>11. CASE CyclicWd
  <2>1. /\ t_i \in Slot /\ Due(t_i) /\ handlers[t_i].handler = WdEvaluate
        /\ UNCHANGED <<kmain, hungAt, wd_kmain>> /\ ~halted
    BY <1>11, TimingAssumption
       DEF CyclicWd, CallsWd, TypeOK, Slot, Evaluate, EvaluateWith
  <2>2. t_i = 1 /\ kmain \in {"loop", "hung"} /\ timer_hi = handlers[1].fire_tick
    BY <2>1, WatchQuiet, RateTypes DEF Due
  <2>3. op = "idle" /\ WdArmed /\ ReaperArmed
    BY <2>2 DEF WatchInv
  <2>4. CASE OverLimit
    <3>1. UNCHANGED vars
      BY <1>11, <2>4 DEF CyclicWd, Evaluate, EvaluateWith
    <3>2. halted'
      BY <1>11, <2>4, Zenon DEF CyclicWd, Evaluate, EvaluateWith
    <3>3. UNCHANGED <<timer_hi, handlers, op>>
      BY <3>1 DEF vars, clockVars, threadVars
    <3> QED
      BY <1>4, <2>1, <2>2, <2>3, <3>2, <3>3 DEF WatchInv, WdArmed, HungOK
  <2>5. CASE ~OverLimit
    <3>1. /\ handlers' = Reschedule(handlers, 1) /\ timer_hi' = timer_hi
          /\ op' = op /\ wd_kmain_o' = wd_kmain
          /\ wd_kmain_hangups' = wd_kmain_hangups + Hangup
      BY <1>11, <2>2, <2>5
         DEF CyclicWd, Evaluate, EvaluateWith, CyclicCall, clockVars, threadVars
    <3>2. handlers[1].repeat_rate = WdRate /\ WdRate # 0
      BY <2>3, RateTypes DEF WdArmed
    <3>3. Plus(timer_hi, WdRate) = timer_hi + WdRate
      <4>1. timer_hi \in 0 .. MaxTick /\ WdRate \in 0 .. WdRate
        BY TickBound, RateTypes
      <4> QED
        BY <4>1, RateTypes, NoWrap
    <3>4. /\ handlers'[1].fire_tick = timer_hi + WdRate
          /\ handlers'[1].handler = WdEvaluate
          /\ handlers'[1].repeat_rate = WdRate
          /\ \A s \in Slot \ {1} : handlers'[s] = handlers[s]
      BY <1>1, <2>1, <2>2, <3>1, <3>2, <3>3 DEF Reschedule, Entry
    <3>5. \A s \in Slot : s > 1 => handlers'[s].fire_tick = 0
      BY <1>1, <3>4 DEF WatchInv
    <3>6. WdArmed'
      BY <1>1, <3>1, <3>4, RateTypes DEF WdArmed
    <3>7. HungOK'
      <4> SUFFICES ASSUME kmain = "hung"
                   PROVE  handlers'[1].fire_tick <= hungAt' +
                            (wd_kmain_hangups' + 1 + Hangup') * WdRate
        BY <2>1 DEF HungOK
      <4>1. Hangup' = 1
        BY <2>1, <3>1 DEF Hangup
      <4>2. wd_kmain_hangups \in Nat /\ Hangup \in Nat /\ hungAt \in Nat
        BY RateTypes, ConstantTypes
           DEF ExplainedInv, HangupsExplained, WdTypeOK, Hangup, Word
      <4> DEFINE n == wd_kmain_hangups + 1 + Hangup
      <4>3. n \in Nat /\ n <= n /\ wd_kmain_hangups' + 1 + Hangup' = n + 1
        BY <3>1, <4>1, <4>2
      <4>4. timer_hi <= hungAt + n * WdRate
        BY <2>1, <2>2 DEF WatchInv, HungOK
      <4> HIDE DEF n
      <4>5. n * WdRate \in Nat /\ (n + 1) * WdRate = n * WdRate + WdRate
        BY <4>3, RateTypes, PeriodsFit
      <4>6. timer_hi + WdRate <= hungAt + (n * WdRate + WdRate)
        BY <1>1, <4>2, <4>4, <4>5, RateTypes
      <4>7. timer_hi + WdRate <= hungAt + (n + 1) * WdRate
        BY <4>5, <4>6
      <4> QED
        BY <2>1, <3>4, <4>3, <4>7
    <3> QED
      BY <1>4, <2>1, <2>2, <2>3, <3>1, <3>5, <3>6, <3>7 DEF WatchInv
  <2> QED
    BY <2>4, <2>5
<1>12. CASE UNCHANGED allVars
  BY <1>2, <1>12 DEF allVars, vars, clockVars, threadVars, wdVars, counters
<1> QED
  BY <1>6, <1>7, <1>8, <1>9, <1>10, <1>11, <1>12 DEF WdNext, WdInterrupt

\* In a table with room for the reaper and the watchdog, and below 2^31 ticks,
\* a kmain that hung is noticed at the latest WD_HU_LIMIT_KMAIN + 2 periods
\* later: neither the reaper nor a torn registration can lose the watchdog.
THEOREM HangNoticedInTime ==
    BoundedTime /\ RoomForTwo => (WdSpec => []PanicInTime)
<1> SUFFICES ASSUME BoundedTime, RoomForTwo PROVE WdSpec => []PanicInTime
  OBVIOUS
<1>1. WdStart => WatchdogInv
  BY InitWatch
<1>2. WatchdogInv /\ [WdNext]_allVars => WatchdogInv'
  <2> SUFFICES ASSUME WatchdogInv, [WdNext]_allVars PROVE WatchdogInv'
    OBVIOUS
  <2>1. [Next]_vars
    BY WdStepIsTimingStep
  <2>2. TimeBoundedInv'
    BY <2>1, NextTypeOK, HandlerInvNext, TimeInvNext
       DEF WatchdogInv, TimeBoundedInv
  <2>3. ReaperInv'
    BY <2>1, <2>2, StartingNext, ArmedNext DEF WatchdogInv, ReaperInv
  <2>4. ExplainedInv'
    BY ExplainedNext DEF WatchdogInv
  <2>5. WatchInv'
    BY <2>2, <2>3, <2>4, WatchNext
  <2> QED
    BY <2>2, <2>3, <2>4, <2>5 DEF WatchdogInv
<1>3. WatchdogInv => PanicInTime
  <2> SUFFICES ASSUME WatchdogInv, kmain = "hung", ~halted
               PROVE  timer_hi <= hungAt + (WD_HU_LIMIT_KMAIN + 2) * WdRate
    BY DEF PanicInTime, Patience
  <2>1. /\ timer_hi <= handlers[1].fire_tick
        /\ handlers[1].fire_tick
              <= hungAt + (wd_kmain_hangups + 1 + Hangup) * WdRate
    BY RateTypes, WatchQuiet DEF WatchdogInv, WatchInv, HungOK
  <2>2. /\ wd_kmain_hangups \in 0 .. WD_HU_LIMIT_KMAIN /\ Hangup \in 0 .. 1
        /\ hungAt \in Nat
    BY RateTypes, ConstantTypes
       DEF WatchdogInv, ExplainedInv, HangupsExplained, WdTypeOK, RunningOK,
           Hangup, Word
  <2> DEFINE n == wd_kmain_hangups + 1 + Hangup
             k == WD_HU_LIMIT_KMAIN + 2
  <2>3. n \in Nat /\ k \in Nat /\ n <= k
    BY <2>2, RateTypes
  <2> HIDE DEF n, k
  <2>4. n * WdRate <= k * WdRate /\ n * WdRate \in Nat /\ k * WdRate \in Nat
    BY <2>3, RateTypes, PeriodsFit
  <2>5. /\ handlers[1].fire_tick \in Nat /\ timer_hi \in Nat
        /\ handlers[1].fire_tick <= hungAt + n * WdRate
    BY <2>1, RateTypes, ConstantTypes
       DEF n, WatchdogInv, TimeBoundedInv, TypeOK, Word
  <2>6. timer_hi <= hungAt + k * WdRate
    BY <2>1, <2>2, <2>4, <2>5
  <2> QED
    BY <2>6 DEF k
<1> QED
  BY <1>1, <1>2, <1>3, PTL DEF WdSpec

=============================================================================
