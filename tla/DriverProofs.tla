---------------------------- MODULE DriverProofs ----------------------------
(***************************************************************************)
(* Theorems about two drivers: the keyboard's buffer, for every size,      *)
(* translation table and number of restarts, and printc and the panic of   *)
(* the watchdog on the text mode screen, for every size of the screen and  *)
(* all messages.                                                           *)
(***************************************************************************)
EXTENDS Keyboard, Console, TLAPS

\* The byte behind the buffer is the zero that pads it to a word.
Padded == PastEnd = 0

\* No key stands for the 0 that kb_read takes for an empty buffer.
Translated == 0 \notin Chars

-----------------------------------------------------------------------------
(* The inductive invariant.                                                *)

\* What is not counted is zero, so the shift of kb_read brings in zeros only.
RestClear == \A j \in buffer_i .. BufSize : buffer[j] = 0

\* Between its test and its cli kb_read relies on the first cell.
TakeReady == thread = "cli" => buffer[0] # 0

BufferInv == TypeOK /\ RestClear /\ TakeReady

LEMMA InitBuffer == Padded /\ Init => BufferInv
<1> SUFFICES ASSUME Padded, Init PROVE BufferInv
  OBVIOUS
<1>1. buffer = [j \in 0 .. BufSize |-> 0]
  BY DEF Padded, Init
<1>2. TypeOK
  <2>1. /\ kb_shift \in BOOLEAN /\ kb_ctl \in BOOLEAN /\ kb_extended \in BOOLEAN
        /\ installed \in BOOLEAN /\ online \in BOOLEAN /\ wiped \in BOOLEAN
    BY Zenon DEF Init
  <2>2. /\ buffer \in [0 .. BufSize -> Chars \cup {0, PastEnd}]
        /\ buffer_i \in 0 .. BufSize /\ thread \in {"idle", "cli", "clear"}
        /\ i \in 0 .. BufSize /\ last \in Chars \cup {0, PastEnd}
        /\ starts \in 0 .. MaxStarts
    BY <1>1, KeyboardAssumption DEF Init
  <2> QED
    BY <2>1, <2>2 DEF TypeOK
<1> QED
  BY <1>1, <1>2, KeyboardAssumption DEF Init, BufferInv, TypeOK, RestClear, TakeReady

\* A step of kb_handler or of kb_start that leaves the buffer alone.
LEMMA SameBuffer ==
    ASSUME BufferInv, TypeOK', UNCHANGED <<buffer, buffer_i>>,
           thread' = thread \/ thread' # "cli"
    PROVE  BufferInv'
BY DEF BufferInv, RestClear, TakeReady

LEMMA CharTypes ==
    /\ Chars \subseteq Nat
    /\ \A k \in Keys : kbdus[k] \in Chars /\ kbdus_caps[k] \in Chars
BY KeyboardAssumption DEF Chars

LEMMA PressBuffer ==
    ASSUME BufferInv, NEW k \in Keys, Press(k)
    PROVE  BufferInv'
<1> DEFINE c == IF kb_shift THEN kbdus_caps[k] ELSE kbdus[k]
<1>1. c \in Chars
  BY CharTypes
<1>2. /\ buffer_i \in 0 .. BufSize - 1 /\ BufSize \in Nat
      /\ buffer \in [0 .. BufSize -> Chars \cup {0, PastEnd}]
      /\ buffer' = [buffer EXCEPT ![buffer_i] = c] /\ buffer_i' = buffer_i + 1
      /\ thread' = thread
  BY KeyboardAssumption DEF BufferInv, TypeOK, Press
<1> HIDE DEF c
<1>3. TypeOK'
  BY <1>1, <1>2 DEF BufferInv, TypeOK, Press, modifiers
<1>4. RestClear'
  BY <1>2 DEF BufferInv, RestClear
<1>5. TakeReady'
  <2> SUFFICES ASSUME thread = "cli" PROVE buffer'[0] # 0
    BY <1>2 DEF TakeReady
  <2>1. buffer[0] # 0
    BY DEF BufferInv, TakeReady
  <2>2. buffer_i # 0
    BY <2>1, <1>2 DEF BufferInv, RestClear
  <2> QED
    BY <2>1, <2>2, <1>2
<1> QED
  BY <1>3, <1>4, <1>5 DEF BufferInv

LEMMA TakeBuffer ==
    ASSUME BufferInv, KbReadTake
    PROVE  BufferInv'
<1>1. /\ BufSize \in Nat \ {0} /\ buffer_i \in 0 .. BufSize
      /\ buffer \in [0 .. BufSize -> Chars \cup {0, PastEnd}]
      /\ buffer' = [j \in 0 .. BufSize |->
                      IF j = BufSize THEN buffer[j] ELSE buffer[j + 1]]
      /\ buffer_i' = buffer_i - 1 /\ thread' = "idle" /\ last' = buffer[0]
  BY KeyboardAssumption DEF BufferInv, TypeOK, KbReadTake
<1>2. buffer_i # 0
  BY <1>1 DEF BufferInv, RestClear, TakeReady, KbReadTake
<1>3. \A j \in 0 .. BufSize : buffer'[j] \in Chars \cup {0, PastEnd}
  <2> SUFFICES ASSUME NEW j \in 0 .. BufSize
               PROVE  buffer'[j] \in Chars \cup {0, PastEnd}
    OBVIOUS
  <2>1. CASE j = BufSize
    BY <2>1, <1>1
  <2>2. CASE j # BufSize
    <3>1. j + 1 \in 0 .. BufSize
      BY <2>2, <1>1
    <3> QED
      BY <3>1, <2>2, <1>1
  <2> QED
    BY <2>1, <2>2
<1>4. TypeOK'
  <2>1. buffer' \in [0 .. BufSize -> Chars \cup {0, PastEnd}]
    BY <1>1, <1>3
  <2>2. last' \in Chars \cup {0, PastEnd} /\ buffer_i' \in 0 .. BufSize
    BY <1>1, <1>2
  <2> QED
    BY <2>1, <2>2, <1>1 DEF BufferInv, TypeOK, KbReadTake, modifiers
<1>5. RestClear'
  BY <1>1, <1>2 DEF BufferInv, RestClear
<1> QED
  BY <1>1, <1>4, <1>5 DEF BufferInv, TakeReady

LEMMA ClearBuffer ==
    ASSUME BufferInv, KbStartClear
    PROVE  BufferInv'
<1>1. /\ BufSize \in Nat /\ i \in 0 .. BufSize - 1 /\ buffer_i \in 0 .. BufSize
      /\ buffer \in [0 .. BufSize -> Chars \cup {0, PastEnd}]
      /\ buffer' = [buffer EXCEPT ![i] = 0] /\ i' = i + 1
      /\ buffer_i' = buffer_i /\ thread' = thread /\ thread # "cli"
  BY KeyboardAssumption DEF BufferInv, TypeOK, KbStartClear
<1>2. TypeOK'
  BY <1>1 DEF BufferInv, TypeOK, KbStartClear, modifiers
<1>3. RestClear'
  BY <1>1 DEF BufferInv, RestClear
<1> QED
  BY <1>1, <1>2, <1>3 DEF BufferInv, TakeReady

LEMMA NextBuffer == BufferInv /\ [Next]_vars => BufferInv'
<1> SUFFICES ASSUME BufferInv, [Next]_vars PROVE BufferInv'
  OBVIOUS
<1> USE DEF OnlyModifiers, modifiers
<1>1. CASE Swallow
  <2>1. TypeOK'
    BY <1>1 DEF BufferInv, TypeOK, Swallow
  <2> QED
    BY <2>1, <1>1, SameBuffer DEF Swallow
<1>2. CASE Extended
  <2>1. TypeOK'
    BY <1>2 DEF BufferInv, TypeOK, Extended
  <2> QED
    BY <2>1, <1>2, SameBuffer DEF Extended
<1>3. ASSUME NEW down \in BOOLEAN, LeftShift(down) PROVE BufferInv'
  <2>1. TypeOK'
    BY <1>3 DEF BufferInv, TypeOK, LeftShift
  <2> QED
    BY <2>1, <1>3, SameBuffer DEF LeftShift
<1>4. CASE Release
  <2>1. TypeOK'
    BY <1>4 DEF BufferInv, TypeOK, Release
  <2> QED
    BY <2>1, <1>4, SameBuffer DEF Release
<1>5. ASSUME NEW k \in Keys, Press(k) PROVE BufferInv'
  BY <1>5, PressBuffer
<1>6. CASE KbReadNothing
  <2>1. TypeOK'
    BY <1>6 DEF BufferInv, TypeOK, KbReadNothing
  <2> QED
    BY <2>1, <1>6, SameBuffer DEF KbReadNothing
<1>7. CASE KbReadTest
  <2>1. TypeOK'
    BY <1>7 DEF BufferInv, TypeOK, KbReadTest
  <2> QED
    BY <2>1, <1>7 DEF BufferInv, RestClear, TakeReady, KbReadTest
<1>8. CASE KbReadTake
  BY <1>8, TakeBuffer
<1>9. CASE KbStop
  <2>1. TypeOK'
    BY <1>9 DEF BufferInv, TypeOK, KbStop
  <2> QED
    BY <2>1, <1>9, SameBuffer DEF KbStop
<1>10. CASE KbStart
  <2>1. TypeOK'
    BY <1>10, KeyboardAssumption DEF BufferInv, TypeOK, KbStart
  <2> QED
    BY <2>1, <1>10, SameBuffer DEF KbStart
<1>11. CASE KbStartClear
  BY <1>11, ClearBuffer
<1>12. CASE KbStartDone
  <2>1. TypeOK'
    BY <1>12, KeyboardAssumption DEF BufferInv, TypeOK, KbStartDone
  <2> QED
    BY <2>1, <1>12, SameBuffer DEF KbStartDone
<1>13. CASE UNCHANGED vars
  BY <1>13 DEF vars, BufferInv, TypeOK, RestClear, TakeReady
<1> QED
  BY <1>1, <1>2, <1>3, <1>4, <1>5, <1>6, <1>7, <1>8, <1>9, <1>10, <1>11, <1>12,
     <1>13 DEF Next, Handler, Reader, Starter

(***************************************************************************)
(* The first cell holds a character only if one is counted, and buffer_i   *)
(* stays within the buffer, whatever kb_read, the handler and restarts of  *)
(* the driver do in whichever order (keyboard.c:154, 175, 207).            *)
(***************************************************************************)
THEOREM NeverUnderflows == Padded => (Spec => []NoUnderflow)
<1> SUFFICES ASSUME Padded PROVE Spec => []NoUnderflow
  OBVIOUS
<1>1. Init => BufferInv
  BY InitBuffer
<1>2. BufferInv => NoUnderflow
  BY KeyboardAssumption DEF BufferInv, NoUnderflow, TypeOK, RestClear, TakeReady
<1> QED
  BY <1>1, <1>2, NextBuffer, PTL DEF Spec

-----------------------------------------------------------------------------
(* Until a restart clears a cell that is counted, each holds a character.  *)

Filled == ~wiped => \A j \in 0 .. buffer_i - 1 : buffer[j] # 0

LEMMA FilledNext ==
    ASSUME Translated, BufferInv, Filled, [Next]_vars
    PROVE  Filled'
<1> USE DEF OnlyModifiers, modifiers
<1>1. CASE UNCHANGED <<buffer, buffer_i, wiped>>
  BY <1>1 DEF Filled
<1>2. ASSUME NEW k \in Keys, Press(k) PROVE Filled'
  <2> DEFINE c == IF kb_shift THEN kbdus_caps[k] ELSE kbdus[k]
  <2>1. c \in Chars /\ c # 0
    BY CharTypes DEF Translated
  <2>2. /\ buffer_i \in 0 .. BufSize - 1 /\ BufSize \in Nat
        /\ buffer \in [0 .. BufSize -> Chars \cup {0, PastEnd}]
        /\ buffer' = [buffer EXCEPT ![buffer_i] = c] /\ buffer_i' = buffer_i + 1
        /\ wiped' = wiped
    BY <1>2, KeyboardAssumption DEF BufferInv, TypeOK, Press
  <2> HIDE DEF c
  <2> QED
    BY <2>1, <2>2 DEF Filled
<1>3. CASE KbReadTake
  <2>1. /\ BufSize \in Nat /\ buffer_i \in 0 .. BufSize
        /\ buffer' = [j \in 0 .. BufSize |->
                        IF j = BufSize THEN buffer[j] ELSE buffer[j + 1]]
        /\ buffer_i' = buffer_i - 1 /\ wiped' = wiped
    BY <1>3, KeyboardAssumption DEF BufferInv, TypeOK, KbReadTake
  <2> QED
    BY <2>1 DEF Filled
<1>4. CASE KbStartClear
  <2>1. /\ BufSize \in Nat /\ i \in 0 .. BufSize - 1 /\ buffer_i \in 0 .. BufSize
        /\ buffer \in [0 .. BufSize -> Chars \cup {0, PastEnd}]
        /\ buffer' = [buffer EXCEPT ![i] = 0] /\ buffer_i' = buffer_i
    BY <1>4, KeyboardAssumption DEF BufferInv, TypeOK, KbStartClear
  <2>2. ~wiped' => ~wiped /\ ~(i < buffer_i)
    BY <1>4, Zenon DEF KbStartClear
  <2> QED
    BY <2>1, <2>2 DEF Filled
<1>5. CASE \/ Swallow \/ Extended \/ Release \/ KbReadNothing \/ KbReadTest
           \/ KbStop \/ KbStart \/ KbStartDone
           \/ \E down \in BOOLEAN : LeftShift(down)
  BY <1>1, <1>5 DEF Swallow, Extended, Release, KbReadNothing, KbReadTest,
                    KbStop, KbStart, KbStartDone, LeftShift
<1>6. CASE UNCHANGED vars
  BY <1>1, <1>6 DEF vars
<1> QED
  BY <1>2, <1>3, <1>4, <1>5, <1>6 DEF Next, Handler, Reader, Starter

LEMMA InitFilled == Init => Filled
BY DEF Init, Filled

(***************************************************************************)
(* kb_read answers that there is no key only when none waits, as its       *)
(* comment says (keyboard.c:205), if every key stands for a character and  *)
(* until a restart of the driver clears a key that waits (keyboard.c:175). *)
(***************************************************************************)
THEOREM NothingMeansEmpty ==
    Padded /\ Translated => (Spec => []NothingOnlyWhenEmpty)
<1> SUFFICES ASSUME Padded, Translated PROVE Spec => []NothingOnlyWhenEmpty
  OBVIOUS
<1> DEFINE Inv == BufferInv /\ Filled
<1>1. Init => Inv
  BY InitBuffer, InitFilled
<1>2. Inv /\ [Next]_vars => Inv'
  BY NextBuffer, FilledNext
<1>3. Inv => NothingOnlyWhenEmpty
  BY KeyboardAssumption DEF BufferInv, TypeOK, Filled, NothingOnlyWhenEmpty
<1> QED
  BY <1>1, <1>2, <1>3, PTL DEF Spec

-----------------------------------------------------------------------------
(* The refinement: each step of the driver is a step of the queue or none. *)

LEMMA WaitingSeq ==
    ASSUME BufferInv
    PROVE  /\ Waiting \in Seq(Chars \cup {0, PastEnd}) /\ Len(Waiting) = buffer_i
           /\ buffer_i \in Nat
           /\ \A j \in 1 .. buffer_i : Waiting[j] = buffer[j - 1]
<1>1. /\ BufSize \in Nat /\ buffer_i \in 0 .. BufSize
      /\ buffer \in [0 .. BufSize -> Chars \cup {0, PastEnd}]
  BY KeyboardAssumption DEF BufferInv, TypeOK
<1>2. \A j \in 1 .. buffer_i : buffer[j - 1] \in Chars \cup {0, PastEnd}
  BY <1>1
<1> QED
  BY <1>1, <1>2 DEF Waiting

\* A key that is stored.
LEMMA PressPuts ==
    ASSUME BufferInv, NEW k \in Keys, Press(k)
    PROVE  \E c \in Chars : Abstract!Put(c)
<1> DEFINE c == IF kb_shift THEN kbdus_caps[k] ELSE kbdus[k]
           C == Chars \cup {0, PastEnd}
<1>1. c \in Chars
  BY CharTypes
<1>2. /\ buffer_i \in 0 .. BufSize - 1 /\ BufSize \in Nat
      /\ buffer \in [0 .. BufSize -> C]
      /\ buffer' = [buffer EXCEPT ![buffer_i] = c] /\ buffer_i' = buffer_i + 1
      /\ last' = last
  BY KeyboardAssumption DEF BufferInv, TypeOK, Press
<1>3. BufferInv'
  BY PressBuffer
<1> HIDE DEF c, C
<1>4. /\ Waiting \in Seq(C) /\ Len(Waiting) = buffer_i
      /\ \A j \in 1 .. buffer_i : Waiting[j] = buffer[j - 1]
      /\ Waiting' \in Seq(C) /\ Len(Waiting') = buffer_i'
      /\ \A j \in 1 .. buffer_i' : Waiting'[j] = buffer'[j - 1]
  <2>1. /\ Waiting \in Seq(C) /\ Len(Waiting) = buffer_i
        /\ \A j \in 1 .. buffer_i : Waiting[j] = buffer[j - 1]
    BY WaitingSeq DEF C
  <2>2. (/\ Waiting \in Seq(C) /\ Len(Waiting) = buffer_i
         /\ \A j \in 1 .. buffer_i : Waiting[j] = buffer[j - 1])'
    BY <1>3, WaitingSeq, PTL DEF C
  <2> QED
    BY <2>1, <2>2
<1>5. c \in C
  BY <1>1 DEF C
<1>6. Waiting' = Append(Waiting, c)
  <2>1. Append(Waiting, c) \in Seq(C) /\ Len(Append(Waiting, c)) = buffer_i + 1
    BY <1>4, <1>5
  <2>2. \A j \in 1 .. buffer_i + 1 : Waiting'[j] = Append(Waiting, c)[j]
    BY <1>2, <1>4, <1>5
  <2> QED
    BY <2>1, <2>2, <1>2, <1>4
<1> QED
  BY <1>1, <1>2, <1>4, <1>6 DEF Abstract!Put

\* The shift of kb_read takes the head.
LEMMA TakeGets ==
    ASSUME BufferInv, KbReadTake
    PROVE  Abstract!Get
<1> DEFINE C == Chars \cup {0, PastEnd}
<1>1. /\ buffer_i \in 0 .. BufSize /\ BufSize \in Nat \ {0}
      /\ buffer \in [0 .. BufSize -> C]
      /\ buffer' = [j \in 0 .. BufSize |->
                      IF j = BufSize THEN buffer[j] ELSE buffer[j + 1]]
      /\ buffer_i' = buffer_i - 1 /\ last' = buffer[0] /\ buffer[0] # 0
  BY KeyboardAssumption DEF BufferInv, TypeOK, KbReadTake, TakeReady
<1>2. buffer_i > 0
  BY <1>1 DEF BufferInv, RestClear
<1>3. BufferInv'
  BY TakeBuffer
<1> HIDE DEF C
<1>4. /\ Waiting \in Seq(C) /\ Len(Waiting) = buffer_i
      /\ \A j \in 1 .. buffer_i : Waiting[j] = buffer[j - 1]
  BY WaitingSeq DEF C
<1>5. (/\ Waiting \in Seq(C) /\ Len(Waiting) = buffer_i
       /\ \A j \in 1 .. buffer_i : Waiting[j] = buffer[j - 1])'
  BY <1>3, WaitingSeq, PTL DEF C
<1>6. Waiting # <<>> /\ Head(Waiting) = buffer[0]
  BY <1>1, <1>2, <1>4
<1>7. Waiting' = Tail(Waiting)
  <2>1. Tail(Waiting) \in Seq(C) /\ Len(Tail(Waiting)) = buffer_i - 1
    BY <1>2, <1>4, <1>6
  <2>2. ASSUME NEW j \in 1 .. buffer_i - 1 PROVE Waiting'[j] = Tail(Waiting)[j]
    <3>1. Tail(Waiting)[j] = Waiting[j + 1]
      BY <1>1, <1>2, <1>4, <1>6
    <3>2. j + 1 \in 1 .. buffer_i /\ j \in 1 .. buffer_i' /\ j - 1 \in 0 .. BufSize - 1
      BY <1>1
    <3>3. Waiting[j + 1] = buffer[j] /\ Waiting'[j] = buffer'[j - 1]
      <4>1. Waiting[j + 1] = buffer[(j + 1) - 1]
        BY <1>4, <3>2
      <4>2. Waiting'[j] = buffer'[j - 1]
        BY <1>5, <3>2
      <4> QED
        BY <4>1, <4>2
    <3>4. buffer'[j - 1] = buffer[j]
      BY <1>1, <3>2
    <3> QED
      BY <3>1, <3>3, <3>4
  <2> QED
    BY <2>1, <2>2, <1>1, <1>5
<1> QED
  BY <1>1, <1>6, <1>7 DEF Abstract!Get

\* The early return answers for an empty queue.
LEMMA NothingGets ==
    ASSUME BufferInv, Filled, ~wiped, KbReadNothing
    PROVE  Abstract!GetNothing
<1>1. /\ Waiting \in Seq(Chars \cup {0, PastEnd}) /\ Len(Waiting) = buffer_i
      /\ buffer_i \in Nat
  BY WaitingSeq
<1>2. buffer[0] = 0 /\ last' = 0 /\ UNCHANGED <<buffer, buffer_i>>
  BY DEF KbReadNothing
<1>3. Waiting = <<>>
  <2>1. buffer_i = 0
    BY <1>1, <1>2 DEF Filled
  <2> QED
    BY <2>1, <1>1
<1>4. UNCHANGED Waiting
  BY <1>2 DEF Waiting
<1> QED
  BY <1>2, <1>3, <1>4 DEF Abstract!GetNothing

\* kb_start clears a character, or a cell that holds none.
LEMMA ClearWipes ==
    ASSUME BufferInv, KbStartClear
    PROVE  wiped' \/ UNCHANGED <<Waiting, last>>
<1>1. /\ BufSize \in Nat /\ i \in 0 .. BufSize - 1 /\ buffer_i \in 0 .. BufSize
      /\ buffer \in [0 .. BufSize -> Chars \cup {0, PastEnd}]
      /\ buffer' = [buffer EXCEPT ![i] = 0] /\ buffer_i' = buffer_i
      /\ last' = last
  BY KeyboardAssumption DEF BufferInv, TypeOK, KbStartClear
<1>2. CASE i < buffer_i
  BY <1>2, Zenon DEF KbStartClear
<1>3. CASE ~(i < buffer_i)
  BY <1>1, <1>3 DEF Waiting
<1> QED
  BY <1>2, <1>3

LEMMA StepRefines ==
    ASSUME BufferInv, Filled, [Next]_vars
    PROVE  [wiped' \/ Abstract!Next]_<<Waiting, last>>
<1> USE DEF OnlyModifiers, modifiers
<1>1. CASE UNCHANGED <<buffer, buffer_i, last>>
  BY <1>1 DEF Waiting
<1>2. ASSUME NEW k \in Keys, Press(k) PROVE Abstract!Next
  BY <1>2, PressPuts DEF Abstract!Next
<1>3. CASE KbReadTake
  BY <1>3, TakeGets DEF Abstract!Next
<1>4. CASE KbReadNothing
  <2>1. CASE wiped
    BY <1>4, <2>1, Zenon DEF KbReadNothing
  <2>2. CASE ~wiped
    BY <1>4, <2>2, NothingGets DEF Abstract!Next
  <2> QED
    BY <2>1, <2>2
<1>5. CASE KbStartClear
  BY <1>5, ClearWipes
<1>6. CASE \/ Swallow \/ Extended \/ Release \/ KbReadTest \/ KbStop \/ KbStart
           \/ KbStartDone \/ \E down \in BOOLEAN : LeftShift(down)
  BY <1>1, <1>6 DEF Swallow, Extended, Release, KbReadTest, KbStop, KbStart,
                    KbStartDone, LeftShift
<1>7. CASE UNCHANGED vars
  BY <1>1, <1>7 DEF vars
<1> QED
  BY <1>2, <1>3, <1>4, <1>5, <1>6, <1>7 DEF Next, Handler, Reader, Starter

(***************************************************************************)
(* The interrupt handler and kb_read together implement the bounded queue  *)
(* of KeyQueue, if every key stands for a character and until a restart    *)
(* clears a key that waits: a key is delivered once and in order, is       *)
(* dropped only when the buffer is full (keyboard.c:154), and kb_read      *)
(* answers 0 only when no key waits (keyboard.c:205).                      *)
(***************************************************************************)
THEOREM QueueImplemented == Padded /\ Translated => (Spec => ImplementsKeyQueue)
<1> SUFFICES ASSUME Padded, Translated PROVE Spec => ImplementsKeyQueue
  OBVIOUS
<1> DEFINE Inv == BufferInv /\ Filled
<1>1. Init => Inv
  BY InitBuffer, InitFilled
<1>2. Inv /\ [Next]_vars => Inv'
  BY NextBuffer, FilledNext
<1>3. Init => Abstract!Init
  BY DEF Init, Abstract!Init, Waiting
<1>4. Inv /\ [Next]_vars => [wiped' \/ Abstract!Next]_<<Waiting, last>>
  BY StepRefines
<1> QED
  BY <1>1, <1>2, <1>3, <1>4, PTL DEF Spec, ImplementsKeyQueue

-----------------------------------------------------------------------------
(* printc.  The inductive invariant says, for every place in its code, how *)
(* the console differs from the one it began with.                         *)

\* The column behind the character of r, before a wrap, and after it.
NextX(r) ==
    CASE r.c = "BS" -> IF r.term_x = 0 THEN 0 ELSE r.term_x - 1
      [] r.c = "TAB" -> r.term_x + TabStop - (r.term_x % TabStop)
      [] r.c \in {"CR", "NL"} -> 0
      [] OTHER -> r.term_x + 1

WrapX(r) == IF NextX(r) >= Width THEN 0 ELSE NextX(r)

\* The cursor goes to another row; from the last one the screen moves.
Down(r) == r.c = "NL" \/ NextX(r) >= Width
Scrolls(r) == Down(r) /\ r.term_y = Height - 1

EndY(r) == IF Down(r) /\ ~Scrolls(r) THEN r.term_y + 1 ELSE r.term_y

\* The screen with the character, after n rounds of the scroll, and at last.
Put(r) ==
    IF r.c \in Controls THEN r.video
    ELSE [r.video EXCEPT ![r.term_y * Width + r.term_x] = <<r.c, r.attr>>]

Up(v, n, blank) ==
    [k \in Cells |-> IF k < n /\ k < (Height - 1) * Width THEN v[k + Width]
                     ELSE IF k < n /\ k < Height * Width THEN blank
                     ELSE v[k]]

Shown(r) ==
    IF Scrolls(r) THEN Up(Put(r), Height * Width, <<Blank, r.attr>>) ELSE Put(r)

\* A console is a record of these fields, its memory a cell at every place.
IsCon(r) ==
    r = [video |-> r.video, term_x |-> r.term_x, term_y |-> r.term_y,
         attr |-> r.attr, cursor |-> r.cursor, pc |-> r.pc, c |-> r.c,
         i |-> r.i, blank |-> r.blank]

IsVideo(v) == v = [k \in Cells |-> v[k]]

\* The cursor is on the screen.
Inside(r) == r.term_x \in 0 .. Width - 1 /\ r.term_y \in 0 .. Height - 1

Begun(b) == IsCon(b) /\ IsVideo(b.video) /\ Inside(b) /\ b.pc = "branch"

\* The console r of a printc that began with b.
Places(b, r) ==
    /\ r.pc = "branch" => r = b
    /\ r.pc = "newline" => /\ r.video = Put(b) /\ b.c = "NL"
                           /\ r.term_x = 0 /\ r.term_y = b.term_y
    /\ r.pc = "advance" => /\ r.video = Put(b) /\ b.c \notin Controls
                           /\ r.term_x = b.term_x /\ r.term_y = b.term_y
    /\ r.pc = "wrap" => /\ r.video = Put(b) /\ r.term_x = NextX(b)
                        /\ r.term_y = IF b.c = "NL" THEN b.term_y + 1 ELSE b.term_y
    /\ r.pc = "wrapped" => /\ r.video = Put(b) /\ r.term_x = 0
                           /\ NextX(b) >= Width /\ r.term_y = b.term_y
    /\ r.pc = "scroll" => /\ r.video = Put(b) /\ r.term_x = WrapX(b)
                          /\ r.term_y = IF Down(b) THEN b.term_y + 1 ELSE b.term_y
    /\ r.pc = "move" => /\ Scrolls(b) /\ r.blank = <<Blank, b.attr>>
                        /\ r.i \in 0 .. Height * Width
                        /\ r.video = Up(Put(b), r.i, r.blank)
                        /\ r.term_x = WrapX(b) /\ r.term_y = Height
    /\ r.pc \in {"cursor", "done"} => /\ r.video = Shown(b)
                                      /\ r.term_x = WrapX(b) /\ r.term_y = EndY(b)
    /\ r.pc = "done" => r.cursor = <<WrapX(b), EndY(b)>>

InPrintc(b, r) ==
    /\ Begun(b) /\ IsCon(r) /\ r.c = b.c /\ r.attr = b.attr
    /\ r.pc \in {"branch", "newline", "advance", "wrap", "wrapped", "scroll",
                 "move", "cursor", "done"}
    /\ Places(b, r)

\* The items of calls.
Things == STRING \cup {"o", "f", SetTitle, SetReset}

\* A change to the title colour is taken back by what is still to do.
Resets(s) ==
    \E k \in 1 .. Len(s) :
        s[k] = SetReset /\ \A j \in k + 1 .. Len(s) : s[j] # SetTitle

Settles ==
    (con.attr # Default \/ \E k \in 1 .. Len(todo) : todo[k] = SetTitle) => Resets(todo)

PrintcInv ==
    mode = "thread" =>
      /\ todo \in Seq(Things) /\ Settles
      /\ before.pc = "branch" => InPrintc(before, con)
      /\ before.pc # "branch" => /\ con.pc = "done" /\ Inside(con)
                                 /\ IsCon(con) /\ IsVideo(con.video)

\* Multiplication by the width is monotone; the last rows of the screen.
LEMMA RowsApart ==
    ASSUME NEW w \in Nat, NEW y \in Nat, NEW z \in Nat, y < z
    PROVE  y * w + w <= z * w
<1>1. PICK e \in Nat : z = y + 1 + e
  <2>1. z - (y + 1) \in Nat /\ z = y + 1 + (z - (y + 1))
    OBVIOUS
  <2> QED
    BY <2>1
<1>2. e * w \in Nat /\ y * w \in Nat
  OBVIOUS
<1>3. z * w = y * w + w + e * w
  BY <1>1
<1> QED
  BY <1>2, <1>3

\* A row up, in numbers.
LEMMA OneRow == \A d, w \in Int : d * w \in Int /\ (d + 1) * w = d * w + w
OBVIOUS

LEMMA Apart == \A d, e, w \in Int : e * w \in Int /\ (d - e) * w = d * w - e * w
OBVIOUS

LEMMA Sizes ==
    ASSUME ConsoleAssumption
    PROVE  /\ Width \in Nat /\ Width > 0 /\ Height \in Nat /\ Height > 1
           /\ (Height - 1) * Width \in Nat
           /\ Height * Width = (Height - 1) * Width + Width
           /\ Cells = 0 .. (Height - 1) * Width + Width + Width - 1
<1>1. Width \in Nat /\ Width > 0 /\ Height \in Nat /\ Height > 1
  BY DEF ConsoleAssumption
<1>2. PICK h \in Nat : h = Height - 1
  BY <1>1
<1>3. h * Width \in Nat /\ (h + 1) * Width = h * Width + Width
  BY <1>1
<1>4. (h + 1 + 1) * Width = h * Width + Width + Width
  BY <1>1
<1>5. Height = h + 1 /\ Height + 1 = h + 1 + 1
  BY <1>1, <1>2
<1> QED
  BY <1>1, <1>2, <1>3, <1>4, <1>5 DEF Cells

LEMMA CellInside ==
    ASSUME ConsoleAssumption, NEW y \in 0 .. Height - 1, NEW x \in 0 .. Width - 1
    PROVE  /\ y * Width \in Nat /\ y * Width + x \in 0 .. Height * Width - 1
           /\ y * Width + x \in Cells
<1>1. Width \in Nat /\ Height \in Nat /\ y < Height /\ y \in Nat
  BY Sizes
<1>2. y * Width + Width <= Height * Width
  BY <1>1, RowsApart
<1>3. y * Width \in Nat /\ Height * Width \in Nat
  BY <1>1
<1> QED
  BY <1>1, <1>2, <1>3, Sizes

LEMMA SameCell ==
    ASSUME ConsoleAssumption, NEW y \in Nat, NEW z \in Nat,
           NEW x \in 0 .. Width - 1, NEW u \in 0 .. Width - 1,
           y * Width + x = z * Width + u
    PROVE  y = z /\ x = u
<1>1. Width \in Nat /\ y * Width \in Nat /\ z * Width \in Nat
  BY Sizes
<1>2. ~(y < z)
  <2>1. y < z => y * Width + Width <= z * Width
    BY <1>1, RowsApart
  <2> QED
    BY <1>1, <2>1
<1>3. ~(z < y)
  <2>1. z < y => z * Width + Width <= y * Width
    BY <1>1, RowsApart
  <2> QED
    BY <1>1, <2>1
<1> QED
  BY <1>1, <1>2, <1>3

\* The column of the next tab stop, as the code computes it.
LEMMA TabIs ==
    ASSUME ConsoleAssumption, NEW x \in Nat
    PROVE  /\ ((x + TabStop) \div TabStop) * TabStop = x + TabStop - (x % TabStop)
           /\ x + TabStop - (x % TabStop) \in Nat
<1>1. TabStop \in Nat /\ TabStop > 0
  BY Sizes DEF ConsoleAssumption
<1>2. PICK q \in Nat, m \in 0 .. TabStop - 1 : x = TabStop * q + m /\ x % TabStop = m
  <2>1. x \div TabStop \in Nat /\ x % TabStop \in 0 .. TabStop - 1
    BY <1>1
  <2>2. x = TabStop * (x \div TabStop) + (x % TabStop)
    BY <1>1
  <2> QED
    BY <2>1, <2>2
<1>3. x + TabStop = TabStop * (q + 1) + m
  BY <1>1, <1>2
<1>4. (x + TabStop) \div TabStop = q + 1
  BY <1>1, <1>2, <1>3
<1>5. (q + 1) * TabStop = TabStop * q + TabStop
  BY <1>1, <1>2
<1> QED
  BY <1>1, <1>2, <1>4, <1>5

LEMMA PutIs ==
    ASSUME ConsoleAssumption, NEW b, Begun(b)
    PROVE  /\ IsVideo(Put(b))
           /\ \A k \in Cells : Put(b)[k] =
                IF b.c \notin Controls /\ k = b.term_y * Width + b.term_x
                THEN <<b.c, b.attr>> ELSE b.video[k]
<1>1. b.video = [k \in Cells |-> b.video[k]]
  BY DEF Begun, IsVideo
<1>2. CASE b.c \in Controls
  BY <1>1, <1>2 DEF Put, IsVideo
<1>3. CASE b.c \notin Controls
  <2>1. PICK p \in Cells : p = b.term_y * Width + b.term_x
    BY CellInside DEF Begun, Inside
  <2>2. Put(b) = [b.video EXCEPT ![p] = <<b.c, b.attr>>]
    BY <1>3, <2>1 DEF Put
  <2>3. Put(b) = [k \in Cells |-> IF k = p THEN <<b.c, b.attr>> ELSE b.video[k]]
    BY <1>1, <2>2
  <2> QED
    BY <1>3, <2>1, <2>3 DEF IsVideo
<1> QED
  BY <1>2, <1>3

LEMMA NextXIs ==
    ASSUME ConsoleAssumption, NEW b, Begun(b)
    PROVE  /\ NextX(b) \in Nat /\ WrapX(b) \in 0 .. Width - 1
           /\ EndY(b) \in 0 .. Height - 1
           /\ b.c \in {"CR", "NL"} => NextX(b) = 0
           /\ b.c \notin Controls => NextX(b) = b.term_x + 1
<1>1. b.term_x \in Nat /\ b.term_x < Width /\ b.term_y \in 0 .. Height - 1
  BY Sizes DEF Begun, Inside
<1>2. b.term_x + TabStop - (b.term_x % TabStop) \in Nat
  BY <1>1, TabIs
<1>3. b.c \in {"CR", "NL"} => NextX(b) = 0
  BY DEF NextX
<1>4. b.c \notin Controls => NextX(b) = b.term_x + 1
  BY DEF NextX, Controls
<1>5. NextX(b) \in Nat
  BY <1>1, <1>2, <1>3, <1>4 DEF NextX, Controls
<1>6. WrapX(b) \in 0 .. Width - 1
  BY <1>5, Sizes DEF WrapX
<1>7. EndY(b) \in 0 .. Height - 1
  BY <1>1, Sizes DEF EndY, Scrolls
<1> QED
  BY <1>3, <1>4, <1>5, <1>6, <1>7

\* One step of printc from each place.
LEMMA FromBranch ==
    ASSUME ConsoleAssumption, NEW b, NEW r, InPrintc(b, r), r.pc = "branch"
    PROVE  InPrintc(b, Branch(r))
<1> DEFINE t == Branch(r)
<1> SUFFICES InPrintc(b, t)
  OBVIOUS
<1>1. r = b /\ IsCon(b) /\ Begun(b) /\ b.pc = "branch"
  BY DEF InPrintc, Places, Begun
<1>2. b.term_x \in Nat /\ b.term_y \in Nat
  BY <1>1, Sizes DEF Begun, Inside
<1>3. CASE b.c = "BS"
  <2>1. t = [b EXCEPT !.term_x = NextX(b), !.pc = "wrap"]
    <3>1. CASE b.term_x > 0
      <4>1. t = [b EXCEPT !.term_x = b.term_x - 1, !.pc = "wrap"]
        BY <1>1, <1>3, <3>1 DEF Branch
      <4>2. NextX(b) = b.term_x - 1
        BY <1>2, <1>3, <3>1 DEF NextX
      <4> QED
        BY <4>1, <4>2
    <3>2. CASE b.term_x = 0
      <4>1. t = [b EXCEPT !.pc = "wrap"] /\ NextX(b) = 0
        BY <1>1, <1>2, <1>3, <3>2 DEF Branch, NextX
      <4> QED
        BY <1>1, <3>2, <4>1 DEF IsCon
    <3> QED
      BY <1>2, <3>1, <3>2
  <2>2. /\ IsCon(t) /\ t.pc = "wrap" /\ t.c = b.c /\ t.attr = b.attr
        /\ t.video = b.video /\ t.term_x = NextX(b) /\ t.term_y = b.term_y
    BY <1>1, <2>1 DEF IsCon
  <2> HIDE DEF t
  <2> QED
    BY <1>1, <1>3, <2>2 DEF InPrintc, Places, Put, Controls
<1>4. CASE b.c = "TAB"
  <2>1. t = [b EXCEPT !.term_x = NextX(b), !.pc = "wrap"]
    <3>1. t = [b EXCEPT !.term_x = ((b.term_x + TabStop) \div TabStop) * TabStop, !.pc = "wrap"]
      BY <1>1, <1>4 DEF Branch
    <3>2. NextX(b) = b.term_x + TabStop - (b.term_x % TabStop)
      BY <1>4 DEF NextX
    <3> QED
      BY <1>2, <3>1, <3>2, TabIs
  <2>2. /\ IsCon(t) /\ t.pc = "wrap" /\ t.c = b.c /\ t.attr = b.attr
        /\ t.video = b.video /\ t.term_x = NextX(b) /\ t.term_y = b.term_y
    BY <1>1, <2>1 DEF IsCon
  <2> HIDE DEF t
  <2> QED
    BY <1>1, <1>4, <2>2 DEF InPrintc, Places, Put, Controls
<1>5. CASE b.c = "CR"
  <2>1. t = [b EXCEPT !.term_x = 0, !.pc = "wrap"]
    BY <1>1, <1>5 DEF Branch
  <2>2. /\ IsCon(t) /\ t.pc = "wrap" /\ t.c = b.c /\ t.attr = b.attr
        /\ t.video = b.video /\ t.term_x = 0 /\ t.term_y = b.term_y
    BY <1>1, <2>1 DEF IsCon
  <2>3. NextX(b) = 0
    BY <1>1, <1>5, NextXIs
  <2> HIDE DEF t
  <2> QED
    BY <1>1, <1>5, <2>2, <2>3 DEF InPrintc, Places, Put, Controls
<1>6. CASE b.c = "NL"
  <2>1. t = [b EXCEPT !.term_x = 0, !.pc = "newline"]
    BY <1>1, <1>6 DEF Branch
  <2>2. /\ IsCon(t) /\ t.pc = "newline" /\ t.c = b.c /\ t.attr = b.attr
        /\ t.video = b.video /\ t.term_x = 0 /\ t.term_y = b.term_y
    BY <1>1, <2>1 DEF IsCon
  <2> HIDE DEF t
  <2> QED
    BY <1>1, <1>6, <2>2 DEF InPrintc, Places, Put, Controls
<1>7. CASE b.c \notin Controls
  <2>1. t = [b EXCEPT !.video[b.term_y * Width + b.term_x] = <<b.c, b.attr>>,
                      !.pc = "advance"]
    BY <1>1, <1>7 DEF Branch, Controls
  <2>2. Put(b) = [b.video EXCEPT ![b.term_y * Width + b.term_x] = <<b.c, b.attr>>]
    BY <1>7 DEF Put
  <2>3. /\ IsCon(t) /\ t.pc = "advance" /\ t.c = b.c /\ t.attr = b.attr
        /\ t.video = Put(b) /\ t.term_x = b.term_x /\ t.term_y = b.term_y
    BY <1>1, <2>1, <2>2 DEF IsCon
  <2> HIDE DEF t
  <2> QED
    BY <1>1, <1>7, <2>3 DEF InPrintc, Places
<1> QED
  BY <1>3, <1>4, <1>5, <1>6, <1>7 DEF Controls

LEMMA OneCell ==
    ASSUME NEW S, NEW f, NEW g, NEW n \in S, NEW x,
           f = [k \in S |-> f[k]], g = [k \in S |-> g[k]],
           g[n] = x, \A k \in S : k # n => g[k] = f[k]
    PROVE  g = [f EXCEPT ![n] = x]
<1>1. [f EXCEPT ![n] = x] = [k \in S |-> IF k = n THEN x ELSE f[k]]
  OBVIOUS
<1>2. \A k \in S : g[k] = IF k = n THEN x ELSE f[k]
  OBVIOUS
<1> QED
  BY <1>1, <1>2

\* What one round of the scroll stores.
Round(v, n, blank) ==
    /\ n < (Height - 1) * Width =>
         /\ Up(v, n, blank)[n + Width] = v[n + Width]
         /\ Up(v, n + 1, blank) = [Up(v, n, blank) EXCEPT ![n] = v[n + Width]]
    /\ n >= (Height - 1) * Width =>
         Up(v, n + 1, blank) = [Up(v, n, blank) EXCEPT ![n] = blank]

LEMMA UpStep ==
    ASSUME ConsoleAssumption, NEW v, NEW blank, NEW n \in 0 .. Height * Width - 1
    PROVE  Round(v, n, blank)
<1> USE DEF Round
<1> DEFINE At(k, j) == IF k < j /\ k < (Height - 1) * Width THEN v[k + Width]
                       ELSE IF k < j /\ k < Height * Width THEN blank
                       ELSE v[k]
<1>1. /\ Width \in Nat /\ Width > 0 /\ (Height - 1) * Width \in Nat
      /\ Height * Width = (Height - 1) * Width + Width
      /\ Cells = 0 .. (Height - 1) * Width + Width + Width - 1
  BY Sizes
<1>2. PICK h \in Nat : h = (Height - 1) * Width
  BY <1>1
<1>3. \A k \in Cells : k \in Nat
  BY <1>1, <1>2
<1>4. n \in Cells /\ n \in Nat
  BY <1>1, <1>2
<1>5. \A j : Up(v, j, blank) = [k \in Cells |-> At(k, j)]
  BY DEF Up
<1>6. \A k \in Cells : k # n => At(k, n + 1) = At(k, n)
  BY <1>1, <1>2, <1>3, <1>4
<1>9. ASSUME NEW x, At(n, n + 1) = x
      PROVE  Up(v, n + 1, blank) = [Up(v, n, blank) EXCEPT ![n] = x]
  <2> DEFINE f == Up(v, n, blank)
             g == Up(v, n + 1, blank)
  <2> HIDE DEF At
  <2>1. /\ f = [k \in Cells |-> f[k]] /\ g = [k \in Cells |-> g[k]]
        /\ \A k \in Cells : f[k] = At(k, n) /\ g[k] = At(k, n + 1)
    BY <1>5
  <2> HIDE DEF f, g
  <2>2. g[n] = x /\ \A k \in Cells : k # n => g[k] = f[k]
    BY <1>4, <1>6, <1>9, <2>1
  <2>3. g = [f EXCEPT ![n] = x]
    BY <1>4, <2>1, <2>2, OneCell
  <2> QED
    BY <2>3 DEF f, g
<1>7. CASE n < (Height - 1) * Width
  <2>1. At(n, n + 1) = v[n + Width]
    BY <1>4, <1>7
  <2>2. n + Width \in Cells /\ ~(n + Width < n)
    BY <1>1, <1>2, <1>4, <1>7
  <2>3. At(n + Width, n) = v[n + Width]
    BY <2>2
  <2> HIDE DEF At
  <2>4. Up(v, n, blank)[n + Width] = v[n + Width]
    BY <1>5, <2>2, <2>3
  <2>5. Up(v, n + 1, blank) = [Up(v, n, blank) EXCEPT ![n] = v[n + Width]]
    BY <1>9, <2>1
  <2> QED
    BY <1>1, <1>4, <1>7, <2>4, <2>5
<1>8. CASE n >= (Height - 1) * Width
  <2>1. At(n, n + 1) = blank
    BY <1>1, <1>2, <1>4, <1>8
  <2> HIDE DEF At
  <2>2. Up(v, n + 1, blank) = [Up(v, n, blank) EXCEPT ![n] = blank]
    BY <1>9, <2>1
  <2> QED
    BY <1>1, <1>4, <1>8, <2>2
<1> QED
  BY <1>1, <1>2, <1>4, <1>7, <1>8

LEMMA UpNone ==
    ASSUME ConsoleAssumption, NEW v, IsVideo(v), NEW blank
    PROVE  Up(v, 0, blank) = v
<1>1. \A k \in Cells : ~(k < 0)
  BY Sizes
<1>2. Up(v, 0, blank) = [k \in Cells |-> v[k]]
  BY <1>1 DEF Up
<1> QED
  BY <1>2 DEF IsVideo

LEMMA FromMove ==
    ASSUME ConsoleAssumption, NEW b, NEW r, InPrintc(b, r), r.pc = "move"
    PROVE  InPrintc(b, MoveCell(r))
<1> DEFINE t == MoveCell(r)
           v == Put(b)
<1> SUFFICES InPrintc(b, t)
  OBVIOUS
<1>1. /\ Begun(b) /\ IsCon(r) /\ r.c = b.c /\ r.attr = b.attr
      /\ Scrolls(b) /\ r.blank = <<Blank, b.attr>>
      /\ r.i \in 0 .. Height * Width /\ r.video = Up(v, r.i, r.blank)
      /\ r.term_x = WrapX(b) /\ r.term_y = Height
  BY DEF InPrintc, Places
<1>2. /\ Width \in Nat /\ Width > 0 /\ (Height - 1) * Width \in Nat
      /\ Height * Width = (Height - 1) * Width + Width
  BY Sizes
<1>3. PICK h \in Nat, z \in Nat : h = (Height - 1) * Width /\ z = Height * Width /\ z = h + Width
  BY <1>2
<1> HIDE DEF v
<1>4. CASE r.i < Height * Width
  <2>1. r.i \in 0 .. Height * Width - 1 /\ r.i + 1 \in 0 .. Height * Width
    BY <1>1, <1>3, <1>4
  <2>5. Round(v, r.i, r.blank)
    BY <2>1, UpStep
  <2>2. PICK new : /\ t = [r EXCEPT !.video[r.i] = new, !.i = r.i + 1]
                   /\ Up(v, r.i + 1, r.blank) = [Up(v, r.i, r.blank) EXCEPT ![r.i] = new]
    <3>1. CASE r.i < (Height - 1) * Width
      <4>1. t = [r EXCEPT !.video[r.i] = r.video[r.i + Width], !.i = r.i + 1]
        BY <3>1 DEF MoveCell
      <4>2. /\ r.video[r.i + Width] = v[r.i + Width]
            /\ Up(v, r.i + 1, r.blank) = [Up(v, r.i, r.blank) EXCEPT ![r.i] = v[r.i + Width]]
        BY <1>1, <2>5, <3>1 DEF Round
      <4> QED
        BY <4>1, <4>2
    <3>2. CASE ~(r.i < (Height - 1) * Width)
      <4>1. t = [r EXCEPT !.video[r.i] = r.blank, !.i = r.i + 1]
        BY <1>4, <3>2 DEF MoveCell
      <4>2. r.i >= (Height - 1) * Width
        BY <1>3, <2>1, <3>2
      <4>3. Up(v, r.i + 1, r.blank) = [Up(v, r.i, r.blank) EXCEPT ![r.i] = r.blank]
        BY <2>5, <4>2 DEF Round
      <4> QED
        BY <4>1, <4>3
    <3> QED
      BY <3>1, <3>2
  <2>3. /\ IsCon(t) /\ t.pc = "move" /\ t.c = b.c /\ t.attr = b.attr
        /\ t.blank = r.blank /\ t.i = r.i + 1 /\ t.term_x = r.term_x
        /\ t.term_y = r.term_y
        /\ t.video = [r.video EXCEPT ![r.i] = new]
    BY <1>1, <2>2 DEF IsCon
  <2>4. t.video = Up(v, t.i, t.blank)
    BY <1>1, <2>2, <2>3
  <2> HIDE DEF t
  <2> QED
    BY <1>1, <2>1, <2>3, <2>4 DEF InPrintc, Places, v
<1>5. CASE ~(r.i < Height * Width)
  <2>1. r.i = Height * Width /\ ~(r.i < (Height - 1) * Width)
    BY <1>1, <1>3, <1>5
  <2>2. t = [r EXCEPT !.term_y = Height - 1, !.pc = "cursor"]
    BY <1>5, <2>1 DEF MoveCell
  <2>3. /\ IsCon(t) /\ t.pc = "cursor" /\ t.c = b.c /\ t.attr = b.attr
        /\ t.video = r.video /\ t.term_x = r.term_x /\ t.term_y = Height - 1
    BY <1>1, <2>2 DEF IsCon
  <2>4. r.video = Shown(b)
    BY <1>1, <2>1 DEF Shown, v
  <2>5. EndY(b) = Height - 1
    BY <1>1 DEF EndY, Scrolls
  <2> HIDE DEF t
  <2> QED
    BY <1>1, <2>3, <2>4, <2>5 DEF InPrintc, Places
<1> QED
  BY <1>4, <1>5

LEMMA FromPlace ==
    ASSUME ConsoleAssumption, NEW b, NEW r, InPrintc(b, r),
           r.pc \in {"newline", "advance", "wrap", "wrapped", "scroll", "cursor"}
    PROVE  InPrintc(b, PrintcStep(r))
<1> DEFINE t == PrintcStep(r)
<1> SUFFICES InPrintc(b, t)
  OBVIOUS
<1>1. Begun(b) /\ IsCon(r) /\ r.c = b.c /\ r.attr = b.attr
  BY DEF InPrintc
<1>2. b.term_x \in Nat /\ b.term_y \in 0 .. Height - 1 /\ b.term_y \in Nat
  BY <1>1, Sizes DEF Begun, Inside
<1>3. /\ NextX(b) \in Nat /\ WrapX(b) \in 0 .. Width - 1
      /\ b.c = "NL" => NextX(b) = 0
      /\ b.c \notin Controls => NextX(b) = b.term_x + 1
  BY <1>1, NextXIs
<1>4. Width \in Nat /\ Width > 0 /\ Height \in Nat /\ Height > 1
  BY Sizes
<1>5. CASE r.pc = "newline"
  <2>1. /\ r.video = Put(b) /\ b.c = "NL" /\ r.term_x = 0 /\ r.term_y = b.term_y
    BY <1>5 DEF InPrintc, Places
  <2>2. t = [r EXCEPT !.term_y = r.term_y + 1, !.pc = "wrap"]
    BY <1>5 DEF PrintcStep
  <2>3. IsCon(t)
    BY <1>1, <2>2 DEF IsCon
  <2>4. /\ t.pc = "wrap" /\ t.c = r.c /\ t.attr = r.attr
        /\ t.video = r.video /\ t.term_x = r.term_x /\ t.term_y = r.term_y + 1
    BY <1>1, <2>2 DEF IsCon
  <2> HIDE DEF t
  <2>5. /\ t.pc = "wrap" /\ t.c = b.c /\ t.attr = b.attr
        /\ t.video = Put(b) /\ t.term_x = 0 /\ t.term_y = b.term_y + 1
    BY <1>1, <2>1, <2>4
  <2> QED
    BY <1>1, <1>3, <2>1, <2>3, <2>5 DEF InPrintc, Places
<1>6. CASE r.pc = "advance"
  <2>1. /\ r.video = Put(b) /\ b.c \notin Controls
        /\ r.term_x = b.term_x /\ r.term_y = b.term_y
    BY <1>6 DEF InPrintc, Places
  <2>2. t = [r EXCEPT !.term_x = r.term_x + 1, !.pc = "wrap"]
    BY <1>6 DEF PrintcStep
  <2>3. /\ IsCon(t) /\ t.pc = "wrap" /\ t.c = b.c /\ t.attr = b.attr
        /\ t.video = Put(b) /\ t.term_x = b.term_x + 1 /\ t.term_y = b.term_y
    BY <1>1, <2>1, <2>2 DEF IsCon
  <2>4. b.c # "NL"
    BY <2>1 DEF Controls
  <2> HIDE DEF t
  <2> QED
    BY <1>1, <1>3, <2>1, <2>3, <2>4 DEF InPrintc, Places
<1>7. CASE r.pc = "wrap"
  <2>1. /\ r.video = Put(b) /\ r.term_x = NextX(b)
        /\ r.term_y = IF b.c = "NL" THEN b.term_y + 1 ELSE b.term_y
    BY <1>7 DEF InPrintc, Places
  <2>2. t = Wrap(r)
    BY <1>7 DEF PrintcStep
  <2>3. CASE NextX(b) >= Width
    <3>1. t = [r EXCEPT !.term_x = 0, !.pc = "wrapped"]
      BY <2>1, <2>2, <2>3 DEF Wrap
    <3>2. b.c # "NL"
      BY <1>3, <1>4, <2>3
    <3>3. /\ IsCon(t) /\ t.pc = "wrapped" /\ t.c = b.c /\ t.attr = b.attr
          /\ t.video = Put(b) /\ t.term_x = 0 /\ t.term_y = b.term_y
      BY <1>1, <2>1, <3>1, <3>2 DEF IsCon
    <3> HIDE DEF t
    <3> QED
      BY <1>1, <2>3, <3>3 DEF InPrintc, Places
  <2>4. CASE ~(NextX(b) >= Width)
    <3>1. t = [r EXCEPT !.pc = "scroll"]
      BY <2>1, <2>2, <2>4 DEF Wrap
    <3>2. WrapX(b) = NextX(b) /\ (Down(b) <=> b.c = "NL")
      BY <2>4 DEF WrapX, Down
    <3>3. /\ IsCon(t) /\ t.pc = "scroll" /\ t.c = b.c /\ t.attr = b.attr
          /\ t.video = Put(b) /\ t.term_x = NextX(b) /\ t.term_y = r.term_y
      BY <1>1, <2>1, <3>1 DEF IsCon
    <3> HIDE DEF t
    <3> QED
      BY <1>1, <2>1, <3>2, <3>3 DEF InPrintc, Places
  <2> QED
    BY <2>3, <2>4
<1>8. CASE r.pc = "wrapped"
  <2>1. /\ r.video = Put(b) /\ r.term_x = 0 /\ NextX(b) >= Width
        /\ r.term_y = b.term_y
    BY <1>8 DEF InPrintc, Places
  <2>2. t = [r EXCEPT !.term_y = r.term_y + 1, !.pc = "scroll"]
    BY <1>8 DEF PrintcStep
  <2>3. /\ IsCon(t) /\ t.pc = "scroll" /\ t.c = b.c /\ t.attr = b.attr
        /\ t.video = Put(b) /\ t.term_x = 0 /\ t.term_y = b.term_y + 1
    BY <1>1, <2>1, <2>2 DEF IsCon
  <2>4. WrapX(b) = 0 /\ Down(b)
    BY <2>1 DEF WrapX, Down
  <2> HIDE DEF t
  <2> QED
    BY <1>1, <2>3, <2>4 DEF InPrintc, Places
<1>9. CASE r.pc = "scroll"
  <2>1. /\ r.video = Put(b) /\ r.term_x = WrapX(b)
        /\ r.term_y = IF Down(b) THEN b.term_y + 1 ELSE b.term_y
    BY <1>9 DEF InPrintc, Places
  <2>2. t = Scroll(r)
    BY <1>9 DEF PrintcStep
  <2>3. r.term_y >= Height <=> Scrolls(b)
    BY <1>2, <1>4, <2>1 DEF Scrolls
  <2>4. CASE Scrolls(b)
    <3>1. t = [r EXCEPT !.pc = "move", !.i = 0, !.blank = <<Blank, r.attr>>]
      BY <2>2, <2>3, <2>4 DEF Scroll
    <3>2. /\ IsCon(t) /\ t.pc = "move" /\ t.c = b.c /\ t.attr = b.attr /\ t.i = 0
          /\ t.blank = <<Blank, b.attr>> /\ t.video = Put(b) /\ t.term_x = WrapX(b)
          /\ t.term_y = r.term_y
      BY <1>1, <2>1, <3>1 DEF IsCon
    <3>5. r.term_y = Height
      BY <1>2, <1>4, <2>1, <2>4 DEF Scrolls
    <3>3. Put(b) = Up(Put(b), 0, t.blank)
      BY <1>1, PutIs, UpNone
    <3>4. 0 \in 0 .. Height * Width
      BY <1>4, Sizes
    <3> HIDE DEF t
    <3> QED
      BY <1>1, <2>4, <3>2, <3>3, <3>4, <3>5 DEF InPrintc, Places
  <2>5. CASE ~Scrolls(b)
    <3>1. t = [r EXCEPT !.pc = "cursor"]
      BY <2>2, <2>3, <2>5 DEF Scroll
    <3>2. /\ IsCon(t) /\ t.pc = "cursor" /\ t.c = b.c /\ t.attr = b.attr
          /\ t.video = Put(b) /\ t.term_x = WrapX(b) /\ t.term_y = r.term_y
      BY <1>1, <2>1, <3>1 DEF IsCon
    <3>3. Shown(b) = Put(b) /\ EndY(b) = r.term_y
      BY <2>1, <2>5 DEF Shown, EndY
    <3> HIDE DEF t
    <3> QED
      BY <1>1, <3>2, <3>3 DEF InPrintc, Places
  <2> QED
    BY <2>4, <2>5
<1>10. CASE r.pc = "cursor"
  <2>1. r.video = Shown(b) /\ r.term_x = WrapX(b) /\ r.term_y = EndY(b)
    BY <1>10 DEF InPrintc, Places
  <2>2. t = [r EXCEPT !.cursor = <<r.term_x, r.term_y>>, !.pc = "done"]
    BY <1>10 DEF PrintcStep, SetCursor
  <2>3. /\ IsCon(t) /\ t.pc = "done" /\ t.c = b.c /\ t.attr = b.attr
        /\ t.video = Shown(b) /\ t.term_x = WrapX(b) /\ t.term_y = EndY(b)
        /\ t.cursor = <<WrapX(b), EndY(b)>>
    <3>1. /\ IsCon(t) /\ t.pc = "done" /\ t.c = r.c /\ t.attr = r.attr
          /\ t.video = r.video /\ t.term_x = r.term_x /\ t.term_y = r.term_y
          /\ t.cursor = <<r.term_x, r.term_y>>
      BY <1>1, <2>2 DEF IsCon
    <3> HIDE DEF t
    <3> QED
      BY <1>1, <2>1, <3>1
  <2> HIDE DEF t
  <2> QED
    BY <1>1, <2>3 DEF InPrintc, Places
<1> QED
  BY <1>5, <1>6, <1>7, <1>8, <1>9, <1>10

LEMMA StepOfPrintc ==
    ASSUME ConsoleAssumption, NEW b, NEW r, InPrintc(b, r), r.pc # "done"
    PROVE  InPrintc(b, PrintcStep(r))
<1>1. CASE r.pc = "branch"
  BY <1>1, FromBranch DEF PrintcStep
<1>2. CASE r.pc = "move"
  BY <1>2, FromMove DEF PrintcStep
<1>3. CASE r.pc \notin {"branch", "move"}
  BY <1>3, FromPlace DEF InPrintc
<1> QED
  BY <1>1, <1>2, <1>3

\* The end of a printc leaves the cursor on the screen.
LEMMA EndOfPrintc ==
    ASSUME ConsoleAssumption, NEW b, NEW r, InPrintc(b, r), r.pc = "done"
    PROVE  Inside(r) /\ IsCon(r) /\ IsVideo(r.video)
<1>1. /\ Begun(b) /\ IsCon(r) /\ r.video = Shown(b)
      /\ r.term_x = WrapX(b) /\ r.term_y = EndY(b)
  BY DEF InPrintc, Places
<1>2. Inside(r)
  BY <1>1, NextXIs DEF Inside
<1>3. IsVideo(Shown(b))
  <2>1. IsVideo(Put(b))
    BY <1>1, PutIs
  <2>2. \A v, n, blank : IsVideo(Up(v, n, blank))
    BY DEF IsVideo, Up
  <2> QED
    BY <2>1, <2>2 DEF Shown
<1> QED
  BY <1>1, <1>2, <1>3

\* The screen of the memory v as rows of characters.
RowsOf(v) == [y \in 1 .. Height |-> [x \in 1 .. Width |-> v[(y - 1) * Width + x - 1][1]]]

LEMMA RowsAre ==
    ASSUME NEW r
    PROVE  [y \in 1 .. Height |-> Row(r, y - 1)] = RowsOf(r.video)
BY DEF Row, RowsOf

\* The rows of Put: what Rendered calls put.
LEMMA PutRows ==
    ASSUME ConsoleAssumption, NEW b, Begun(b)
    PROVE  RowsOf(Put(b)) =
              IF b.c \in Controls THEN RowsOf(b.video)
              ELSE [RowsOf(b.video) EXCEPT ![b.term_y + 1][b.term_x + 1] = b.c]
<1>1. CASE b.c \in Controls
  BY <1>1 DEF Put
<1>2. CASE b.c \notin Controls
  <2>1. PICK Y \in 1 .. Height, X \in 1 .. Width : Y = b.term_y + 1 /\ X = b.term_x + 1
    BY Sizes DEF Begun, Inside
  <2> DEFINE old == RowsOf(b.video)
             row == [old[Y] EXCEPT ![X] = b.c]
             At(v, y, x) == v[(y - 1) * Width + x - 1][1]
  <2>2. ASSUME NEW y \in 1 .. Height, NEW x \in 1 .. Width
        PROVE  At(Put(b), y, x) = IF y = Y /\ x = X THEN b.c ELSE At(b.video, y, x)
    <3>1. /\ y - 1 \in 0 .. Height - 1 /\ x - 1 \in 0 .. Width - 1
          /\ y - 1 \in Nat /\ b.term_y \in Nat /\ b.term_x \in 0 .. Width - 1
      BY Sizes DEF Begun, Inside
    <3>2. (y - 1) * Width + (x - 1) \in Cells
      BY <3>1, CellInside
    <3>3. (y - 1) * Width + x - 1 = (y - 1) * Width + (x - 1)
      BY <3>1, Sizes
    <3>4. (y - 1) * Width + (x - 1) = b.term_y * Width + b.term_x <=> y = Y /\ x = X
      <4>1. (y - 1) * Width + (x - 1) = b.term_y * Width + b.term_x =>
              y - 1 = b.term_y /\ x - 1 = b.term_x
        <5>1. PICK yy \in Nat, xx \in 0 .. Width - 1 : yy = y - 1 /\ xx = x - 1
          BY <3>1
        <5>2. PICK by \in Nat, bx \in 0 .. Width - 1 : by = b.term_y /\ bx = b.term_x
          BY <3>1
        <5>3. yy * Width + xx = by * Width + bx => yy = by /\ xx = bx
          BY SameCell
        <5> QED
          BY <5>1, <5>2, <5>3
      <4>2. y = Y <=> y - 1 = b.term_y
        BY <2>1, <3>1, Sizes
      <4>3. x = X <=> x - 1 = b.term_x
        BY <2>1, <3>1, Sizes
      <4> QED
        BY <4>1, <4>2, <4>3
    <3>5. Put(b)[(y - 1) * Width + (x - 1)] =
             IF y = Y /\ x = X THEN <<b.c, b.attr>>
             ELSE b.video[(y - 1) * Width + (x - 1)]
      BY <1>2, <3>2, <3>4, PutIs
    <3> QED
      BY <3>3, <3>5
  <2> HIDE DEF At
  <2>3. /\ old = [y \in 1 .. Height |-> [x \in 1 .. Width |-> At(b.video, y, x)]]
        /\ RowsOf(Put(b)) = [y \in 1 .. Height |-> [x \in 1 .. Width |-> At(Put(b), y, x)]]
    BY DEF RowsOf, At
  <2>4. row = [x \in 1 .. Width |-> IF x = X THEN b.c ELSE At(b.video, Y, x)]
    <3>1. old[Y] = [x \in 1 .. Width |-> At(b.video, Y, x)]
      BY <2>3
    <3> HIDE DEF old
    <3> QED
      BY <2>1, <3>1
  <2>5. [old EXCEPT ![Y] = row] = [y \in 1 .. Height |-> IF y = Y THEN row ELSE old[y]]
    BY <2>1, <2>3
  <2>6. ASSUME NEW y \in 1 .. Height
        PROVE  [x \in 1 .. Width |-> At(Put(b), y, x)] = IF y = Y THEN row ELSE old[y]
    <3>1. CASE y = Y
      <4>1. [x \in 1 .. Width |-> At(Put(b), y, x)] =
               [x \in 1 .. Width |-> IF x = X THEN b.c ELSE At(b.video, Y, x)]
        BY <2>2, <3>1
      <4> QED
        BY <2>4, <3>1, <4>1
    <3>2. CASE y # Y
      <4>1. [x \in 1 .. Width |-> At(Put(b), y, x)] = [x \in 1 .. Width |-> At(b.video, y, x)]
        BY <2>2, <3>2
      <4> QED
        BY <2>3, <3>2, <4>1
    <3> QED
      BY <3>1, <3>2
  <2>7. RowsOf(Put(b)) = [old EXCEPT ![Y] = row]
    <3> HIDE DEF old, row
    <3> QED
      BY <2>3, <2>5, <2>6
  <2> QED
    BY <1>2, <2>1, <2>7
<1> QED
  BY <1>1, <1>2

IsList(p, n) == p = [k \in 1 .. n |-> p[k]]

\* q is p without its first element and with e at the end.
Shifted(q, p, n, e) ==
    IsList(q, n) /\ \A k \in 1 .. n : q[k] = IF k = n THEN e ELSE p[k + 1]

LEMMA TailAppended ==
    ASSUME NEW n \in Nat, n > 0, NEW p, IsList(p, n), NEW e
    PROVE  Shifted(Append(Tail(p), e), p, n, e)
<1> DEFINE S == {p[k] : k \in 1 .. n} \cup {e}
<1>1. \A k \in 1 .. n : p[k] \in S
  OBVIOUS
<1>2. e \in S
  OBVIOUS
<1> HIDE DEF S
<1>3. p \in Seq(S) /\ Len(p) = n
  BY <1>1 DEF IsList
<1>4. /\ Tail(p) \in Seq(S) /\ Len(Tail(p)) = n - 1
      /\ \A k \in 1 .. n - 1 : Tail(p)[k] = p[k + 1]
  BY <1>3
<1> DEFINE q == Append(Tail(p), e)
<1>5. /\ q \in Seq(S) /\ Len(q) = n
      /\ \A k \in 1 .. n : q[k] = IF k = n THEN e ELSE Tail(p)[k]
  BY <1>2, <1>4
<1>6. \A k \in 1 .. n : q[k] = IF k = n THEN e ELSE p[k + 1]
  BY <1>4, <1>5
<1> HIDE DEF q
<1>7. IsList(q, n)
  BY <1>5 DEF IsList
<1> QED
  BY <1>6, <1>7 DEF q, Shifted

\* A scroll moves the rows up and leaves an empty one.
LEMMA UpRows ==
    ASSUME ConsoleAssumption, NEW v, NEW a
    PROVE  RowsOf(Up(v, Height * Width, <<Blank, a>>)) = Append(Tail(RowsOf(v)), EmptyRow)
<1> DEFINE w == Up(v, Height * Width, <<Blank, a>>)
           p == RowsOf(v)
<1>1. /\ Width \in Nat /\ Width > 0 /\ Height \in Nat /\ Height > 1
      /\ (Height - 1) * Width \in Nat
      /\ Height * Width = (Height - 1) * Width + Width
      /\ Cells = 0 .. (Height - 1) * Width + Width + Width - 1
  BY Sizes
<1>2. IsList(p, Height)
  BY DEF RowsOf, IsList
<1>3. ASSUME NEW y \in 1 .. Height
      PROVE  RowsOf(w)[y] = IF y = Height THEN EmptyRow ELSE p[y + 1]
  <2>1. RowsOf(w)[y] = [x \in 1 .. Width |-> w[(y - 1) * Width + x - 1][1]]
    BY DEF RowsOf
  <2>2. CASE y = Height
    <3>1. \A x \in 1 .. Width : w[(y - 1) * Width + x - 1][1] = Blank
      <4> SUFFICES ASSUME NEW x \in 1 .. Width
                   PROVE  w[(y - 1) * Width + x - 1][1] = Blank
        OBVIOUS
      <4>1. PICK h \in Nat : h = (Height - 1) * Width
        BY <1>1
      <4>2. PICK c \in Cells : c = h + x - 1
        BY <1>1, <4>1
      <4>3. ~(c < h) /\ c < Height * Width
        BY <1>1, <4>1, <4>2
      <4>4. w[c] = <<Blank, a>>
        BY <4>1, <4>3 DEF Up
      <4> HIDE DEF w
      <4> QED
        BY <2>2, <4>1, <4>2, <4>4
    <3> HIDE DEF w
    <3> QED
      BY <2>1, <2>2, <3>1 DEF EmptyRow
  <2>3. CASE y # Height
    <3>1. y + 1 \in 1 .. Height /\ y \in Nat
      BY <1>1, <2>3
    <3>2. p[y + 1] = [x \in 1 .. Width |-> v[(y + 1 - 1) * Width + x - 1][1]]
      BY <3>1 DEF RowsOf
    <3>3. ASSUME NEW x \in 1 .. Width
          PROVE  w[(y - 1) * Width + x - 1] = v[(y + 1 - 1) * Width + x - 1]
      <4>1. y - 1 \in Nat /\ y - 1 < Height - 1 /\ Height - 1 \in Nat /\ y + 1 - 1 = y
        BY <1>1, <2>3
      <4>2. (y - 1) * Width \in Nat /\ (y - 1) * Width + Width <= (Height - 1) * Width
        BY <1>1, <4>1, RowsApart
      <4>3. PICK g \in Nat, h \in Nat : g = (y - 1) * Width /\ h = (Height - 1) * Width
        BY <1>1, <4>2
      <4>4. y * Width = g + Width
        BY <1>1, <3>1, <4>3
      <4>5. PICK c \in Cells : c = g + x - 1
        BY <1>1, <4>2, <4>3
      <4>6. c < Height * Width /\ c < h /\ c + Width = y * Width + x - 1
        BY <1>1, <4>2, <4>3, <4>4, <4>5
      <4>7. w[c] = v[c + Width]
        BY <4>3, <4>6 DEF Up
      <4> HIDE DEF w
      <4> QED
        BY <4>1, <4>3, <4>5, <4>6, <4>7
    <3> HIDE DEF w, p
    <3> QED
      BY <2>1, <2>3, <3>2, <3>3
  <2> QED
    BY <2>2, <2>3
<1>4. RowsOf(w) = [k \in 1 .. Height |-> RowsOf(w)[k]]
  BY DEF RowsOf
<1>5. Shifted(Append(Tail(p), EmptyRow), p, Height, EmptyRow)
  <2> HIDE DEF p
  <2>1. Height \in Nat /\ Height > 0
    BY <1>1
  <2> QED
    BY <1>2, <2>1, TailAppended
<1> DEFINE q == RowsOf(w)
<1>6. \A k \in 1 .. Height : q[k] = IF k = Height THEN EmptyRow ELSE p[k + 1]
  BY <1>3
<1>7. IsList(q, Height)
  BY <1>4 DEF IsList
<1> HIDE DEF q, p
<1>8. q = Append(Tail(p), EmptyRow)
  <2> DEFINE r == Append(Tail(p), EmptyRow)
  <2>1. \A k \in 1 .. Height : q[k] = r[k]
    BY <1>5, <1>6 DEF Shifted
  <2> HIDE DEF r
  <2>2. IsList(r, Height)
    BY <1>5 DEF r, Shifted
  <2>3. q = r
    BY <1>7, <2>1, <2>2 DEF IsList
  <2> QED
    BY <2>3 DEF r
<1> QED
  BY <1>8 DEF q, p

\* A finished printc is the rendering of its character.
LEMMA RendersAtEnd ==
    ASSUME ConsoleAssumption, NEW b, NEW r, InPrintc(b, r), r.pc = "done"
    PROVE  /\ [y \in 1 .. Height |-> Row(r, y - 1)] = Rendered(b).rows
           /\ r.term_x = Rendered(b).x /\ r.term_y = Rendered(b).y
           /\ r.cursor = <<Rendered(b).x, Rendered(b).y>>
<1>1. /\ Begun(b) /\ r.video = Shown(b) /\ r.term_x = WrapX(b)
      /\ r.term_y = EndY(b) /\ r.cursor = <<WrapX(b), EndY(b)>>
  BY DEF InPrintc, Places
<1> DEFINE rows == [y \in 1 .. Height |-> Row(b, y - 1)]
           put == IF b.c \in Controls THEN rows
                  ELSE [rows EXCEPT ![b.term_y + 1][b.term_x + 1] = b.c]
<1>2. /\ Rendered(b).x = WrapX(b) /\ Rendered(b).y = EndY(b)
      /\ Rendered(b).rows = IF Scrolls(b) THEN Append(Tail(put), EmptyRow) ELSE put
  BY DEF Rendered, WrapX, EndY, NextX, Down, Scrolls
<1>3. put = RowsOf(Put(b))
  <2>1. rows = RowsOf(b.video)
    BY RowsAre
  <2> HIDE DEF rows
  <2> QED
    BY <1>1, <2>1, PutRows
<1>4. [y \in 1 .. Height |-> Row(r, y - 1)] = RowsOf(Shown(b))
  BY <1>1, RowsAre
<1> HIDE DEF put
<1>5. RowsOf(Shown(b)) = IF Scrolls(b) THEN Append(Tail(put), EmptyRow) ELSE put
  BY <1>3, UpRows DEF Shown
<1> QED
  BY <1>1, <1>2, <1>4, <1>5

\* What is to do after one more item.
LEMMA TailIs ==
    ASSUME NEW S, NEW s \in Seq(S), s # <<>>
    PROVE  /\ Tail(s) \in Seq(S) /\ Len(Tail(s)) = Len(s) - 1 /\ Len(s) >= 1
           /\ Head(s) = s[1] /\ Len(s) \in Nat
           /\ \A k \in 1 .. Len(Tail(s)) : Tail(s)[k] = s[k + 1]
OBVIOUS

LEMMA JoinedIs ==
    ASSUME NEW S, NEW p \in Seq(S), NEW q \in Seq(S)
    PROVE  /\ p \o q \in Seq(S) /\ Len(p \o q) = Len(p) + Len(q)
           /\ \A k \in 1 .. Len(p) + Len(q) :
                 (p \o q)[k] = IF k <= Len(p) THEN p[k] ELSE q[k - Len(p)]
OBVIOUS

LEMMA KlogSettles ==
    ASSUME ConsoleAssumption, NEW m \in Messages, NEW s,
           s = klog(m.mode, m.title, m.text)
    PROVE  s \in Seq(Things) /\ (s # <<>> => Resets(s))
<1> DEFINE name == CASE m.mode = LOG_OK -> <<"o">> [] m.mode = LOG_FAIL -> <<"f">>
                     [] OTHER -> m.title
<1>1. /\ m.title \in Seq(Things) /\ m.text \in Seq(Things)
      /\ \A k \in 1 .. Len(m.text) : m.text[k] # SetTitle
  BY DEF ConsoleAssumption, IsText, Things
<1>2. CASE m.mode > klog_mask
  BY <1>2 DEF klog
<1>3. CASE ~(m.mode > klog_mask)
  <2>1. s = <<SetTitle>> \o name \o <<SetReset>> \o m.text
    BY <1>3 DEF klog
  <2>2. name \in Seq(Things) /\ <<SetTitle>> \in Seq(Things) /\ <<SetReset>> \in Seq(Things)
    <3>1. {"o", "f", SetTitle, SetReset} \subseteq Things
      BY DEF Things
    <3> QED
      BY <1>1, <3>1
  <2> DEFINE front == <<SetTitle>> \o name
  <2>3. front \in Seq(Things)
    BY <2>2
  <2> HIDE DEF name, front
  <2>4. PICK n \in Nat : n = Len(front)
    BY <2>3
  <2> DEFINE mid == front \o <<SetReset>>
  <2>5. mid \in Seq(Things) /\ Len(mid) = n + 1 /\ mid[n + 1] = SetReset
    BY <2>2, <2>3, <2>4
  <2> HIDE DEF mid
  <2>6. s = mid \o m.text
    BY <2>1 DEF mid, front
  <2>10. PICK l \in Nat : l = Len(m.text)
    BY <1>1
  <2>7. /\ s \in Seq(Things) /\ Len(s) = n + 1 + l
        /\ \A k \in 1 .. Len(s) : s[k] = IF k <= n + 1 THEN mid[k] ELSE m.text[k - (n + 1)]
    <3>1. /\ mid \o m.text \in Seq(Things) /\ Len(mid \o m.text) = Len(mid) + Len(m.text)
          /\ \A k \in 1 .. Len(mid) + Len(m.text) :
                (mid \o m.text)[k] = IF k <= Len(mid) THEN mid[k] ELSE m.text[k - Len(mid)]
      BY <1>1, <2>5, JoinedIs, Zenon
    <3> QED
      BY <2>5, <2>6, <2>10, <3>1, Zenon
  <2>8. n + 1 \in 1 .. Len(s) /\ s[n + 1] = SetReset
    BY <2>5, <2>7
  <2>9. ASSUME NEW j \in n + 1 + 1 .. Len(s)
        PROVE  s[j] # SetTitle
    <3>1. j - (n + 1) \in 1 .. l /\ j \in 1 .. Len(s) /\ ~(j <= n + 1)
      BY <2>7
    <3> QED
      BY <1>1, <2>7, <2>10, <3>1
  <2> QED
    BY <2>7, <2>8, <2>9 DEF Resets
<1> QED
  BY <1>2, <1>3

LEMMA InitPrintc == ConInit => PrintcInv
<1> SUFFICES ASSUME ConInit PROVE PrintcInv
  OBVIOUS
<1>1. PICK x \in 0 .. Width - 1, y \in 0 .. Height - 1 : con = Fresh(x, y)
  BY DEF ConInit
<1>2. todo = <<>> /\ before = con
  BY DEF ConInit
<1>3. /\ con.pc = "done" /\ con.attr = Default /\ con.term_x = x /\ con.term_y = y
      /\ con.video = [k \in Cells |-> <<Blank, Default>>]
  BY <1>1 DEF Fresh
<1>4. IsCon(con)
  BY <1>1 DEF IsCon, Fresh
<1>5. IsVideo(con.video) /\ Inside(con)
  BY <1>3 DEF IsVideo, Inside
<1>6. todo \in Seq(Things) /\ Settles
  BY <1>2, <1>3 DEF Settles
<1> QED
  BY <1>2, <1>3, <1>4, <1>5, <1>6 DEF PrintcInv

\* Between two items the console is whole.
LEMMA Ready ==
    ASSUME PrintcInv, mode = "thread", con.pc = "done"
    PROVE  Inside(con) /\ IsCon(con) /\ IsVideo(con.video)
BY EndOfPrintc, ConsoleAssumption DEF PrintcInv

LEMMA CallPrintc ==
    ASSUME PrintcInv, NEW m \in Messages, Klog(m) \/ Printf(m)
    PROVE  PrintcInv'
<1>1. /\ mode = "thread" /\ con.pc = "done" /\ todo = <<>>
      /\ UNCHANGED <<con, before, mode>>
  BY DEF Klog, Printf
<1>2. con.attr = Default
  <2>1. ~Resets(todo)
    BY <1>1 DEF Resets
  <2> QED
    BY <1>1, <2>1 DEF PrintcInv, Settles
<1>3. todo' \in Seq(Things) /\ (Resets(todo') \/ \A k \in 1 .. Len(todo') : todo'[k] # SetTitle)
  <2>1. CASE Klog(m)
    <3>1. PICK s : s = todo' /\ s = klog(m.mode, m.title, m.text)
      BY <2>1 DEF Klog
    <3>2. s \in Seq(Things) /\ (s # <<>> => Resets(s))
      BY <3>1, KlogSettles, ConsoleAssumption
    <3> QED
      BY <3>1, <3>2
  <2>2. CASE Printf(m)
    <3>1. todo' = m.text
      BY <2>2 DEF Printf
    <3>2. m.text \in Seq(Things) /\ \A k \in 1 .. Len(m.text) : m.text[k] # SetTitle
      BY ConsoleAssumption DEF ConsoleAssumption, IsText, Things
    <3> QED
      BY <3>1, <3>2
  <2> QED
    BY <2>1, <2>2
<1>4. Settles'
  BY <1>1, <1>2, <1>3 DEF Settles, Resets
<1> QED
  BY <1>1, <1>3, <1>4 DEF PrintcInv, InPrintc, Places, Begun, Inside, IsCon

LEMMA ItemPrintc ==
    ASSUME PrintcInv, StartItem
    PROVE  PrintcInv'
<1>1. /\ mode = "thread" /\ con.pc = "done" /\ todo # <<>>
      /\ todo' = Tail(todo) /\ before' = con' /\ mode' = mode
      /\ con' = IF Head(todo) \in {SetTitle, SetReset}
                THEN SetAttr(con, Head(todo)) ELSE Begin(con, Head(todo))
  BY DEF StartItem
<1>2. /\ Inside(con) /\ IsCon(con) /\ IsVideo(con.video)
      /\ todo \in Seq(Things) /\ Settles
  BY <1>1, Ready DEF PrintcInv
<1>3. /\ todo' \in Seq(Things) /\ Len(todo') = Len(todo) - 1 /\ Len(todo) >= 1
      /\ Len(todo) \in Nat /\ Head(todo) = todo[1]
      /\ \A k \in 1 .. Len(todo') : todo'[k] = todo[k + 1]
  BY <1>1, <1>2, TailIs
<1>4. (con'.attr # Default \/ \E k \in 1 .. Len(todo') : todo'[k] = SetTitle)
         => Resets(todo')
  <2> SUFFICES ASSUME con'.attr # Default \/ \E k \in 1 .. Len(todo') : todo'[k] = SetTitle
               PROVE  Resets(todo')
    OBVIOUS
  <2>1. con.attr # Default \/ \E k \in 1 .. Len(todo) : todo[k] = SetTitle
    <3>1. CASE \E k \in 1 .. Len(todo') : todo'[k] = SetTitle
      BY <1>3, <3>1
    <3>2. CASE con'.attr # Default
      <4>1. CASE Head(todo) = SetTitle
        BY <1>3, <4>1
      <4>2. CASE Head(todo) = SetReset
        <5>1. con' = [con EXCEPT !.attr = Default]
          BY <1>1, <4>2 DEF SetAttr, SetTitle, SetReset
        <5> QED
          BY <1>2, <3>2, <5>1 DEF IsCon
      <4>3. CASE Head(todo) \notin {SetTitle, SetReset}
        <5>1. con' = Begin(con, Head(todo))
          BY <1>1, <4>3
        <5>2. con'.attr = con.attr
          BY <1>2, <5>1 DEF Begin, IsCon
        <5> QED
          BY <3>2, <5>2
      <4> QED
        BY <4>1, <4>2, <4>3
    <3> QED
      BY <3>1, <3>2
  <2>2. PICK k \in 1 .. Len(todo) :
           todo[k] = SetReset /\ \A j \in k + 1 .. Len(todo) : todo[j] # SetTitle
    BY <1>2, <2>1 DEF Settles, Resets
  <2>3. k # 1
    <3> SUFFICES ASSUME k = 1 PROVE FALSE
      OBVIOUS
    <3>1. Head(todo) = SetReset
      BY <1>3, <2>2
    <3>2. con' = [con EXCEPT !.attr = Default]
      BY <1>1, <3>1 DEF SetAttr, SetTitle, SetReset
    <3>3. con'.attr = Default
      BY <1>2, <3>2 DEF IsCon
    <3> QED
      BY <1>3, <2>2, <3>3
  <2>4. k - 1 \in 1 .. Len(todo') /\ todo'[k - 1] = SetReset
    BY <1>3, <2>2, <2>3
  <2>5. \A j \in k - 1 + 1 .. Len(todo') : todo'[j] # SetTitle
    BY <1>3, <2>2, <2>3
  <2> QED
    BY <2>4, <2>5 DEF Resets
<1>5. CASE Head(todo) \in {SetTitle, SetReset}
  <2>1. PICK a : con' = [con EXCEPT !.attr = a]
    BY <1>1, <1>5 DEF SetAttr
  <2>2. /\ con'.pc = "done" /\ con'.video = con.video /\ IsCon(con')
        /\ con'.term_x = con.term_x /\ con'.term_y = con.term_y
    BY <1>1, <1>2, <2>1 DEF IsCon
  <2>3. Inside(con') /\ IsVideo(con'.video)
    BY <1>2, <2>2 DEF Inside
  <2> QED
    BY <1>1, <1>3, <1>4, <2>2, <2>3 DEF PrintcInv, Settles
<1>6. CASE Head(todo) \notin {SetTitle, SetReset}
  <2>1. con' = [con EXCEPT !.c = Head(todo), !.pc = "branch", !.i = 0]
    BY <1>1, <1>6 DEF Begin
  <2>2. /\ con'.pc = "branch" /\ con'.video = con.video /\ IsCon(con')
        /\ con'.term_x = con.term_x /\ con'.term_y = con.term_y
    BY <1>1, <1>2, <2>1 DEF IsCon
  <2>3. Begun(con')
    BY <1>2, <2>2 DEF Begun, Inside
  <2>4. InPrintc(con', con')
    BY <2>2, <2>3 DEF InPrintc, Places
  <2> QED
    BY <1>1, <1>3, <1>4, <2>2, <2>4 DEF PrintcInv, Settles
<1> QED
  BY <1>5, <1>6

LEMMA NextPrintc == PrintcInv /\ [ConNext]_conVars => PrintcInv'
<1> SUFFICES ASSUME PrintcInv, [ConNext]_conVars PROVE PrintcInv'
  OBVIOUS
<1>1. CASE Step
  <2>1. /\ mode = "thread" /\ con.pc # "done" /\ con' = PrintcStep(con)
        /\ todo' = todo /\ before' = before /\ mode' = mode
    BY <1>1 DEF Step
  <2>2. before.pc = "branch" /\ InPrintc(before, con)
    BY <2>1 DEF PrintcInv
  <2>3. InPrintc(before, con')
    BY <2>1, <2>2, StepOfPrintc, ConsoleAssumption
  <2>4. con'.attr = con.attr
    BY <2>2, <2>3 DEF InPrintc
  <2>5. Settles'
    BY <2>1, <2>4 DEF PrintcInv, Settles, Resets
  <2> QED
    BY <2>1, <2>2, <2>3, <2>5 DEF PrintcInv
<1>2. CASE WatchdogPanic \/ HandlerItem \/ Halt
  BY <1>2 DEF WatchdogPanic, HandlerItem, Halt, PrintcInv
<1>3. CASE UNCHANGED conVars
  <2>1. con' = con /\ todo' = todo /\ before' = before /\ mode' = mode
    BY <1>3 DEF conVars
  <2>2. Settles' <=> Settles
    BY <2>1 DEF Settles, Resets
  <2> QED
    BY <2>1, <2>2 DEF PrintcInv
<1> QED
  BY <1>1, <1>2, <1>3, CallPrintc, ItemPrintc DEF ConNext

(***************************************************************************)
(* For every size of the screen, tab stop and set of messages: whenever a  *)
(* thread's printc has ended, the screen, the cursor variables and the     *)
(* hardware cursor are what a terminal makes of its character, and between *)
(* calls the attribute is the default.                                     *)
(***************************************************************************)
THEOREM PrintcIsTerminal == ConSpec => []PrintcRenders
<1>1. ConInit => PrintcInv
  BY InitPrintc
<1>2. PrintcInv /\ [ConNext]_conVars => PrintcInv'
  BY NextPrintc
<1>3. PrintcInv => PrintcRenders
  <2> SUFFICES ASSUME PrintcInv, mode = "thread", con.pc = "done"
               PROVE  /\ before.pc = "branch" =>
                           /\ [y \in 1 .. Height |-> Row(con, y - 1)] = Rendered(before).rows
                           /\ con.term_x = Rendered(before).x
                           /\ con.term_y = Rendered(before).y
                           /\ con.cursor = <<Rendered(before).x, Rendered(before).y>>
                      /\ todo = <<>> => con.attr = Default
    BY DEF PrintcRenders
  <2>1. todo = <<>> => con.attr = Default
    BY DEF PrintcInv, Settles, Resets
  <2>2. before.pc = "branch" => InPrintc(before, con)
    BY DEF PrintcInv
  <2> QED
    BY <2>1, <2>2, RendersAtEnd, ConsoleAssumption
<1> QED
  BY <1>1, <1>2, <1>3, PTL DEF ConSpec

-----------------------------------------------------------------------------
(* The panic.  The inductive invariant follows its characters by their     *)
(* distance from the cursor, which the scrolls of the screen do not change.*)

\* A character that is printed as it is; a line of such, with its newline.
Plain(c) == c \notin Controls \cup {SetTitle, SetReset}

IsLine(t) == /\ t \in Seq(STRING) /\ t # <<>> /\ t[Len(t)] = "NL"
             /\ \A k \in 1 .. Len(t) - 1 : Plain(t[k])

\* A title and a text that make one row.
FitsRow(title, text) ==
    /\ title \in Seq(STRING) /\ \A k \in 1 .. Len(title) : Plain(title[k])
    /\ IsLine(text) /\ Len(title) + Len(text) <= Width

\* The messages of the watchdog and of panic are lines that fit into a row each,
\* the screen has five rows, and the mask lets LOG_INFO through.
PanicFits ==
    /\ Height >= 5 /\ klog_mask >= LOG_INFO
    /\ IsLine(Warning) /\ Len(Warning) \in 2 .. Width
    /\ FitsRow(PanicTitle, Reason) /\ FitsRow(HaltTitle, HaltText)

\* Nothing is printed below the row of the cursor.
ClearBelow(r) ==
    \A k \in OnScreen : k >= (r.term_y + 1) * Width => r.video[k][1] = Blank

\* The console of the thread at any point, and between two characters.
Struck(r) ==
    /\ IsCon(r) /\ IsVideo(r.video) /\ ClearBelow(r)
    /\ r.term_x \in 0 .. 2 * Width - 1 /\ r.term_y \in 0 .. Height

Settled(r) == IsCon(r) /\ IsVideo(r.video) /\ Inside(r) /\ ClearBelow(r)

\* The cell in column x of the row that is d rows above the cursor.
Above(r, d, x) == r.video[(r.term_y - d) * Width + x]

\* After n characters of the warning all but the first stand where they were
\* printed; later they are at most m rows up, in consecutive cells still.
Warned(r, n) ==
    \A k \in 2 .. n : \E d \in {0, 1}, x \in 0 .. Width - 1 :
        /\ d <= r.term_y /\ Above(r, d, x)[1] = Warning[k]
        /\ (IF d = 0 THEN 0 ELSE Width) + r.term_x - x = n - k + 1

KeptAt(r, m, s, k) ==
    \E d \in 1 .. m, x \in 0 .. Width - 1 :
        /\ d <= r.term_y /\ Above(r, d, x)[1] = Warning[k]
        /\ d * Width - x = s - k

Kept(r, m) == \E s \in Int : \A k \in 2 .. Len(Warning) - 1 : KeptAt(r, m, s, k)

\* The items of a klog, the characters among the first e of them, and the x-th
\* character with its attribute.
Items(title, text) == <<SetTitle>> \o title \o <<SetReset>> \o text

Printed(title, e) ==
    IF e = 0 THEN 0 ELSE IF e <= Len(title) + 1 THEN e - 1 ELSE e - 2

Glyph(title, text, x) ==
    IF x <= Len(title) THEN <<title[x], Title>> ELSE <<text[x - Len(title)], Default>>

\* After e items of a klog its characters stand in the row of the cursor.
InLine(r, title, text, e) ==
    /\ e > 0 => r.attr = IF e <= Len(title) + 1 THEN Title ELSE Default
    /\ r.term_x = Printed(title, e)
    /\ \A x \in 1 .. Width :
          IF x <= Printed(title, e) THEN Above(r, 0, x - 1) = Glyph(title, text, x)
          ELSE Above(r, 0, x - 1)[1] = Blank

\* A whole klog stands d rows above the cursor.
Shows(r, d, title, text) ==
    /\ d <= r.term_y
    /\ \A x \in 1 .. Width :
          IF x < Len(title) + Len(text) THEN Above(r, d, x - 1) = Glyph(title, text, x)
          ELSE Above(r, d, x - 1)[1] = Blank

\* What the handler prints, and the console after d of its items.
Told == Warning \o panic(Reason)

OfPanic == Len(Warning)
OfHalt  == Len(Warning) + Len(PanicTitle) + Len(Reason) + 2
AllTold == OfHalt + Len(HaltTitle) + Len(HaltText) + 2

Stage(r, d) ==
    /\ d = 0 => Struck(r)
    /\ d > 0 => Settled(r)
    /\ d \in 1 .. OfPanic - 1 => Warned(r, d)
    /\ d \in OfPanic .. OfHalt - 1 =>
         InLine(r, PanicTitle, Reason, d - OfPanic) /\ Kept(r, 2)
    /\ d \in OfHalt .. AllTold - 1 =>
         /\ InLine(r, HaltTitle, HaltText, d - OfHalt) /\ Kept(r, 3)
         /\ Shows(r, 1, PanicTitle, Reason)
    /\ d = AllTold =>
         /\ r.term_x = 0 /\ r.cursor = <<0, r.term_y>> /\ Kept(r, 4)
         /\ Shows(r, 1, HaltTitle, HaltText) /\ Shows(r, 2, PanicTitle, Reason)

PanicInv ==
    /\ PrintcInv
    /\ mode = "thread" => ClearBelow(IF before.pc = "branch" THEN before ELSE con)
    /\ mode # "thread" =>
         \E d \in 0 .. AllTold : /\ todo = SubSeq(Told, d + 1, AllTold)
                                 /\ Stage(con, d)
    /\ mode = "halted" => todo = <<>>

LEMMA BeginIs ==
    ASSUME NEW r, IsCon(r), NEW c, NEW b, b = Begin(r, c)
    PROVE  /\ IsCon(b) /\ b.video = r.video /\ b.term_x = r.term_x /\ b.term_y = r.term_y
           /\ b.attr = r.attr /\ b.c = c /\ b.pc = "branch"
BY DEF IsCon, Begin

\* A printc of the handler that begins on the screen ends as one of the thread.
LEMMA WholePrintc ==
    ASSUME ConsoleAssumption, NEW r, NEW c, IsCon(r), IsVideo(r.video), Inside(r),
           NEW b, b = Begin(r, c), NEW t, t = printc(r, c)
    PROVE  /\ Begun(b) /\ b.video = r.video /\ b.term_x = r.term_x
           /\ b.term_y = r.term_y /\ b.attr = r.attr /\ b.c = c
           /\ IsCon(t) /\ t.video = Shown(b) /\ IsVideo(t.video)
           /\ t.term_x = WrapX(b) /\ t.term_y = EndY(b) /\ t.attr = r.attr
           /\ t.cursor = <<t.term_x, t.term_y>>
<1> DEFINE stored == Branch(b)
           moved  == IF stored.pc = "wrap" THEN stored ELSE PrintcStep(stored)
           wrap   == Wrap(moved)
           line   == IF wrap.pc = "scroll" THEN wrap ELSE PrintcStep(wrap)
           scroll == Scroll(line)
           shown   == IF scroll.pc = "move" THEN ScrollAll(scroll) ELSE scroll
<1>1. t = SetCursor(shown)
  BY DEF printc
<1>2. /\ IsCon(b) /\ b.video = r.video /\ b.term_x = r.term_x /\ b.term_y = r.term_y
      /\ b.attr = r.attr /\ b.c = c /\ b.pc = "branch"
  BY BeginIs
<1>3. Begun(b) /\ InPrintc(b, b)
  BY <1>2 DEF Begun, InPrintc, Places, Inside
<1>4. InPrintc(b, stored) /\ stored.pc \in {"wrap", "newline", "advance"}
  <2>1. InPrintc(b, stored)
    BY <1>2, <1>3, FromBranch
  <2>2. stored.pc \in {"wrap", "newline", "advance"}
    <3>1. b.term_x \in Nat
      BY <1>2, Sizes DEF Inside
    <3> QED
      BY <1>2, <3>1 DEF Branch, IsCon
  <2> QED
    BY <2>1, <2>2
<1> HIDE DEF stored
<1>5. InPrintc(b, moved) /\ moved.pc = "wrap"
  <2>1. CASE stored.pc = "wrap"
    BY <1>4, <2>1
  <2>2. CASE stored.pc # "wrap"
    <3>1. moved = PrintcStep(stored) /\ InPrintc(b, moved)
      BY <1>4, <2>2, StepOfPrintc
    <3>2. IsCon(stored)
      BY <1>4 DEF InPrintc
    <3>3. moved.pc = "wrap"
      BY <1>4, <2>2, <3>1, <3>2 DEF PrintcStep, IsCon
    <3> QED
      BY <3>1, <3>3
  <2> QED
    BY <2>1, <2>2
<1> HIDE DEF moved
<1>6. InPrintc(b, wrap) /\ wrap.pc \in {"scroll", "wrapped"}
  <2>1. wrap = PrintcStep(moved)
    BY <1>5 DEF PrintcStep
  <2>2. IsCon(moved)
    BY <1>5 DEF InPrintc
  <2>3. wrap.pc \in {"scroll", "wrapped"}
    BY <2>2 DEF Wrap, IsCon
  <2> QED
    BY <1>5, <2>1, <2>3, StepOfPrintc
<1> HIDE DEF wrap
<1>7. InPrintc(b, line) /\ line.pc = "scroll"
  <2>1. CASE wrap.pc = "scroll"
    BY <1>6, <2>1
  <2>2. CASE wrap.pc = "wrapped"
    <3>1. line = PrintcStep(wrap) /\ InPrintc(b, line)
      BY <1>6, <2>2, StepOfPrintc
    <3>2. IsCon(wrap)
      BY <1>6 DEF InPrintc
    <3>3. line.pc = "scroll"
      BY <2>2, <3>1, <3>2 DEF PrintcStep, IsCon
    <3> QED
      BY <3>1, <3>3
  <2> QED
    BY <1>6, <2>1, <2>2
<1> HIDE DEF line
<1>8. InPrintc(b, scroll) /\ scroll.pc \in {"move", "cursor"} /\ (scroll.pc = "move" => scroll.i = 0)
  <2>1. scroll = PrintcStep(line)
    BY <1>7 DEF PrintcStep
  <2>2. IsCon(line)
    BY <1>7 DEF InPrintc
  <2>3. scroll.pc \in {"move", "cursor"} /\ (scroll.pc = "move" => scroll.i = 0)
    BY <2>2 DEF Scroll, IsCon
  <2> QED
    BY <1>7, <2>1, <2>3, StepOfPrintc
<1> HIDE DEF scroll
<1>9. /\ IsCon(shown) /\ shown.video = Shown(b) /\ shown.term_x = WrapX(b)
      /\ shown.term_y = EndY(b) /\ shown.attr = r.attr
  <2>1. IsCon(scroll) /\ scroll.attr = r.attr
    BY <1>2, <1>8 DEF InPrintc
  <2>2. CASE scroll.pc = "cursor"
    <3>1. shown = scroll
      BY <2>2
    <3> QED
      BY <1>8, <2>1, <2>2, <3>1 DEF InPrintc, Places
  <2>3. CASE scroll.pc = "move"
    <3>1. /\ Scrolls(b) /\ scroll.blank = <<Blank, b.attr>> /\ scroll.i = 0
          /\ scroll.video = Up(Put(b), 0, scroll.blank) /\ scroll.term_x = WrapX(b)
      BY <1>8, <2>3 DEF InPrintc, Places
    <3>2. scroll.video = Put(b)
      BY <1>3, <3>1, PutIs, UpNone
    <3>3. shown = ScrollAll(scroll)
      BY <2>3
    <3>4. /\ IsCon(shown) /\ shown.attr = scroll.attr /\ shown.term_x = scroll.term_x
          /\ shown.term_y = Height - 1
          /\ shown.video = [k \in Cells |->
                             IF k < (Height - 1) * Width THEN scroll.video[k + Width]
                             ELSE IF k < Height * Width THEN scroll.blank
                             ELSE scroll.video[k]]
      BY <2>1, <3>3 DEF ScrollAll, IsCon
    <3> HIDE DEF shown
    <3>5. Up(Put(b), Height * Width, scroll.blank) = shown.video
      <4>1. PICK h \in Nat : h = (Height - 1) * Width /\ Height * Width = h + Width
        BY Sizes
      <4>2. Width \in Nat /\ \A k \in Cells : k \in Nat
        BY <4>1, Sizes
      <4>3. \A k \in Cells :
               (IF k < Height * Width /\ k < (Height - 1) * Width THEN Put(b)[k + Width]
                ELSE IF k < Height * Width /\ k < Height * Width THEN scroll.blank
                ELSE Put(b)[k])
               = IF k < (Height - 1) * Width THEN scroll.video[k + Width]
                 ELSE IF k < Height * Width THEN scroll.blank
                 ELSE scroll.video[k]
        BY <3>2, <4>1, <4>2
      <4> QED
        BY <3>4, <4>3 DEF Up
    <3>6. EndY(b) = Height - 1
      BY <3>1 DEF EndY, Scrolls
    <3> QED
      BY <2>1, <3>1, <3>4, <3>5, <3>6 DEF Shown
  <2> QED
    BY <1>8, <2>2, <2>3
<1> HIDE DEF shown
<1>10. /\ IsCon(t) /\ t.video = shown.video /\ t.term_x = shown.term_x
       /\ t.term_y = shown.term_y /\ t.attr = shown.attr
       /\ t.cursor = <<shown.term_x, shown.term_y>>
  BY <1>1, <1>9 DEF SetCursor, IsCon
<1>11. IsVideo(Shown(b))
  <2>1. IsVideo(Put(b))
    BY <1>3, PutIs
  <2>2. \A v, n, blank : IsVideo(Up(v, n, blank))
    BY DEF IsVideo, Up
  <2> QED
    BY <2>1, <2>2 DEF Shown
<1> QED
  BY <1>2, <1>3, <1>9, <1>10, <1>11

\* The rows of the screen, from the cursor's up.
LEMMA AboveInside ==
    ASSUME ConsoleAssumption, NEW y \in 0 .. Height - 1, NEW d \in 0 .. y,
           NEW x \in 0 .. Width - 1
    PROVE  /\ y - d \in 0 .. Height - 1 /\ (y - d) * Width + x \in Cells
           /\ (y - d) * Width + x \in OnScreen
<1>1. y - d \in 0 .. Height - 1
  BY Sizes
<1>2. PICK z \in 0 .. Height - 1 : z = y - d
  BY <1>1
<1> QED
  BY <1>1, <1>2, CellInside DEF OnScreen

\* Printing at the cursor leaves the rows below it, and those below a row
\* further down, as they are.
LEMMA PutBelow ==
    ASSUME ConsoleAssumption, NEW b, Begun(b), ClearBelow(b),
           NEW y \in Nat, b.term_y <= y, NEW k \in OnScreen, k >= (y + 1) * Width
    PROVE  Put(b)[k][1] = Blank
<1>1. /\ Width \in Nat /\ Width > 0 /\ b.term_y \in Nat
      /\ b.term_x \in Nat /\ b.term_x < Width
  BY Sizes DEF Begun, Inside
<1>2. (y + 1) * Width >= (b.term_y + 1) * Width
  <2>1. CASE b.term_y < y
    <3>1. b.term_y + 1 < y + 1 /\ b.term_y + 1 \in Nat /\ y + 1 \in Nat
      BY <1>1, <2>1
    <3>2. (b.term_y + 1) * Width + Width <= (y + 1) * Width
      BY <1>1, <3>1, RowsApart
    <3>3. (b.term_y + 1) * Width \in Nat /\ (y + 1) * Width \in Nat
      BY <1>1, <3>1
    <3> QED
      BY <1>1, <3>2, <3>3
  <2>2. CASE b.term_y = y
    <3>1. (y + 1) * Width \in Nat
      BY <1>1
    <3> QED
      BY <2>2, <3>1
  <2> QED
    BY <1>1, <2>1, <2>2
<1>3. PICK q \in Nat : q = b.term_y * Width /\ (b.term_y + 1) * Width = q + Width
  BY <1>1
<1>4. k \in Int /\ k \in Cells /\ (y + 1) * Width \in Int
  BY <1>1, Sizes DEF OnScreen
<1>5. k >= q + Width
  BY <1>1, <1>2, <1>3, <1>4
<1>6. b.video[k][1] = Blank
  BY <1>3, <1>5 DEF ClearBelow
<1>7. k # b.term_y * Width + b.term_x
  BY <1>1, <1>3, <1>4, <1>5
<1> QED
  BY <1>4, <1>6, <1>7, PutIs

\* What a character that stays in its row makes of the console, and what a
\* newline or the character that fills a row does.
SameRow(r, c, t) ==
    /\ t.attr = r.attr /\ t.term_x = r.term_x + 1 /\ t.term_y = r.term_y
    /\ \A d \in 0 .. r.term_y, x \in 0 .. Width - 1 :
          Above(t, d, x) = IF d = 0 /\ x = r.term_x THEN <<c, r.attr>>
                           ELSE Above(r, d, x)

NewRow(r, c, t) ==
    /\ t.attr = r.attr /\ t.term_x = 0 /\ t.cursor = <<0, t.term_y>>
    /\ t.term_y = IF r.term_y = Height - 1 THEN Height - 1 ELSE r.term_y + 1
    /\ \A x \in 0 .. Width - 1 : Above(t, 0, x)[1] = Blank
    /\ \A d \in 0 .. r.term_y, x \in 0 .. Width - 1 : d + 1 <= t.term_y =>
          Above(t, d + 1, x) = IF c # "NL" /\ d = 0 /\ x = r.term_x
                               THEN <<c, r.attr>> ELSE Above(r, d, x)

LEMMA CharInRow ==
    ASSUME ConsoleAssumption, NEW r, Settled(r), NEW c, Plain(c),
           r.term_x + 1 < Width, NEW t, t = printc(r, c)
    PROVE  Settled(t) /\ SameRow(r, c, t)
<1> DEFINE b == Begin(r, c)
<1>1. /\ Begun(b) /\ b.video = r.video /\ b.term_x = r.term_x
      /\ b.term_y = r.term_y /\ b.attr = r.attr /\ b.c = c
      /\ IsCon(t) /\ t.video = Shown(b) /\ IsVideo(t.video)
      /\ t.term_x = WrapX(b) /\ t.term_y = EndY(b) /\ t.attr = r.attr
      /\ t.cursor = <<t.term_x, t.term_y>>
  BY WholePrintc DEF Settled
<1> HIDE DEF b
<1>2. c \notin Controls /\ c # "NL"
  BY DEF Plain, Controls
<1>3. /\ Width \in Nat /\ Height \in Nat /\ r.term_x \in 0 .. Width - 1
      /\ r.term_y \in 0 .. Height - 1
  BY Sizes DEF Settled, Inside
<1>4. NextX(b) = r.term_x + 1
  BY <1>1, <1>2, NextXIs
<1>5. ~Down(b) /\ ~Scrolls(b) /\ WrapX(b) = r.term_x + 1 /\ EndY(b) = r.term_y
  BY <1>1, <1>2, <1>3, <1>4 DEF Down, Scrolls, WrapX, EndY
<1>6. /\ t.video = Put(b)
      /\ \A k \in Cells : t.video[k] =
            IF k = r.term_y * Width + r.term_x THEN <<c, r.attr>> ELSE r.video[k]
  BY <1>1, <1>2, <1>5, PutIs DEF Shown
<1>7. ASSUME NEW d \in 0 .. r.term_y, NEW x \in 0 .. Width - 1
      PROVE  Above(t, d, x) = IF d = 0 /\ x = r.term_x THEN <<c, r.attr>>
                              ELSE Above(r, d, x)
  <2>1. PICK z : z = r.term_y - d
    OBVIOUS
  <2>2. z \in 0 .. Height - 1 /\ z * Width + x \in Cells
    BY <1>3, <2>1, AboveInside
  <2>3. z \in Nat /\ r.term_y \in Nat /\ (z = r.term_y <=> d = 0)
    BY <1>3, <2>1, <2>2
  <2>4. z * Width + x = r.term_y * Width + r.term_x <=> d = 0 /\ x = r.term_x
    BY <1>3, <2>3, SameCell
  <2>5. Above(t, d, x) = t.video[z * Width + x] /\ Above(r, d, x) = r.video[z * Width + x]
    BY <1>1, <1>5, <2>1 DEF Above
  <2> QED
    BY <1>6, <2>4, <2>5, <2>2
<1>8. ClearBelow(t)
  <2> SUFFICES ASSUME NEW k \in OnScreen, k >= (r.term_y + 1) * Width
               PROVE  t.video[k][1] = Blank
    BY <1>1, <1>5 DEF ClearBelow
  <2>1. r.video[k][1] = Blank
    BY DEF Settled, ClearBelow
  <2>2. (r.term_y + 1) * Width = r.term_y * Width + Width /\ r.term_y * Width \in Nat
    BY <1>3
  <2>3. k \in Cells
    BY Sizes DEF OnScreen
  <2>4. k \in Int
    BY <1>3 DEF OnScreen
  <2>5. k # r.term_y * Width + r.term_x
    BY <1>3, <2>2, <2>4
  <2> QED
    BY <1>6, <2>1, <2>3, <2>5
<1>9. Inside(t)
  BY <1>1, <1>3, <1>5 DEF Inside
<1> QED
  BY <1>1, <1>5, <1>7, <1>8, <1>9 DEF Settled, SameRow

LEMMA CharDown ==
    ASSUME ConsoleAssumption, NEW r, Settled(r), NEW c,
           c = "NL" \/ (Plain(c) /\ r.term_x + 1 = Width), NEW t, t = printc(r, c)
    PROVE  Settled(t) /\ NewRow(r, c, t)
<1> DEFINE b == Begin(r, c)
<1>1. /\ Begun(b) /\ b.video = r.video /\ b.term_x = r.term_x
      /\ b.term_y = r.term_y /\ b.attr = r.attr /\ b.c = c
      /\ IsCon(t) /\ t.video = Shown(b) /\ IsVideo(t.video)
      /\ t.term_x = WrapX(b) /\ t.term_y = EndY(b) /\ t.attr = r.attr
      /\ t.cursor = <<t.term_x, t.term_y>>
  BY WholePrintc DEF Settled
<1> HIDE DEF b
<1>2. (c \notin Controls <=> c # "NL") /\ (c # "NL" => r.term_x + 1 = Width)
  BY DEF Plain, Controls
<1>3. /\ Width \in Nat /\ Width > 0 /\ Height \in Nat /\ Height > 1
      /\ r.term_x \in 0 .. Width - 1 /\ r.term_y \in 0 .. Height - 1 /\ r.term_y \in Nat
  BY Sizes DEF Settled, Inside
<1>4. NextX(b) = IF c = "NL" THEN 0 ELSE Width
  BY <1>1, <1>2, NextXIs
<1>5. Down(b) /\ WrapX(b) = 0 /\ (Scrolls(b) <=> r.term_y = Height - 1)
  BY <1>1, <1>3, <1>4 DEF Down, Scrolls, WrapX
<1>6. EndY(b) = IF r.term_y = Height - 1 THEN Height - 1 ELSE r.term_y + 1
  BY <1>1, <1>5 DEF EndY
<1>7. \A k \in Cells : Put(b)[k] =
         IF c # "NL" /\ k = r.term_y * Width + r.term_x THEN <<c, r.attr>> ELSE r.video[k]
  BY <1>1, <1>2, PutIs
<1>8. \A k \in OnScreen : k >= (r.term_y + 1) * Width => Put(b)[k][1] = Blank
  <2>1. ClearBelow(b)
    BY <1>1 DEF Settled, ClearBelow
  <2>2. r.term_y <= r.term_y
    BY <1>3
  <2> QED
    BY <1>1, <1>3, <2>1, <2>2, PutBelow
<1>9. ASSUME NEW d \in 0 .. r.term_y, NEW x \in 0 .. Width - 1, NEW z, z = r.term_y - d
      PROVE  /\ z \in 0 .. Height - 1 /\ z * Width + x \in Cells
             /\ Put(b)[z * Width + x] = IF c # "NL" /\ d = 0 /\ x = r.term_x
                                        THEN <<c, r.attr>> ELSE Above(r, d, x)
  <2>1. z \in 0 .. Height - 1 /\ z * Width + x \in Cells
    BY <1>3, <1>9, AboveInside
  <2>2. z \in Nat /\ (z = r.term_y <=> d = 0)
    BY <1>3, <1>9, <2>1
  <2>3. z * Width + x = r.term_y * Width + r.term_x <=> d = 0 /\ x = r.term_x
    BY <1>3, <2>2, SameCell
  <2>4. Above(r, d, x) = r.video[z * Width + x]
    BY <1>9 DEF Above
  <2> QED
    BY <1>7, <2>3, <2>4, <2>1
<1>10. CASE r.term_y = Height - 1
  <2>1. /\ t.term_y = Height - 1
        /\ t.video = Up(Put(b), Height * Width, <<Blank, b.attr>>)
    BY <1>1, <1>5, <1>6, <1>10 DEF Shown
  <2>2. PICK h \in Nat : /\ h = (Height - 1) * Width /\ Height * Width = h + Width
                         /\ Cells = 0 .. h + Width + Width - 1
    BY Sizes
  <2>3. \A k \in Cells : /\ k < h => t.video[k] = Put(b)[k + Width]
                         /\ k >= h /\ k < h + Width => t.video[k] = <<Blank, b.attr>>
    <3>1. \A k \in Cells : t.video[k] =
             IF k < Height * Width /\ k < (Height - 1) * Width THEN Put(b)[k + Width]
             ELSE IF k < Height * Width /\ k < Height * Width THEN <<Blank, b.attr>>
             ELSE Put(b)[k]
      BY <2>1 DEF Up
    <3>2. \A k \in Cells : k \in Nat
      BY <2>2
    <3> QED
      BY <1>3, <2>2, <3>1, <3>2
  <2>4. ASSUME NEW x \in 0 .. Width - 1 PROVE Above(t, 0, x)[1] = Blank
    <3>1. Above(t, 0, x) = t.video[(Height - 1) * Width + x]
      BY <1>3, <2>1 DEF Above
    <3>2. h + x \in Cells /\ h + x >= h /\ h + x < h + Width
      BY <1>3, <2>2
    <3>3. Above(t, 0, x) = <<Blank, b.attr>>
      BY <2>2, <2>3, <3>1, <3>2
    <3> QED
      BY <3>3
  <2>5. ASSUME NEW d \in 0 .. r.term_y, NEW x \in 0 .. Width - 1, d + 1 <= t.term_y
        PROVE  Above(t, d + 1, x) = IF c # "NL" /\ d = 0 /\ x = r.term_x
                                    THEN <<c, r.attr>> ELSE Above(r, d, x)
    <3>1. PICK z : z = r.term_y - d
      OBVIOUS
    <3>2. PICK u \in 0 .. Height - 2 : u = Height - 1 - (d + 1)
      BY <1>3, <1>10, <2>1, <2>5
    <3>3. z = u + 1 /\ u \in Nat /\ u < Height - 1
      BY <1>3, <1>10, <3>1, <3>2
    <3>4. u * Width + Width <= (Height - 1) * Width
      BY <1>3, <3>3, RowsApart
    <3>5. u * Width \in Nat /\ z * Width + x = u * Width + x + Width
      BY <1>3, <3>3
    <3>6. u * Width + x < h /\ u * Width + x \in Cells
      BY <1>3, <2>2, <3>4, <3>5
    <3>7. Above(t, d + 1, x) = t.video[u * Width + x]
      BY <2>1, <3>2 DEF Above
    <3>8. t.video[u * Width + x] = Put(b)[z * Width + x]
      BY <2>3, <3>5, <3>6
    <3> QED
      BY <1>9, <3>1, <3>7, <3>8
  <2>6. ClearBelow(t)
    <3>1. (t.term_y + 1) * Width = Height * Width
      BY <1>3, <2>1
    <3>2. \A k \in OnScreen : ~(k >= Height * Width)
      BY <2>2 DEF OnScreen
    <3> QED
      BY <3>1, <3>2 DEF ClearBelow
  <2>7. Inside(t)
    BY <1>1, <1>3, <1>5, <2>1 DEF Inside
  <2> QED
    BY <1>1, <1>5, <1>6, <2>4, <2>5, <2>6, <2>7 DEF Settled, NewRow
<1>11. CASE r.term_y # Height - 1
  <2>1. t.term_y = r.term_y + 1 /\ t.video = Put(b)
    BY <1>1, <1>5, <1>6, <1>11 DEF Shown
  <2>2. r.term_y + 1 \in 0 .. Height - 1
    BY <1>3, <1>11
  <2>3. ASSUME NEW x \in 0 .. Width - 1 PROVE Above(t, 0, x)[1] = Blank
    <3>1. Above(t, 0, x) = Put(b)[(r.term_y + 1) * Width + x]
      BY <1>3, <2>1 DEF Above
    <3>2. (r.term_y + 1) * Width + x \in OnScreen /\ (r.term_y + 1) * Width \in Nat
      BY <2>2, CellInside DEF OnScreen
    <3>3. (r.term_y + 1) * Width + x >= (r.term_y + 1) * Width
      BY <1>3, <3>2
    <3> QED
      BY <1>8, <3>1, <3>2, <3>3
  <2>4. ASSUME NEW d \in 0 .. r.term_y, NEW x \in 0 .. Width - 1, d + 1 <= t.term_y
        PROVE  Above(t, d + 1, x) = IF c # "NL" /\ d = 0 /\ x = r.term_x
                                    THEN <<c, r.attr>> ELSE Above(r, d, x)
    <3>1. PICK z : z = r.term_y - d
      OBVIOUS
    <3>2. t.term_y - (d + 1) = z
      BY <1>3, <2>1, <3>1
    <3>3. Above(t, d + 1, x) = Put(b)[z * Width + x]
      BY <2>1, <3>2 DEF Above
    <3> QED
      BY <1>9, <3>1, <3>3
  <2>5. ClearBelow(t)
    <3> SUFFICES ASSUME NEW k \in OnScreen, k >= (r.term_y + 1 + 1) * Width
                 PROVE  Put(b)[k][1] = Blank
      BY <2>1 DEF ClearBelow
    <3>1. PICK p \in Nat : p = (r.term_y + 1) * Width
      BY <1>3
    <3>2. (r.term_y + 1 + 1) * Width = p + Width
      BY <1>3, <3>1
    <3>3. k \in Int
      BY <1>3 DEF OnScreen
    <3>4. k >= p
      BY <1>3, <3>1, <3>2, <3>3
    <3> QED
      BY <1>8, <3>1, <3>4
  <2>6. Inside(t)
    BY <1>1, <1>3, <1>5, <2>1, <2>2 DEF Inside
  <2> QED
    BY <1>1, <1>5, <1>6, <2>3, <2>4, <2>5, <2>6 DEF Settled, NewRow
<1> QED
  BY <1>10, <1>11

\* Wherever the watchdog struck, its first character leaves the cursor on the
\* screen, with nothing below it.
LEMMA FirstChar ==
    ASSUME ConsoleAssumption, NEW r, Struck(r), NEW c, Plain(c), NEW t, t = printc(r, c)
    PROVE  Settled(t)
<1> DEFINE b == Begin(r, c)
           p == r.term_y * Width + r.term_x
           v == [r.video EXCEPT ![p] = <<c, r.attr>>]
           x == r.term_x + 1
           y == IF x >= Width THEN r.term_y + 1 ELSE r.term_y
           stored == Branch(b)
           moved  == PrintcStep(stored)
           wrap   == Wrap(moved)
           line   == IF wrap.pc = "scroll" THEN wrap ELSE PrintcStep(wrap)
           scroll == Scroll(line)
           shown  == IF scroll.pc = "move" THEN ScrollAll(scroll) ELSE scroll
<1>1. /\ Width \in Nat /\ Width > 0 /\ Height \in Nat /\ Height > 1
      /\ r.term_x \in 0 .. 2 * Width - 1 /\ r.term_y \in 0 .. Height
      /\ r.term_x \in Nat /\ r.term_y \in Nat
  BY Sizes DEF Struck
<1>2. /\ IsCon(b) /\ b.video = r.video /\ b.term_x = r.term_x /\ b.term_y = r.term_y
      /\ b.attr = r.attr /\ b.c = c /\ b.pc = "branch"
  <2>1. IsCon(r)
    BY DEF Struck
  <2> QED
    BY <2>1, BeginIs
<1> HIDE DEF b
<1>3. c \notin Controls /\ c \notin {"BS", "TAB", "CR", "NL"}
  BY DEF Plain, Controls
<1>4. /\ IsCon(stored) /\ stored.pc = "advance" /\ stored.video = v
      /\ stored.term_x = r.term_x /\ stored.term_y = r.term_y
  <2>1. stored = [b EXCEPT !.video[b.term_y * Width + b.term_x] = <<b.c, b.attr>>,
                           !.pc = "advance"]
    BY <1>2, <1>3 DEF Branch
  <2> HIDE DEF stored
  <2> QED
    BY <1>2, <2>1 DEF IsCon
<1>5. t = SetCursor(shown)
  <2>1. stored.pc # "wrap"
    BY <1>4
  <2> QED
    BY <2>1 DEF printc, b
<1> HIDE DEF stored, v
<1>6. /\ IsCon(moved) /\ moved.pc = "wrap" /\ moved.video = v
      /\ moved.term_x = x /\ moved.term_y = r.term_y
  BY <1>4 DEF PrintcStep, IsCon
<1> HIDE DEF moved
<1>7. /\ IsCon(wrap) /\ wrap.video = v /\ wrap.term_y = r.term_y
      /\ x >= Width => wrap.pc = "wrapped" /\ wrap.term_x = 0
      /\ ~(x >= Width) => wrap.pc = "scroll" /\ wrap.term_x = x
  BY <1>6 DEF Wrap, IsCon
<1> HIDE DEF wrap
<1>8. /\ IsCon(line) /\ line.video = v /\ line.term_y = y
      /\ line.term_x \in 0 .. Width - 1
  <2>1. CASE x >= Width
    <3>1. line = PrintcStep(wrap)
      BY <1>7, <2>1
    <3>2. line = [wrap EXCEPT !.term_y = r.term_y + 1, !.pc = "scroll"]
      BY <1>7, <2>1, <3>1 DEF PrintcStep
    <3> HIDE DEF line, x
    <3>3. /\ IsCon(line) /\ line.video = wrap.video /\ line.term_y = r.term_y + 1
          /\ line.term_x = wrap.term_x
      BY <1>7, <3>2 DEF IsCon
    <3>4. 0 \in 0 .. Width - 1
      BY <1>1
    <3> QED
      BY <1>7, <2>1, <3>3, <3>4
  <2>2. CASE ~(x >= Width)
    <3>1. line = wrap
      BY <1>7, <2>2
    <3>2. x \in 0 .. Width - 1
      BY <1>1, <2>2
    <3> HIDE DEF line
    <3> QED
      BY <1>7, <2>2, <3>1, <3>2
  <2> QED
    BY <2>1, <2>2
<1> HIDE DEF line
<1>9. IsVideo(v)
  <2>1. r.video = [k \in Cells |-> r.video[k]]
    BY DEF Struck, IsVideo
  <2>2. v = [k \in Cells |-> IF k = p THEN <<c, r.attr>> ELSE r.video[k]]
    BY <2>1 DEF v
  <2> QED
    BY <2>2 DEF IsVideo
<1>10. /\ IsCon(scroll) /\ scroll.video = v /\ scroll.term_y = y
       /\ scroll.term_x \in 0 .. Width - 1
       /\ scroll.pc = IF y >= Height THEN "move" ELSE "cursor"
  BY <1>8 DEF Scroll, IsCon
<1> HIDE DEF scroll
<1>11. IsCon(shown) /\ IsVideo(shown.video) /\ Inside(shown) /\ ClearBelow(shown)
  <2>1. CASE y >= Height
    <3>1. shown = ScrollAll(scroll)
      BY <1>10, <2>1
    <3>2. /\ IsCon(shown) /\ shown.term_x = scroll.term_x /\ shown.term_y = Height - 1
          /\ IsVideo(shown.video)
      BY <1>10, <3>1 DEF ScrollAll, IsCon, IsVideo
    <3>3. Inside(shown)
      BY <1>1, <1>10, <3>2 DEF Inside
    <3> HIDE DEF shown
    <3>4. (shown.term_y + 1) * Width = Height * Width /\ Height * Width \in Nat
      BY <1>1, <3>2
    <3>5. \A k \in OnScreen : ~(k >= Height * Width)
      BY <3>4 DEF OnScreen
    <3> QED
      BY <3>2, <3>3, <3>4, <3>5 DEF ClearBelow
  <2>2. CASE ~(y >= Height)
    <3>1. shown = scroll
      BY <1>10, <2>2
    <3>2. y \in 0 .. Height - 1
      BY <1>1, <2>2
    <3>3. Inside(shown)
      BY <1>10, <3>1, <3>2 DEF Inside
    <3>4. ASSUME NEW k \in OnScreen, k >= (y + 1) * Width
          PROVE  v[k][1] = Blank
      <4>1. PICK q \in Nat : q = r.term_y * Width
        BY <1>1
      <4>2. k \in Int /\ k \in Cells
        BY <1>1, Sizes DEF OnScreen
      <4>3. (r.term_y + 1) * Width = q + Width /\ (r.term_y + 1 + 1) * Width = q + Width + Width
        BY <1>1, <4>1
      <4>4. k >= q + Width /\ (x >= Width => k >= q + Width + Width)
        BY <1>1, <3>4, <4>1, <4>2, <4>3
      <4>5. k # p
        BY <1>1, <4>1, <4>2, <4>4
      <4>6. r.video[k][1] = Blank
        BY <4>3, <4>4 DEF Struck, ClearBelow
      <4>7. r.video = [j \in Cells |-> r.video[j]]
        BY DEF Struck, IsVideo
      <4>8. v[k] = r.video[k]
        BY <4>2, <4>5, <4>7 DEF v
      <4> QED
        BY <4>6, <4>8
    <3>5. ClearBelow(shown)
      BY <1>10, <3>1, <3>4 DEF ClearBelow
    <3> QED
      BY <1>9, <1>10, <3>1, <3>3, <3>5
  <2> QED
    BY <2>1, <2>2
<1> HIDE DEF shown
<1>12. /\ IsCon(t) /\ t.video = shown.video /\ t.term_x = shown.term_x
       /\ t.term_y = shown.term_y
  BY <1>5, <1>11 DEF SetCursor, IsCon
<1> QED
  BY <1>11, <1>12 DEF Settled, Inside, ClearBelow

\* Where the thread can be struck.
LEMMA StruckAnywhere ==
    ASSUME ConsoleAssumption, NEW b, NEW r, InPrintc(b, r), ClearBelow(b)
    PROVE  Struck(r)
<1>1. /\ Begun(b) /\ IsCon(r) /\ r.c = b.c /\ Places(b, r)
      /\ r.pc \in {"branch", "newline", "advance", "wrap", "wrapped", "scroll",
                   "move", "cursor", "done"}
  BY DEF InPrintc
<1>2. /\ Width \in Nat /\ Width > 0 /\ Height \in Nat /\ Height > 1
      /\ b.term_x \in Nat /\ b.term_x < Width
      /\ b.term_y \in Nat /\ b.term_y \in 0 .. Height - 1
  BY <1>1, Sizes DEF Begun, Inside
<1>3. NextX(b) \in 0 .. 2 * Width - 1
  <2>1. NextX(b) \in Nat
    BY <1>1, NextXIs
  <2>2. TabStop \in 1 .. Width /\ b.term_x % TabStop \in Nat
    BY <1>2 DEF ConsoleAssumption
  <2>3. b.term_x + TabStop - (b.term_x % TabStop) <= 2 * Width - 1
    BY <1>2, <2>2
  <2>4. NextX(b) <= 2 * Width - 1
    BY <1>2, <2>3 DEF NextX
  <2> QED
    BY <1>2, <2>1, <2>4
<1>4. WrapX(b) \in 0 .. Width - 1 /\ EndY(b) \in 0 .. Height - 1 /\ EndY(b) >= b.term_y
  <2>1. EndY(b) >= b.term_y
    BY <1>2 DEF EndY
  <2> QED
    BY <1>1, <2>1, NextXIs
<1>5. IsVideo(Put(b)) /\ \A v, n, blank : IsVideo(Up(v, n, blank))
  <2>1. IsVideo(Put(b))
    BY <1>1, PutIs
  <2> QED
    BY <2>1 DEF IsVideo, Up
<1>6. ASSUME r.video = Put(b), r.term_y \in Nat, b.term_y <= r.term_y
      PROVE  IsVideo(r.video) /\ ClearBelow(r)
  BY <1>1, <1>5, <1>6, PutBelow DEF ClearBelow
<1>7. ASSUME r.term_y >= Height - 1, r.term_y \in Nat
      PROVE  ClearBelow(r)
  <2>1. (r.term_y + 1) * Width >= Height * Width
    <3>1. CASE r.term_y + 1 = Height
      <4>1. Height * Width \in Nat
        BY <1>2
      <4> QED
        BY <3>1, <4>1
    <3>2. CASE r.term_y + 1 > Height
      <4>1. r.term_y + 1 \in Nat /\ Height < r.term_y + 1
        BY <1>2, <1>7, <3>2
      <4>2. Height * Width + Width <= (r.term_y + 1) * Width
        BY <1>2, <4>1, RowsApart
      <4>3. Height * Width \in Nat /\ (r.term_y + 1) * Width \in Nat
        BY <1>2, <4>1
      <4> QED
        BY <1>2, <4>2, <4>3
    <3> QED
      BY <1>2, <1>7, <3>1, <3>2
  <2>2. Height * Width \in Nat /\ (r.term_y + 1) * Width \in Nat
    BY <1>2, <1>7
  <2>3. \A k \in OnScreen : ~(k >= (r.term_y + 1) * Width)
    BY <2>1, <2>2 DEF OnScreen
  <2> QED
    BY <2>3 DEF ClearBelow
<1>8. CASE r.pc = "branch"
  <2>1. r = b
    BY <1>1, <1>8 DEF Places
  <2> QED
    BY <1>1, <1>2, <2>1 DEF Struck, Begun
<1>9. CASE r.pc \in {"newline", "advance", "wrap", "wrapped", "scroll"}
  <2>1. /\ r.video = Put(b) /\ r.term_x \in {0, b.term_x, NextX(b), WrapX(b)}
        /\ r.term_y \in {b.term_y, b.term_y + 1}
    BY <1>1, <1>9 DEF Places
  <2>2. /\ r.term_x \in 0 .. 2 * Width - 1 /\ r.term_y \in 0 .. Height
        /\ r.term_y \in Nat /\ b.term_y <= r.term_y
    BY <1>2, <1>3, <1>4, <2>1
  <2> QED
    BY <1>1, <1>6, <2>1, <2>2 DEF Struck
<1>10. CASE r.pc = "move"
  <2>1. r.video = Up(Put(b), r.i, r.blank) /\ r.term_x = WrapX(b) /\ r.term_y = Height
    BY <1>1, <1>10 DEF Places
  <2>2. /\ r.term_x \in 0 .. 2 * Width - 1 /\ r.term_y \in 0 .. Height
        /\ r.term_y >= Height - 1 /\ r.term_y \in Nat
    BY <1>2, <1>4, <2>1
  <2> QED
    BY <1>1, <1>5, <1>7, <2>1, <2>2 DEF Struck
<1>11. CASE r.pc \in {"cursor", "done"}
  <2>1. r.video = Shown(b) /\ r.term_x = WrapX(b) /\ r.term_y = EndY(b)
    BY <1>1, <1>11 DEF Places
  <2>2. /\ r.term_x \in 0 .. 2 * Width - 1 /\ r.term_y \in 0 .. Height
        /\ r.term_y \in Nat /\ b.term_y <= r.term_y
    BY <1>2, <1>4, <2>1
  <2>3. CASE Scrolls(b)
    <3>1. r.term_y = Height - 1 /\ IsVideo(r.video)
      BY <1>5, <2>1, <2>3 DEF Scrolls, EndY, Shown
    <3>2. r.term_y >= Height - 1
      BY <1>2, <3>1
    <3> QED
      BY <1>1, <1>7, <2>2, <3>1, <3>2 DEF Struck
  <2>4. CASE ~Scrolls(b)
    <3>1. r.video = Put(b)
      BY <2>1, <2>4 DEF Shown
    <3> QED
      BY <1>1, <1>6, <2>2, <3>1 DEF Struck
  <2> QED
    BY <2>3, <2>4
<1> QED
  BY <1>1, <1>8, <1>9, <1>10, <1>11

\* What a klog and what the handler prints, item by item.
AreItems(title, text, m, n) ==
    /\ m \in Nat /\ n \in Nat \ {0} /\ m + n <= Width
    /\ Items(title, text) \in Seq(Things) /\ Len(Items(title, text)) = m + n + 2
    /\ Items(title, text)[1] = SetTitle /\ Items(title, text)[m + 2] = SetReset
    /\ \A k \in 1 .. m : Items(title, text)[k + 1] = title[k]
    /\ \A k \in 1 .. n : Items(title, text)[m + 2 + k] = text[k]

LEMMA ItemsAre ==
    ASSUME NEW title, NEW text, FitsRow(title, text),
           NEW m, m = Len(title), NEW n, n = Len(text)
    PROVE  AreItems(title, text, m, n)
<1>1. /\ title \in Seq(Things) /\ text \in Seq(Things) /\ m \in Nat /\ n \in Nat \ {0}
      /\ m + n <= Width
  BY DEF FitsRow, IsLine, Things
<1>2. <<SetTitle>> \in Seq(Things) /\ <<SetReset>> \in Seq(Things)
  BY DEF Things
<1> QED
  BY <1>1, <1>2 DEF Items, AreItems

LEMMA JoinedAt ==
    ASSUME NEW S, NEW p \in Seq(S), NEW q \in Seq(S),
           NEW m, m = Len(p), NEW n, n = Len(q), NEW r, r = p \o q
    PROVE  /\ r \in Seq(S) /\ Len(r) = m + n
           /\ \A k \in 1 .. m : r[k] = p[k]
           /\ \A k \in 1 .. n : r[m + k] = q[k]
OBVIOUS

LEMMA ToldIs ==
    ASSUME ConsoleAssumption, PanicFits
    PROVE  Told = Warning \o (Items(PanicTitle, Reason) \o Items(HaltTitle, HaltText))
<1>1. klog_mask \in Nat /\ ~(LOG_INFO > klog_mask) /\ ~(LOG_PANIC > klog_mask)
  BY DEF ConsoleAssumption, PanicFits, LOG_INFO, LOG_PANIC
<1>2. klog(LOG_PANIC, PanicTitle, Reason) = Items(PanicTitle, Reason)
  BY <1>1 DEF klog, Items, LOG_PANIC, LOG_OK, LOG_FAIL
<1>3. klog(LOG_INFO, HaltTitle, HaltText) = Items(HaltTitle, HaltText)
  BY <1>1 DEF klog, Items, LOG_INFO, LOG_OK, LOG_FAIL
<1> QED
  BY <1>2, <1>3 DEF Told, panic

LEMMA ToldAre ==
    ASSUME ConsoleAssumption, PanicFits
    PROVE  /\ OfPanic \in Nat /\ OfPanic >= 2 /\ OfPanic <= Width
           /\ OfHalt \in Nat /\ OfPanic < OfHalt /\ AllTold \in Nat /\ OfHalt < AllTold
           /\ Told \in Seq(Things) /\ Len(Told) = AllTold
           /\ \A k \in 1 .. OfPanic : Told[k] = Warning[k]
           /\ \A k \in 1 .. OfHalt - OfPanic :
                 Told[OfPanic + k] = Items(PanicTitle, Reason)[k]
           /\ \A k \in 1 .. AllTold - OfHalt :
                 Told[OfHalt + k] = Items(HaltTitle, HaltText)[k]
<1> DEFINE p == Items(PanicTitle, Reason)
           h == Items(HaltTitle, HaltText)
<1>1. PICK w : w = Len(Warning)
  OBVIOUS
<1>2. PICK m : m = Len(p)
  OBVIOUS
<1>3. PICK n : n = Len(h)
  OBVIOUS
<1>4. /\ p \in Seq(Things) /\ m \in Nat /\ m >= 2
      /\ Len(PanicTitle) \in Nat /\ Len(Reason) \in Nat
      /\ m = Len(PanicTitle) + Len(Reason) + 2
  <2>1. FitsRow(PanicTitle, Reason)
    BY DEF PanicFits
  <2>2. PICK g, j : g = Len(PanicTitle) /\ j = Len(Reason)
    OBVIOUS
  <2>3. g \in Nat /\ j \in Nat \ {0} /\ p \in Seq(Things) /\ Len(p) = g + j + 2
    BY <2>1, <2>2, ItemsAre DEF AreItems
  <2> QED
    BY <1>2, <2>2, <2>3
<1>5. /\ h \in Seq(Things) /\ n \in Nat /\ n >= 2
      /\ Len(HaltTitle) \in Nat /\ Len(HaltText) \in Nat
      /\ n = Len(HaltTitle) + Len(HaltText) + 2
  <2>1. FitsRow(HaltTitle, HaltText)
    BY DEF PanicFits
  <2>2. PICK g, j : g = Len(HaltTitle) /\ j = Len(HaltText)
    OBVIOUS
  <2>3. g \in Nat /\ j \in Nat \ {0} /\ h \in Seq(Things) /\ Len(h) = g + j + 2
    BY <2>1, <2>2, ItemsAre DEF AreItems
  <2> QED
    BY <1>3, <2>2, <2>3
<1>6. Warning \in Seq(Things) /\ w \in Nat /\ w >= 2 /\ w <= Width
  BY <1>1, Sizes DEF PanicFits, IsLine, Things
<1>7. OfPanic = w /\ OfHalt = w + m /\ AllTold = w + m + n
  BY <1>1, <1>4, <1>5, <1>6 DEF OfPanic, OfHalt, AllTold
<1>8. Told = Warning \o (p \o h)
  BY ToldIs
<1> HIDE DEF p, h
<1>9. PICK q : q = p \o h
  OBVIOUS
<1>10. /\ q \in Seq(Things) /\ Len(q) = m + n
       /\ \A k \in 1 .. m : q[k] = p[k]
       /\ \A k \in 1 .. n : q[m + k] = h[k]
  <2>1. p \in Seq(Things) /\ h \in Seq(Things)
    BY <1>4, <1>5
  <2> QED
    BY <1>2, <1>3, <1>9, <2>1, JoinedAt
<1>11. /\ m + n = Len(q) /\ w + (m + n) = w + m + n
  BY <1>4, <1>5, <1>6, <1>10
<1>12. /\ Told \in Seq(Things) /\ Len(Told) = w + m + n
       /\ \A k \in 1 .. w : Told[k] = Warning[k]
       /\ \A k \in 1 .. m + n : Told[w + k] = q[k]
  <2>1. /\ Warning \in Seq(Things) /\ q \in Seq(Things) /\ Told = Warning \o q
        /\ m + n = Len(q)
    BY <1>6, <1>8, <1>9, <1>10, <1>11
  <2>2. /\ Told \in Seq(Things) /\ Len(Told) = w + (m + n)
        /\ \A k \in 1 .. w : Told[k] = Warning[k]
        /\ \A k \in 1 .. m + n : Told[w + k] = q[k]
    BY <1>1, <2>1, JoinedAt
  <2> QED
    BY <1>11, <2>2
<1>13. \A k \in 1 .. m : Told[w + k] = p[k]
  <2>1. \A k \in 1 .. m : k \in 1 .. m + n
    BY <1>4, <1>5
  <2> QED
    BY <1>10, <1>12, <2>1
<1>14. \A k \in 1 .. n : Told[w + m + k] = h[k]
  <2> SUFFICES ASSUME NEW k \in 1 .. n PROVE Told[w + m + k] = h[k]
    OBVIOUS
  <2>1. m + k \in 1 .. m + n /\ w + m + k = w + (m + k) /\ 1 \in 1 .. m
    BY <1>4, <1>5, <1>6
  <2> QED
    BY <1>10, <1>12, <2>1
<1>15. w \in Nat /\ m \in Nat /\ n \in Nat /\ m >= 2 /\ n >= 2
  BY <1>4, <1>5, <1>6
<1>16. (w + m) - w = m /\ (w + m + n) - (w + m) = n /\ w < w + m /\ w + m < w + m + n
  BY <1>15
<1>17. /\ OfPanic \in Nat /\ OfPanic >= 2 /\ OfPanic <= Width
       /\ OfHalt \in Nat /\ OfPanic < OfHalt /\ AllTold \in Nat /\ OfHalt < AllTold
       /\ OfHalt - OfPanic = m /\ AllTold - OfHalt = n
  BY <1>6, <1>7, <1>15, <1>16
<1>18. Told \in Seq(Things) /\ Len(Told) = AllTold
  BY <1>7, <1>12
<1>19. \A k \in 1 .. OfPanic : Told[k] = Warning[k]
  BY <1>7, <1>12
<1>20. \A k \in 1 .. OfHalt - OfPanic : Told[OfPanic + k] = p[k]
  BY <1>7, <1>13, <1>17
<1>21. \A k \in 1 .. AllTold - OfHalt : Told[OfHalt + k] = h[k]
  BY <1>7, <1>14, <1>17
<1> QED
  BY <1>17, <1>18, <1>19, <1>20, <1>21, Zenon DEF p, h

LEMMA SameSeq ==
    ASSUME NEW S, NEW p \in Seq(S), NEW q \in Seq(S), Len(p) = Len(q),
           \A k \in 1 .. Len(q) : p[k] = q[k]
    PROVE  p = q
OBVIOUS

\* The rest of a text, and what is left of it behind its first item.
LEMMA RestIs ==
    ASSUME NEW S, NEW s \in Seq(S), NEW n, n = Len(s), NEW d \in 0 .. n
    PROVE  /\ SubSeq(s, d + 1, n) = <<>> <=> d = n
           /\ d < n => /\ Head(SubSeq(s, d + 1, n)) = s[d + 1]
                       /\ Tail(SubSeq(s, d + 1, n)) = SubSeq(s, d + 2, n)
<1>1. n \in Nat
  OBVIOUS
<1>2. CASE d = n
  <2>1. SubSeq(s, n + 1, n) = <<>>
    BY <1>1
  <2> QED
    BY <1>2, <2>1
<1>3. CASE d < n
  <2> DEFINE r == SubSeq(s, d + 1, n)
             q == SubSeq(s, d + 2, n)
  <2>1. /\ r \in Seq(S) /\ Len(r) = n - d /\ \A k \in 1 .. n - d : r[k] = s[d + k]
    BY <1>1, <1>3
  <2>2. /\ q \in Seq(S) /\ Len(q) = n - d - 1
        /\ \A k \in 1 .. n - d - 1 : q[k] = s[d + 1 + k]
    BY <1>1, <1>3
  <2> HIDE DEF r, q
  <2>3. r # <<>> /\ Head(r) = s[d + 1]
    BY <1>1, <1>3, <2>1
  <2>4. /\ Tail(r) \in Seq(S) /\ Len(Tail(r)) = Len(r) - 1
        /\ \A k \in 1 .. Len(Tail(r)) : Tail(r)[k] = r[k + 1]
    BY <2>1, <2>3, TailIs
  <2>5. Len(Tail(r)) = n - d - 1
    BY <1>1, <2>1, <2>4
  <2>6. ASSUME NEW k \in 1 .. n - d - 1 PROVE Tail(r)[k] = q[k]
    <3>1. k + 1 \in 1 .. n - d /\ d + (k + 1) = d + 1 + k
      BY <1>1
    <3> QED
      BY <2>1, <2>2, <2>4, <2>5, <3>1
  <2>7. Tail(r) = q
    <3>1. /\ Tail(r) \in Seq(S) /\ q \in Seq(S) /\ Len(Tail(r)) = Len(q)
          /\ \A k \in 1 .. Len(q) : Tail(r)[k] = q[k]
      BY <2>2, <2>4, <2>6, <2>5
    <3> QED
      BY <3>1, SameSeq
  <2> QED
    BY <1>3, <2>3, <2>7 DEF r, q
<1> QED
  BY <1>1, <1>2, <1>3

\* The rows above the cursor do not change while its row is printed.
SameAbove(r, t) ==
    /\ t.term_y = r.term_y
    /\ \A d \in 1 .. r.term_y, x \in 0 .. Width - 1 : Above(t, d, x) = Above(r, d, x)

LEMMA AboveKeeps ==
    ASSUME ConsoleAssumption, NEW r, NEW t, Inside(r), SameAbove(r, t)
    PROVE  /\ \A m \in Nat : Kept(r, m) => Kept(t, m)
           /\ \A title, text : Shows(r, 1, title, text) => Shows(t, 1, title, text)
<1>1. r.term_y \in Nat /\ t.term_y = r.term_y /\ Width \in Nat
  BY Sizes DEF Inside, SameAbove
<1>2. ASSUME NEW m \in Nat, Kept(r, m) PROVE Kept(t, m)
  <2>0. PICK s \in Int : \A k \in 2 .. Len(Warning) - 1 : KeptAt(r, m, s, k)
    BY <1>2 DEF Kept
  <2> SUFFICES ASSUME NEW k \in 2 .. Len(Warning) - 1
               PROVE  KeptAt(t, m, s, k)
    BY DEF Kept
  <2>1. PICK d \in 1 .. m, x \in 0 .. Width - 1 :
           /\ d <= r.term_y /\ Above(r, d, x)[1] = Warning[k]
           /\ d * Width - x = s - k
    BY <2>0 DEF KeptAt
  <2>2. d \in 1 .. r.term_y
    BY <1>1, <2>1
  <2>3. Above(t, d, x) = Above(r, d, x)
    BY <2>2 DEF SameAbove
  <2> QED
    BY <1>1, <2>1, <2>3 DEF KeptAt
<1>3. ASSUME NEW title, NEW text, Shows(r, 1, title, text)
      PROVE  Shows(t, 1, title, text)
  <2>1. 1 <= r.term_y /\ 1 \in 1 .. r.term_y
    BY <1>1, <1>3 DEF Shows
  <2>2. \A x \in 1 .. Width : x - 1 \in 0 .. Width - 1
    BY <1>1
  <2>3. \A x \in 1 .. Width : Above(t, 1, x - 1) = Above(r, 1, x - 1)
    BY <2>1, <2>2 DEF SameAbove
  <2> QED
    BY <1>1, <1>3, <2>1, <2>3 DEF Shows
<1> QED
  BY <1>2, <1>3

\* A newline takes them one row further from the cursor.
LEMMA NewRowKeeps ==
    ASSUME ConsoleAssumption, NEW r, NEW t, Inside(r), NewRow(r, "NL", t)
    PROVE  /\ \A m \in 0 .. Height - 2 : Kept(r, m) => Kept(t, m + 1)
           /\ \A title, text : Height > 2 /\ Shows(r, 1, title, text) =>
                 Shows(t, 2, title, text)
<1>1. /\ r.term_y \in 0 .. Height - 1 /\ r.term_y \in Nat /\ Width \in Nat /\ Height \in Nat
      /\ Height > 1
      /\ t.term_y = IF r.term_y = Height - 1 THEN Height - 1 ELSE r.term_y + 1
  BY Sizes DEF Inside, NewRow
<1>2. \A d \in 0 .. r.term_y, x \in 0 .. Width - 1 :
         d + 1 <= t.term_y => Above(t, d + 1, x) = Above(r, d, x)
  BY DEF NewRow
<1>3. ASSUME NEW m \in 0 .. Height - 2, Kept(r, m) PROVE Kept(t, m + 1)
  <2>0. PICK s \in Int : \A k \in 2 .. Len(Warning) - 1 : KeptAt(r, m, s, k)
    BY <1>3 DEF Kept
  <2>s. s + Width \in Int
    BY <1>1
  <2> SUFFICES ASSUME NEW k \in 2 .. Len(Warning) - 1
               PROVE  KeptAt(t, m + 1, s + Width, k)
    BY <2>s DEF Kept
  <2>1. PICK d \in 1 .. m, x \in 0 .. Width - 1 :
           /\ d <= r.term_y /\ Above(r, d, x)[1] = Warning[k]
           /\ d * Width - x = s - k
    BY <2>0 DEF KeptAt
  <2>2. d \in 0 .. r.term_y /\ d + 1 <= t.term_y /\ d + 1 \in 1 .. m + 1
    BY <1>1, <2>1
  <2>3. Above(t, d + 1, x) = Above(r, d, x)
    BY <1>2, <2>2
  <2>4. (d + 1) * Width - x = (s + Width) - k
    <3>1. d \in Int /\ x \in Int /\ Width \in Int /\ k \in Int
      BY <1>1
    <3>2. PICK p \in Int : p = d * Width
      BY <3>1, OneRow
    <3>3. (d + 1) * Width = p + Width
      BY <3>1, <3>2, OneRow
    <3>4. p - x = s - k
      BY <3>2, <2>1
    <3> QED
      BY <3>1, <3>3, <3>4
  <2>5. PICK e \in 1 .. m + 1 : e = d + 1
    BY <2>2
  <2>6. /\ e <= t.term_y /\ Above(t, e, x)[1] = Warning[k]
        /\ e * Width - x = (s + Width) - k
    BY <2>1, <2>2, <2>3, <2>4, <2>5
  <2> QED
    BY <2>6 DEF KeptAt
<1>4. ASSUME NEW title, NEW text, Height > 2, Shows(r, 1, title, text)
      PROVE  Shows(t, 2, title, text)
  <2>1. 1 \in 0 .. r.term_y /\ 2 <= t.term_y /\ 1 + 1 = 2
    BY <1>1, <1>4 DEF Shows
  <2>2. \A x \in 1 .. Width : x - 1 \in 0 .. Width - 1
    BY <1>1
  <2>3. \A x \in 1 .. Width : Above(t, 2, x - 1) = Above(r, 1, x - 1)
    BY <1>2, <2>1, <2>2
  <2> QED
    BY <1>4, <2>1, <2>3 DEF Shows
<1> QED
  BY <1>3, <1>4

\* In the new row a klog can begin.
LEMMA NewRowEmpty ==
    ASSUME ConsoleAssumption, NEW r, NEW c, NEW t, NewRow(r, c, t), NEW title, NEW text
    PROVE  InLine(t, title, text, 0)
<1>1. Width \in Nat /\ \A x \in 1 .. Width : x - 1 \in 0 .. Width - 1 /\ ~(x <= 0)
  BY Sizes
<1>2. t.term_x = 0 /\ \A x \in 0 .. Width - 1 : Above(t, 0, x)[1] = Blank
  BY DEF NewRow
<1>3. Printed(title, 0) = 0
  BY DEF Printed
<1> QED
  BY <1>1, <1>2, <1>3 DEF InLine

\* The characters of the warning.
LEMMA WarningGoesOn ==
    ASSUME ConsoleAssumption, PanicFits, NEW r, Settled(r),
           NEW n \in 1 .. Len(Warning) - 2, Warned(r, n), NEW t, t = printc(r, Warning[n + 1])
    PROVE  Settled(t) /\ Warned(t, n + 1)
<1> DEFINE c == Warning[n + 1]
<1>1. PICK w \in Nat : w = Len(Warning) /\ w >= 2 /\ w <= Width
  BY Sizes DEF PanicFits
<1>2. Plain(c) /\ c # "NL"
  <2>1. n + 1 \in 1 .. Len(Warning) - 1
    BY <1>1
  <2>2. Plain(c)
    BY <2>1 DEF PanicFits, IsLine
  <2> QED
    BY <2>2 DEF Plain, Controls
<1> HIDE DEF c
<1>3. /\ Width \in Nat /\ Height \in Nat /\ Height > 1 /\ r.term_x \in 0 .. Width - 1
      /\ r.term_y \in 0 .. Height - 1 /\ r.term_y \in Nat /\ n \in Nat /\ n + 2 <= w /\ n >= 1
  BY <1>1, Sizes DEF Settled, Inside
<1>4. t = printc(r, c)
  BY DEF c
<1>5. ASSUME NEW k \in 2 .. n
      PROVE  \E d \in {0, 1}, x \in 0 .. Width - 1 :
                /\ d <= r.term_y /\ Above(r, d, x)[1] = Warning[k]
                /\ (IF d = 0 THEN 0 ELSE Width) + r.term_x - x = n - k + 1
  BY DEF Warned
<1>6. CASE r.term_x + 1 < Width
  <2>1. Settled(t) /\ SameRow(r, c, t)
    BY <1>2, <1>4, <1>6, CharInRow
  <2>2. /\ t.term_x = r.term_x + 1 /\ t.term_y = r.term_y
        /\ \A d \in 0 .. r.term_y, x \in 0 .. Width - 1 :
              Above(t, d, x) = IF d = 0 /\ x = r.term_x THEN <<c, r.attr>>
                               ELSE Above(r, d, x)
    BY <2>1 DEF SameRow
  <2>3. ASSUME NEW k \in 2 .. n + 1
        PROVE  \E d \in {0, 1}, x \in 0 .. Width - 1 :
                  /\ d <= t.term_y /\ Above(t, d, x)[1] = Warning[k]
                  /\ (IF d = 0 THEN 0 ELSE Width) + t.term_x - x = (n + 1) - k + 1
    <3>1. CASE k = n + 1
      <4>1. Above(t, 0, r.term_x) = <<c, r.attr>>
        BY <1>3, <2>2
      <4>2. Above(t, 0, r.term_x)[1] = Warning[k]
        BY <3>1, <4>1 DEF c
      <4>3. 0 <= t.term_y /\ 0 + t.term_x - r.term_x = (n + 1) - k + 1
        BY <1>3, <2>2, <3>1
      <4> QED
        BY <1>3, <4>2, <4>3
    <3>2. CASE k # n + 1
      <4>1. k \in 2 .. n
        BY <1>3, <3>2
      <4>2. PICK d \in {0, 1}, x \in 0 .. Width - 1 :
               /\ d <= r.term_y /\ Above(r, d, x)[1] = Warning[k]
               /\ (IF d = 0 THEN 0 ELSE Width) + r.term_x - x = n - k + 1
        BY <1>5, <4>1
      <4>3. d \in 0 .. r.term_y /\ ~(d = 0 /\ x = r.term_x)
        BY <1>3, <4>1, <4>2
      <4>4. Above(t, d, x) = Above(r, d, x)
        BY <2>2, <4>3
      <4>5. (IF d = 0 THEN 0 ELSE Width) + t.term_x - x = (n + 1) - k + 1
        <5>1. PICK e \in Nat : e = IF d = 0 THEN 0 ELSE Width
          BY <1>3
        <5>2. e + r.term_x - x = n - k + 1
          BY <4>2, <5>1
        <5>3. e + t.term_x - x = (n + 1) - k + 1
          <6>1. r.term_x \in Int /\ x \in Int /\ k \in Int /\ n \in Int
            BY <1>3, <4>1
          <6>2. t.term_x = r.term_x + 1
            BY <2>2
          <6> QED
            BY <5>2, <6>1, <6>2
        <5> QED
          BY <5>1, <5>3
      <4> QED
        BY <2>2, <4>2, <4>4, <4>5
    <3> QED
      BY <3>1, <3>2
  <2> QED
    BY <2>1, <2>3 DEF Warned
<1>7. CASE ~(r.term_x + 1 < Width)
  <2>1. r.term_x + 1 = Width
    BY <1>3, <1>7
  <2>2. Settled(t) /\ NewRow(r, c, t)
    BY <1>2, <1>4, <2>1, CharDown
  <2>3. /\ t.term_x = 0
        /\ t.term_y = IF r.term_y = Height - 1 THEN Height - 1 ELSE r.term_y + 1
        /\ \A d \in 0 .. r.term_y, x \in 0 .. Width - 1 : d + 1 <= t.term_y =>
              Above(t, d + 1, x) = IF d = 0 /\ x = r.term_x
                                   THEN <<c, r.attr>> ELSE Above(r, d, x)
    BY <1>2, <2>2 DEF NewRow
  <2>4. 0 \in 0 .. r.term_y /\ 0 + 1 = 1 /\ 1 <= t.term_y
    BY <1>3, <2>3
  <2>5. ASSUME NEW k \in 2 .. n + 1
        PROVE  \E d \in {0, 1}, x \in 0 .. Width - 1 :
                  /\ d <= t.term_y /\ Above(t, d, x)[1] = Warning[k]
                  /\ (IF d = 0 THEN 0 ELSE Width) + t.term_x - x = (n + 1) - k + 1
    <3> SUFFICES \E x \in 0 .. Width - 1 :
                    /\ Above(t, 1, x)[1] = Warning[k]
                    /\ Width + t.term_x - x = (n + 1) - k + 1
      BY <2>4
    <3>1. CASE k = n + 1
      <4>1. Above(t, 1, r.term_x) = <<c, r.attr>>
        BY <1>3, <2>3, <2>4
      <4>2. Above(t, 1, r.term_x)[1] = Warning[k]
        BY <3>1, <4>1 DEF c
      <4>3. Width + t.term_x - r.term_x = (n + 1) - k + 1
        BY <1>3, <2>1, <2>3, <3>1
      <4> QED
        BY <1>3, <4>2, <4>3
    <3>2. CASE k # n + 1
      <4>1. k \in 2 .. n
        BY <1>3, <3>2
      <4>2. PICK d \in {0, 1}, x \in 0 .. Width - 1 :
               /\ d <= r.term_y /\ Above(r, d, x)[1] = Warning[k]
               /\ (IF d = 0 THEN 0 ELSE Width) + r.term_x - x = n - k + 1
        BY <1>5, <4>1
      <4>3. d = 0 /\ x # r.term_x
        <5>1. n - k + 1 \in Nat /\ n - k + 1 >= 1 /\ n - k + 1 < Width
          <6>1. n \in Nat /\ n + 2 <= w /\ w \in Nat /\ w <= Width /\ Width \in Nat
            BY <1>1, <1>3
          <6>2. n < Width
            BY <6>1
          <6>3. k \in Nat /\ 2 <= k /\ k <= n
            BY <4>1, <6>1
          <6> QED
            BY <6>1, <6>2, <6>3
        <5>2. CASE d = 1
          <6>1. Width + r.term_x - x = n - k + 1
            BY <4>2, <5>2
          <6>2. Width + r.term_x - x >= Width
            BY <1>3, <2>1
          <6> QED
            BY <1>3, <5>1, <6>1, <6>2
        <5>3. CASE d = 0
          <6>1. 0 + r.term_x - x = n - k + 1
            BY <4>2, <5>3
          <6>2. x # r.term_x
            BY <1>3, <5>1, <6>1
          <6> QED
            BY <5>3, <6>2
        <5> QED
          BY <5>2, <5>3
      <4>4. Above(t, 1, x) = Above(r, 0, x)
        BY <2>3, <2>4, <4>3
      <4>5. Width + t.term_x - x = (n + 1) - k + 1
        BY <1>3, <2>1, <2>3, <4>1, <4>2, <4>3
      <4> QED
        BY <4>2, <4>3, <4>4, <4>5
    <3> QED
      BY <3>1, <3>2
  <2> QED
    BY <2>2, <2>5 DEF Warned
<1> QED
  BY <1>6, <1>7

\* Its newline.
LEMMA WarningEnds ==
    ASSUME ConsoleAssumption, PanicFits, NEW r, Settled(r), Warned(r, Len(Warning) - 1),
           NEW t, t = printc(r, "NL"), NEW title, NEW text
    PROVE  Settled(t) /\ Kept(t, 2) /\ InLine(t, title, text, 0)
<1>1. Settled(t) /\ NewRow(r, "NL", t)
  BY CharDown
<1>2. InLine(t, title, text, 0)
  BY <1>1, NewRowEmpty
<1>3. /\ Height \in Nat /\ Height >= 5 /\ r.term_y \in 0 .. Height - 1
      /\ Width \in Nat /\ r.term_x \in 0 .. Width - 1 /\ Len(Warning) \in Nat
  BY Sizes DEF Settled, Inside, PanicFits
<1>4. /\ t.term_y = IF r.term_y = Height - 1 THEN Height - 1 ELSE r.term_y + 1
      /\ \A d \in 0 .. r.term_y, x \in 0 .. Width - 1 :
            d + 1 <= t.term_y => Above(t, d + 1, x) = Above(r, d, x)
  BY <1>1 DEF NewRow
<1>6. PICK n \in Int, c \in Int, w \in Int :
         n = Len(Warning) /\ c = r.term_x /\ w = Width
  BY <1>3
<1>7. PICK s \in Int : s = w + n - c
  OBVIOUS
<1>5. ASSUME NEW k \in 2 .. Len(Warning) - 1 PROVE KeptAt(t, 2, s, k)
  <2>1. PICK d \in {0, 1}, x \in 0 .. Width - 1 :
           /\ d <= r.term_y /\ Above(r, d, x)[1] = Warning[k]
           /\ (IF d = 0 THEN 0 ELSE Width) + r.term_x - x = (Len(Warning) - 1) - k + 1
    BY DEF Warned
  <2>2. d \in 0 .. r.term_y /\ d + 1 <= t.term_y /\ d + 1 \in 1 .. 2
    BY <1>3, <1>4, <2>1
  <2>3. Above(t, d + 1, x) = Above(r, d, x)
    BY <1>4, <2>2
  <2>4. (d + 1) * Width - x = s - k
    <3>1. PICK p \in Int : p = (d + 1) * Width
      BY <1>3, <2>1, OneRow
    <3>2. PICK q \in Int : q = IF d = 0 THEN 0 ELSE Width
      BY <1>3
    <3>6. p = q + Width
      <4>1. CASE d = 0
        BY <4>1, <3>1, <3>2, <1>3
      <4>2. CASE d = 1
        BY <4>2, <3>1, <3>2, <1>3
      <4> QED
        BY <4>1, <4>2
    <3>3. x \in Int /\ k \in Int
      BY <1>3
    <3>4. q + c - x = (n - 1) - k + 1 /\ p = q + w
      BY <2>1, <3>2, <3>6, <1>6
    <3>5. p - x = s - k
      BY <3>3, <3>4, <1>7
    <3> QED
      BY <3>1, <3>5
  <2>5. PICK e \in 1 .. 2 : e = d + 1
    BY <2>2
  <2>6. /\ e <= t.term_y /\ Above(t, e, x)[1] = Warning[k]
        /\ e * Width - x = s - k
    BY <2>1, <2>2, <2>3, <2>4, <2>5
  <2> QED
    BY <2>6 DEF KeptAt
<1> QED
  BY <1>1, <1>2, <1>5 DEF Kept

\* A change of the attribute changes nothing else.
LEMMA AttrIs ==
    ASSUME NEW r, Settled(r), NEW item, NEW t, t = SetAttr(r, item)
    PROVE  /\ Settled(t) /\ t.attr = IF item = SetTitle THEN Title ELSE Default
           /\ t.term_x = r.term_x /\ t.term_y = r.term_y
           /\ \A d, x : Above(t, d, x) = Above(r, d, x)
<1>1. IsCon(r)
  BY DEF Settled
<1>2. /\ IsCon(t) /\ t.attr = IF item = SetTitle THEN Title ELSE Default
      /\ t.term_x = r.term_x /\ t.term_y = r.term_y /\ t.video = r.video
  BY <1>1 DEF IsCon, SetAttr
<1> QED
  BY <1>2 DEF Settled, Inside, ClearBelow, Above

\* A character of a klog.
LEMMA CharOfLine ==
    ASSUME ConsoleAssumption, NEW r, Settled(r), NEW title, NEW text,
           NEW e \in Nat, e > 0, InLine(r, title, text, e),
           NEW x, x = Printed(title, e), x \in Nat, x + 1 < Width,
           Printed(title, e + 1) = x + 1,
           e <= Len(title) + 1 <=> e + 1 <= Len(title) + 1,
           NEW c, Plain(c), <<c, r.attr>> = Glyph(title, text, x + 1),
           NEW t, t = printc(r, c)
    PROVE  Settled(t) /\ InLine(t, title, text, e + 1) /\ SameAbove(r, t)
<1>1. r.term_x = x
  BY DEF InLine
<1>2. Settled(t) /\ SameRow(r, c, t)
  BY <1>1, CharInRow
<1>3. /\ Width \in Nat /\ r.term_y \in Nat
      /\ \A z \in 1 .. Width : z - 1 \in 0 .. Width - 1 /\ z \in Nat
  BY Sizes DEF Settled, Inside
<1>4. /\ t.term_x = x + 1 /\ t.term_y = r.term_y /\ t.attr = r.attr
      /\ \A d \in 0 .. r.term_y, z \in 0 .. Width - 1 :
            Above(t, d, z) = IF d = 0 /\ z = x THEN <<c, r.attr>> ELSE Above(r, d, z)
  BY <1>1, <1>2 DEF SameRow
<1>5. SameAbove(r, t)
  <2>1. \A d \in 1 .. r.term_y : d \in 0 .. r.term_y /\ d # 0
    BY <1>3
  <2> QED
    BY <1>4, <2>1 DEF SameAbove
<1>6. ASSUME NEW z \in 1 .. Width
      PROVE  IF z <= x + 1 THEN Above(t, 0, z - 1) = Glyph(title, text, z)
             ELSE Above(t, 0, z - 1)[1] = Blank
  <2>1. 0 \in 0 .. r.term_y /\ (z - 1 = x <=> z = x + 1)
    BY <1>3
  <2>2. Above(t, 0, z - 1) = IF z = x + 1 THEN <<c, r.attr>> ELSE Above(r, 0, z - 1)
    BY <1>3, <1>4, <2>1
  <2>3. IF z <= x THEN Above(r, 0, z - 1) = Glyph(title, text, z)
        ELSE Above(r, 0, z - 1)[1] = Blank
    BY DEF InLine
  <2>4. z <= x + 1 <=> z <= x \/ z = x + 1
    BY <1>3
  <2> QED
    BY <2>2, <2>3, <2>4
<1>7. e + 1 > 0 /\ r.attr = IF e + 1 <= Len(title) + 1 THEN Title ELSE Default
  BY DEF InLine
<1>8. InLine(t, title, text, e + 1)
  BY <1>4, <1>6, <1>7 DEF InLine
<1> QED
  BY <1>2, <1>5, <1>8

\* The items of a klog up to its newline.
LEMMA LineGoesOn ==
    ASSUME ConsoleAssumption, NEW r, Settled(r), NEW title, NEW text, FitsRow(title, text),
           NEW e \in 0 .. Len(title) + Len(text), InLine(r, title, text, e),
           NEW t, t = Perform(r, Items(title, text)[e + 1])
    PROVE  Settled(t) /\ InLine(t, title, text, e + 1) /\ SameAbove(r, t)
<1> DEFINE item == Items(title, text)[e + 1]
<1>1. PICK m, n : m = Len(title) /\ n = Len(text)
  OBVIOUS
<1>2. AreItems(title, text, m, n)
  BY <1>1, ItemsAre
<1>3. /\ m \in Nat /\ n \in Nat \ {0} /\ m + n <= Width /\ e \in Nat /\ e <= m + n
      /\ Width \in Nat
  BY <1>1, <1>2, Sizes DEF AreItems
<1>4. /\ Items(title, text)[1] = SetTitle /\ Items(title, text)[m + 2] = SetReset
      /\ \A k \in 1 .. m : Items(title, text)[k + 1] = title[k]
      /\ \A k \in 1 .. n : Items(title, text)[m + 2 + k] = text[k]
  BY <1>2 DEF AreItems
<1>5. /\ \A k \in 1 .. m : Plain(title[k])
      /\ \A k \in 1 .. n - 1 : Plain(text[k])
  BY <1>1 DEF FitsRow, IsLine
<1>6. \A c : Plain(c) => Perform(r, c) = printc(r, c)
  BY DEF Plain, Perform
<1> HIDE DEF item
<1>7. ASSUME item \in {SetTitle, SetReset}, Printed(title, e + 1) = Printed(title, e),
             (item = SetTitle) <=> (e + 1 <= m + 1)
      PROVE  Settled(t) /\ InLine(t, title, text, e + 1) /\ SameAbove(r, t)
  <2>1. t = SetAttr(r, item)
    BY <1>7 DEF Perform, item
  <2>2. /\ Settled(t) /\ t.attr = IF item = SetTitle THEN Title ELSE Default
        /\ t.term_x = r.term_x /\ t.term_y = r.term_y
        /\ \A d, x : Above(t, d, x) = Above(r, d, x)
    BY <2>1, AttrIs
  <2>3. SameAbove(r, t)
    BY <2>2 DEF SameAbove
  <2>4. t.attr = IF e + 1 <= Len(title) + 1 THEN Title ELSE Default
    BY <1>1, <1>7, <2>2
  <2>5. InLine(t, title, text, e + 1)
    BY <1>7, <2>2, <2>4 DEF InLine
  <2> QED
    BY <2>2, <2>3, <2>5
<1>8. CASE e = 0
  <2>1. item = SetTitle /\ Printed(title, e + 1) = 0 /\ Printed(title, e) = 0
    BY <1>1, <1>3, <1>4, <1>8 DEF item, Printed
  <2>2. e + 1 <= m + 1
    BY <1>3, <1>8
  <2> QED
    BY <1>7, <2>1, <2>2
<1>9. CASE e = m + 1
  <2>1. e + 1 = m + 2 /\ ~(e + 1 <= m + 1) /\ e # 0 /\ e <= m + 1 /\ e - 1 = e + 1 - 2
        /\ e + 1 # 0
    BY <1>3, <1>9
  <2>2. item = SetReset
    BY <1>4, <2>1 DEF item
  <2>3. Printed(title, e + 1) = Printed(title, e)
    BY <1>1, <2>1 DEF Printed
  <2>4. SetReset # SetTitle
    BY DEF SetReset, SetTitle
  <2> QED
    BY <1>7, <2>1, <2>2, <2>3, <2>4
<1>10. CASE e \in 1 .. m
  <2>1. PICK x : x = Printed(title, e)
    OBVIOUS
  <2>2. x = e - 1 /\ Printed(title, e + 1) = e
    BY <1>1, <1>3, <1>10, <2>1 DEF Printed
  <2>3. /\ x \in Nat /\ x + 1 < Width /\ x + 1 = e /\ e > 0
        /\ e <= m + 1 <=> e + 1 <= m + 1
    BY <1>3, <1>10, <2>2
  <2>4. item = title[e] /\ Plain(item) /\ t = printc(r, item)
    BY <1>4, <1>5, <1>6, <1>10 DEF item
  <2>5. r.attr = Title
    BY <1>1, <1>3, <1>10 DEF InLine
  <2>6. <<item, r.attr>> = Glyph(title, text, x + 1)
    BY <1>1, <1>10, <2>3, <2>4, <2>5 DEF Glyph
  <2> QED
    BY <1>1, <1>3, <2>1, <2>2, <2>3, <2>4, <2>6, CharOfLine
<1>11. CASE e > m + 1
  <2>1. PICK x : x = Printed(title, e)
    OBVIOUS
  <2>2. x = e - 2 /\ Printed(title, e + 1) = e - 1
    BY <1>1, <1>3, <1>11, <2>1 DEF Printed
  <2>3. /\ x \in Nat /\ x + 1 < Width /\ x + 1 = e - 1 /\ e > 0
        /\ ~(e <= m + 1) /\ ~(e + 1 <= m + 1) /\ ~(x + 1 <= m)
    BY <1>3, <1>11, <2>2
  <2>4. PICK k \in 1 .. n - 1 : e + 1 = m + 2 + k /\ k = x + 1 - m
    <3>1. e - 1 - m \in 1 .. n - 1 /\ e + 1 = m + 2 + (e - 1 - m) /\ e - 1 - m = x + 1 - m
      BY <1>3, <1>11, <2>2
    <3> QED
      BY <3>1
  <2>5. k \in 1 .. n
    BY <1>3
  <2>6. item = text[k] /\ Plain(item)
    BY <1>4, <1>5, <2>4, <2>5 DEF item
  <2>7. t = printc(r, item)
    BY <1>6, <2>6 DEF item
  <2>8. r.attr = Default
    BY <1>1, <1>3, <2>3 DEF InLine
  <2>9. <<item, r.attr>> = Glyph(title, text, x + 1)
    BY <1>1, <2>3, <2>4, <2>6, <2>8 DEF Glyph
  <2>10. Printed(title, e + 1) = x + 1 /\ (e <= Len(title) + 1 <=> e + 1 <= Len(title) + 1)
    BY <1>1, <2>2, <2>3
  <2> QED
    BY <1>3, <2>1, <2>3, <2>6, <2>7, <2>9, <2>10, CharOfLine
<1> QED
  BY <1>3, <1>8, <1>9, <1>10, <1>11

\* Its newline.
LEMMA LineEnds ==
    ASSUME ConsoleAssumption, NEW r, Settled(r), NEW title, NEW text, FitsRow(title, text),
           NEW e, e = Len(title) + Len(text) + 1, InLine(r, title, text, e),
           NEW t, t = Perform(r, Items(title, text)[e + 1])
    PROVE  Settled(t) /\ NewRow(r, "NL", t) /\ Shows(t, 1, title, text)
<1>1. PICK m, n : m = Len(title) /\ n = Len(text)
  OBVIOUS
<1>2. AreItems(title, text, m, n)
  BY <1>1, ItemsAre
<1>3. /\ m \in Nat /\ n \in Nat \ {0} /\ m + n <= Width
      /\ \A k \in 1 .. n : Items(title, text)[m + 2 + k] = text[k]
  BY <1>2 DEF AreItems
<1>4. e + 1 = m + 2 + n /\ n \in 1 .. n /\ e = m + n + 1
  BY <1>1, <1>3
<1>5. text[n] = "NL"
  BY <1>1 DEF FitsRow, IsLine
<1>6. t = printc(r, "NL")
  <2>1. t = Perform(r, "NL")
    BY <1>3, <1>4, <1>5
  <2> QED
    BY <2>1 DEF Perform, SetTitle, SetReset
<1>7. Settled(t) /\ NewRow(r, "NL", t)
  BY <1>6, CharDown
<1>8. /\ Width \in Nat /\ Height \in Nat /\ Height > 1 /\ r.term_y \in 0 .. Height - 1
      /\ \A x \in 1 .. Width : x - 1 \in 0 .. Width - 1 /\ x \in Nat
  BY Sizes DEF Settled, Inside
<1>9. 0 \in 0 .. r.term_y /\ 0 + 1 = 1 /\ 1 <= t.term_y
  BY <1>7, <1>8 DEF NewRow
<1>10. \A x \in 0 .. Width - 1 : Above(t, 1, x) = Above(r, 0, x)
  BY <1>7, <1>9 DEF NewRow
<1>11. Printed(title, e) = m + n - 1
  BY <1>1, <1>3, <1>4 DEF Printed
<1>12. \A x \in 1 .. Width : IF x <= m + n - 1 THEN Above(r, 0, x - 1) = Glyph(title, text, x)
                             ELSE Above(r, 0, x - 1)[1] = Blank
  BY <1>11 DEF InLine
<1>13. \A x \in 1 .. Width : x <= m + n - 1 <=> x < m + n
  BY <1>3, <1>8
<1>14. Shows(t, 1, title, text)
  BY <1>1, <1>8, <1>9, <1>10, <1>12, <1>13 DEF Shows
<1> QED
  BY <1>7, <1>14

\* One more item of what the handler prints.
LEMMA StageGoesOn ==
    ASSUME ConsoleAssumption, PanicFits, NEW r, NEW d \in 0 .. AllTold - 1, Stage(r, d),
           NEW t, t = Perform(r, Told[d + 1])
    PROVE  Stage(t, d + 1)
<1>1. /\ OfPanic \in Nat /\ OfPanic >= 2 /\ OfHalt \in Nat /\ OfPanic < OfHalt
      /\ AllTold \in Nat /\ OfHalt < AllTold /\ d \in Nat /\ d < AllTold
      /\ OfPanic = Len(Warning)
  BY ToldAre DEF OfPanic
<1>2. PICK p : p = OfHalt - OfPanic
  OBVIOUS
<1>3. PICK h : h = AllTold - OfHalt
  OBVIOUS
<1>4. /\ p = Len(PanicTitle) + Len(Reason) + 2 /\ h = Len(HaltTitle) + Len(HaltText) + 2
      /\ Len(PanicTitle) + Len(Reason) \in Nat /\ Len(HaltTitle) + Len(HaltText) \in Nat
  <2>1. FitsRow(PanicTitle, Reason) /\ FitsRow(HaltTitle, HaltText)
    BY DEF PanicFits
  <2>2. /\ Len(PanicTitle) \in Nat /\ Len(Reason) \in Nat
        /\ Len(HaltTitle) \in Nat /\ Len(HaltText) \in Nat
    BY <2>1, ItemsAre DEF AreItems
  <2> QED
    BY <1>1, <1>2, <1>3, <2>2 DEF OfPanic, OfHalt, AllTold
<1>5. /\ \A k \in 1 .. OfPanic : Told[k] = Warning[k]
      /\ \A k \in 1 .. p : Told[OfPanic + k] = Items(PanicTitle, Reason)[k]
      /\ \A k \in 1 .. h : Told[OfHalt + k] = Items(HaltTitle, HaltText)[k]
  BY <1>2, <1>3, ToldAre
<1>6. /\ \A k \in 1 .. OfPanic - 1 : Plain(Warning[k])
      /\ Warning[OfPanic] = "NL"
  BY <1>1 DEF PanicFits, IsLine
<1>7. /\ \A c : Plain(c) => Perform(r, c) = printc(r, c)
      /\ Perform(r, "NL") = printc(r, "NL")
  BY DEF Plain, Perform, SetTitle, SetReset
<1>8. Height \in Nat /\ Height >= 5 /\ 2 \in 0 .. Height - 2 /\ 3 \in 0 .. Height - 2
      /\ Height > 2
  BY Sizes DEF PanicFits
<1>9. CASE d = 0
  <2>1. d + 1 = 1 /\ 1 \in 1 .. OfPanic - 1 /\ 1 \in 1 .. OfPanic
    BY <1>1, <1>9
  <2>2. Plain(Warning[1]) /\ t = printc(r, Warning[1])
    BY <1>5, <1>6, <1>7, <2>1
  <2>3. Struck(r)
    BY <1>9 DEF Stage
  <2>4. Settled(t)
    BY <2>2, <2>3, FirstChar
  <2>5. Warned(t, 1)
    <3>1. \A k \in 2 .. 1 : FALSE
      OBVIOUS
    <3> QED
      BY <3>1, Zenon DEF Warned
  <2>6. /\ d + 1 > 0 /\ d + 1 # 0 /\ d + 1 \notin OfPanic .. OfHalt - 1
        /\ d + 1 \notin OfHalt .. AllTold - 1 /\ d + 1 # AllTold
    BY <1>1, <1>9
  <2> QED
    BY <2>1, <2>4, <2>5, <2>6 DEF Stage
<1>10. CASE d \in 1 .. OfPanic - 2
  <2>1. /\ d > 0 /\ d \in 1 .. OfPanic - 1 /\ d + 1 \in 1 .. OfPanic - 1
        /\ d + 1 \in 1 .. OfPanic /\ d \in 1 .. Len(Warning) - 2
    BY <1>1, <1>10
  <2>2. Plain(Warning[d + 1]) /\ t = printc(r, Warning[d + 1])
    BY <1>5, <1>6, <1>7, <2>1
  <2>3. Settled(r) /\ Warned(r, d)
    BY <2>1 DEF Stage
  <2>4. Settled(t) /\ Warned(t, d + 1)
    BY <2>1, <2>2, <2>3, WarningGoesOn
  <2>5. /\ d + 1 # 0 /\ d + 1 \notin OfPanic .. OfHalt - 1
        /\ d + 1 \notin OfHalt .. AllTold - 1 /\ d + 1 # AllTold
    BY <1>1, <1>10
  <2> QED
    BY <2>4, <2>5 DEF Stage
<1>11. CASE d = OfPanic - 1
  <2>1. /\ d > 0 /\ d \in 1 .. OfPanic - 1 /\ d + 1 = OfPanic
        /\ OfPanic \in 1 .. OfPanic /\ d = Len(Warning) - 1
    BY <1>1, <1>11
  <2>2. t = printc(r, "NL")
    BY <1>5, <1>6, <1>7, <2>1
  <2>3. Settled(r) /\ Warned(r, Len(Warning) - 1)
    BY <2>1 DEF Stage
  <2>4. Settled(t) /\ Kept(t, 2) /\ InLine(t, PanicTitle, Reason, 0)
    BY <2>2, <2>3, WarningEnds
  <2>5. /\ d + 1 # 0 /\ d + 1 \notin 1 .. OfPanic - 1
        /\ d + 1 \notin OfHalt .. AllTold - 1 /\ d + 1 # AllTold
    BY <1>1, <1>11
  <2>6. InLine(t, PanicTitle, Reason, (d + 1) - OfPanic)
    <3>1. (d + 1) - OfPanic = 0
      BY <1>1, <2>1
    <3> QED
      BY <2>4, <3>1, Zenon
  <2> QED
    BY <2>4, <2>5, <2>6, Zenon DEF Stage
<1>12. CASE d \in OfPanic .. OfHalt - 2
  <2>1. PICK e : e = d - OfPanic
    OBVIOUS
  <2>2. /\ e \in 0 .. Len(PanicTitle) + Len(Reason) /\ e + 1 \in 1 .. p
        /\ OfPanic + (e + 1) = d + 1 /\ d + 1 - OfPanic = e + 1
        /\ d > 0 /\ d \in OfPanic .. OfHalt - 1
    BY <1>1, <1>2, <1>4, <1>12, <2>1
  <2>3. t = Perform(r, Items(PanicTitle, Reason)[e + 1])
    BY <1>5, <2>2
  <2>4. Settled(r) /\ InLine(r, PanicTitle, Reason, e) /\ Kept(r, 2)
    BY <2>1, <2>2 DEF Stage
  <2>5. FitsRow(PanicTitle, Reason)
    BY DEF PanicFits
  <2>6. Settled(t) /\ InLine(t, PanicTitle, Reason, e + 1) /\ SameAbove(r, t)
    BY <2>2, <2>3, <2>4, <2>5, LineGoesOn
  <2>7. Kept(t, 2)
    BY <2>4, <2>6, AboveKeeps DEF Settled
  <2>8. /\ d + 1 # 0 /\ d + 1 \notin 1 .. OfPanic - 1
        /\ d + 1 \notin OfHalt .. AllTold - 1 /\ d + 1 # AllTold
    BY <1>1, <1>12
  <2>9. InLine(t, PanicTitle, Reason, (d + 1) - OfPanic)
    <3>1. (d + 1) - OfPanic = e + 1
      BY <1>1, <2>1, <2>2
    <3> QED
      BY <2>6, <3>1, Zenon
  <2> QED
    BY <2>6, <2>7, <2>8, <2>9, Zenon DEF Stage
<1>13. CASE d = OfHalt - 1
  <2>1. PICK e : e = d - OfPanic
    OBVIOUS
  <2>2. /\ e = Len(PanicTitle) + Len(Reason) + 1 /\ e + 1 \in 1 .. p
        /\ OfPanic + (e + 1) = d + 1 /\ d + 1 - OfHalt = 0
        /\ d > 0 /\ d \in OfPanic .. OfHalt - 1
    BY <1>1, <1>2, <1>4, <1>13, <2>1
  <2>3. t = Perform(r, Items(PanicTitle, Reason)[e + 1])
    BY <1>5, <2>2
  <2>4. Settled(r) /\ InLine(r, PanicTitle, Reason, e) /\ Kept(r, 2)
    BY <2>1, <2>2 DEF Stage
  <2>5. FitsRow(PanicTitle, Reason)
    BY DEF PanicFits
  <2>6. Settled(t) /\ NewRow(r, "NL", t) /\ Shows(t, 1, PanicTitle, Reason)
    BY <2>2, <2>3, <2>4, <2>5, LineEnds
  <2>7. InLine(t, HaltTitle, HaltText, 0)
    BY <2>6, NewRowEmpty
  <2>8. Kept(t, 3)
    <3>1. Kept(t, 2 + 1)
      BY <1>8, <2>4, <2>6, NewRowKeeps DEF Settled
    <3> QED
      BY <3>1
  <2>9. /\ d + 1 # 0 /\ d + 1 \notin 1 .. OfPanic - 1
        /\ d + 1 \notin OfPanic .. OfHalt - 1 /\ d + 1 # AllTold
    BY <1>1, <1>13
  <2>10. InLine(t, HaltTitle, HaltText, (d + 1) - OfHalt)
    <3>1. (d + 1) - OfHalt = 0
      BY <1>1, <2>1, <2>2
    <3> QED
      BY <2>7, <3>1, Zenon
  <2> QED
    BY <2>6, <2>8, <2>9, <2>10, Zenon DEF Stage
<1>14. CASE d \in OfHalt .. AllTold - 2
  <2>1. PICK e : e = d - OfHalt
    OBVIOUS
  <2>2. /\ e \in 0 .. Len(HaltTitle) + Len(HaltText) /\ e + 1 \in 1 .. h
        /\ OfHalt + (e + 1) = d + 1 /\ d + 1 - OfHalt = e + 1
        /\ d > 0 /\ d \in OfHalt .. AllTold - 1
    BY <1>1, <1>3, <1>4, <1>14, <2>1
  <2>3. t = Perform(r, Items(HaltTitle, HaltText)[e + 1])
    BY <1>5, <2>2
  <2>4. /\ Settled(r) /\ InLine(r, HaltTitle, HaltText, e) /\ Kept(r, 3)
        /\ Shows(r, 1, PanicTitle, Reason)
    BY <2>1, <2>2 DEF Stage
  <2>5. FitsRow(HaltTitle, HaltText)
    BY DEF PanicFits
  <2>6. Settled(t) /\ InLine(t, HaltTitle, HaltText, e + 1) /\ SameAbove(r, t)
    BY <2>2, <2>3, <2>4, <2>5, LineGoesOn
  <2>7. Kept(t, 3) /\ Shows(t, 1, PanicTitle, Reason)
    BY <2>4, <2>6, AboveKeeps DEF Settled
  <2>8. /\ d + 1 # 0 /\ d + 1 \notin 1 .. OfPanic - 1
        /\ d + 1 \notin OfPanic .. OfHalt - 1 /\ d + 1 # AllTold
    BY <1>1, <1>14
  <2>9. InLine(t, HaltTitle, HaltText, (d + 1) - OfHalt)
    <3>1. (d + 1) - OfHalt = e + 1
      BY <1>1, <2>1, <2>2
    <3> QED
      BY <2>6, <3>1, Zenon
  <2> QED
    BY <2>6, <2>7, <2>8, <2>9, Zenon DEF Stage
<1>15. CASE d = AllTold - 1
  <2>1. PICK e : e = d - OfHalt
    OBVIOUS
  <2>2. /\ e = Len(HaltTitle) + Len(HaltText) + 1 /\ e + 1 \in 1 .. h
        /\ OfHalt + (e + 1) = d + 1 /\ d + 1 = AllTold
        /\ d > 0 /\ d \in OfHalt .. AllTold - 1
    BY <1>1, <1>3, <1>4, <1>15, <2>1
  <2>3. t = Perform(r, Items(HaltTitle, HaltText)[e + 1])
    BY <1>5, <2>2
  <2>4. /\ Settled(r) /\ InLine(r, HaltTitle, HaltText, e) /\ Kept(r, 3)
        /\ Shows(r, 1, PanicTitle, Reason)
    BY <2>1, <2>2 DEF Stage
  <2>5. FitsRow(HaltTitle, HaltText)
    BY DEF PanicFits
  <2>6. Settled(t) /\ NewRow(r, "NL", t) /\ Shows(t, 1, HaltTitle, HaltText)
    BY <2>2, <2>3, <2>4, <2>5, LineEnds
  <2>7. Shows(t, 2, PanicTitle, Reason)
    BY <1>8, <2>4, <2>6, NewRowKeeps DEF Settled
  <2>8. Kept(t, 4)
    <3>1. Kept(t, 3 + 1)
      BY <1>8, <2>4, <2>6, NewRowKeeps DEF Settled
    <3> QED
      BY <3>1
  <2>9. t.term_x = 0 /\ t.cursor = <<0, t.term_y>>
    BY <2>6 DEF NewRow
  <2>10. /\ d + 1 # 0 /\ d + 1 \notin 1 .. OfPanic - 1
         /\ d + 1 \notin OfPanic .. OfHalt - 1 /\ d + 1 \notin OfHalt .. AllTold - 1
    BY <1>1, <1>15
  <2> QED
    BY <2>6, <2>7, <2>8, <2>9, <2>10, Zenon DEF Stage
<1>16. \/ d = 0 \/ d \in 1 .. OfPanic - 2 \/ d = OfPanic - 1
       \/ d \in OfPanic .. OfHalt - 2 \/ d = OfHalt - 1
       \/ d \in OfHalt .. AllTold - 2 \/ d = AllTold - 1
  BY <1>1
<1> QED
  BY <1>9, <1>10, <1>11, <1>12, <1>13, <1>14, <1>15, <1>16, Zenon

\* A klog that stands above the cursor can be read.
LEMMA ShowsLine ==
    ASSUME ConsoleAssumption, NEW r, r.term_y \in Nat, NEW d \in Nat,
           NEW title, NEW text, FitsRow(title, text), Shows(r, d, title, text)
    PROVE  LineAbove(r, d) = LogLine(title, text)
<1>1. PICK m, n : m = Len(title) /\ n = Len(text)
  OBVIOUS
<1>2. m \in Nat /\ n \in Nat \ {0} /\ Width \in Nat
  BY <1>1, ItemsAre, Sizes DEF AreItems
<1> DEFINE s == [k \in 1 .. m |-> <<title[k], Title>>]
                \o [k \in 1 .. n - 1 |-> <<text[k], Default>>]
<1>3. Len(s) = m + n - 1 /\ \A x \in 1 .. m + n - 1 : s[x] = Glyph(title, text, x)
  <2> DEFINE p == [k \in 1 .. m |-> <<title[k], Title>>]
             q == [k \in 1 .. n - 1 |-> <<text[k], Default>>]
             S == {p[k] : k \in 1 .. m} \cup {q[k] : k \in 1 .. n - 1}
  <2>1. p \in Seq(S) /\ Len(p) = m
    BY <1>2
  <2>2. q \in Seq(S) /\ Len(q) = n - 1
    BY <1>2
  <2>3. /\ \A k \in 1 .. m : p[k] = <<title[k], Title>>
        /\ \A k \in 1 .. n - 1 : q[k] = <<text[k], Default>>
    OBVIOUS
  <2>4. s = p \o q
    OBVIOUS
  <2> HIDE DEF p, q, s, S
  <2>5. /\ Len(s) = m + (n - 1)
        /\ \A k \in 1 .. m : s[k] = p[k]
        /\ \A k \in 1 .. n - 1 : s[m + k] = q[k]
    <3>1. PICK l : l = n - 1
      OBVIOUS
    <3>2. /\ Len(s) = m + l
          /\ \A k \in 1 .. m : s[k] = p[k]
          /\ \A k \in 1 .. l : s[m + k] = q[k]
      BY <2>1, <2>2, <2>4, <3>1, JoinedAt
    <3> QED
      BY <3>1, <3>2
  <2>6. ASSUME NEW x \in 1 .. m + n - 1 PROVE s[x] = Glyph(title, text, x)
    <3>1. CASE x <= m
      <4>1. x \in 1 .. m
        BY <1>2, <3>1
      <4> QED
        BY <1>1, <2>3, <2>5, <3>1, <4>1 DEF Glyph
    <3>2. CASE ~(x <= m)
      <4>1. PICK k \in 1 .. n - 1 : x = m + k /\ k = x - m
        <5>1. x - m \in 1 .. n - 1 /\ x = m + (x - m)
          BY <1>2, <3>2
        <5> QED
          BY <5>1
      <4> QED
        BY <1>1, <2>3, <2>5, <3>2, <4>1 DEF Glyph
    <3> QED
      BY <3>1, <3>2
  <2>7. m + (n - 1) = m + n - 1
    BY <1>2
  <2> QED
    BY <2>5, <2>6, <2>7
<1>4. LogLine(title, text) =
         [x \in 1 .. Width |-> IF x <= Len(s) /\ s[x][1] # Blank THEN s[x]
                               ELSE <<Blank, Default>>]
  BY <1>1 DEF LogLine
<1>5. ASSUME NEW x \in 1 .. Width
      PROVE  (LET cell == r.video[(r.term_y - d) * Width + x - 1]
              IN  IF cell[1] = Blank THEN <<Blank, Default>> ELSE cell)
             = IF x <= Len(s) /\ s[x][1] # Blank THEN s[x] ELSE <<Blank, Default>>
  <2> HIDE DEF s
  <2>1. PICK cell : cell = Above(r, d, x - 1)
    OBVIOUS
  <2>2. IF x < m + n THEN cell = Glyph(title, text, x) ELSE cell[1] = Blank
    BY <1>1, <2>1 DEF Shows
  <2>3. r.video[(r.term_y - d) * Width + x - 1] = cell
    <3>1. (r.term_y - d) * Width \in Int
      BY <1>2
    <3>2. (r.term_y - d) * Width + x - 1 = (r.term_y - d) * Width + (x - 1)
      BY <1>2, <3>1
    <3> QED
      BY <2>1, <3>2 DEF Above
  <2>4. (x < m + n <=> x <= Len(s)) /\ (x < m + n => s[x] = Glyph(title, text, x))
    BY <1>2, <1>3
  <2> QED
    BY <2>2, <2>3, <2>4
<1> QED
  BY <1>4, <1>5 DEF LineAbove

\* Wherever the thread is, it can be struck.
LEMMA ThreadStruck ==
    ASSUME PanicInv, mode = "thread"
    PROVE  Struck(con)
<1>1. CASE before.pc = "branch"
  <2>1. InPrintc(before, con) /\ ClearBelow(before)
    BY <1>1 DEF PanicInv, PrintcInv
  <2> QED
    BY <2>1, StruckAnywhere, ConsoleAssumption
<1>2. CASE before.pc # "branch"
  <2>1. /\ Inside(con) /\ IsCon(con) /\ IsVideo(con.video) /\ ClearBelow(con)
    BY <1>2 DEF PanicInv, PrintcInv
  <2>2. /\ Width \in Nat /\ Height \in Nat /\ con.term_x \in 0 .. Width - 1
        /\ con.term_y \in 0 .. Height - 1
    BY <2>1, Sizes, ConsoleAssumption DEF Inside
  <2>3. con.term_x \in 0 .. 2 * Width - 1 /\ con.term_y \in 0 .. Height
    BY <2>2
  <2> QED
    BY <2>1, <2>3 DEF Struck
<1> QED
  BY <1>1, <1>2

LEMMA InitPanic == ConInit => PanicInv
<1> SUFFICES ASSUME ConInit PROVE PanicInv
  OBVIOUS
<1>1. PICK x \in 0 .. Width - 1, y \in 0 .. Height - 1 : con = Fresh(x, y)
  BY DEF ConInit
<1>2. before = con /\ mode = "thread"
  BY DEF ConInit
<1>3. con.video = [k \in Cells |-> <<Blank, Default>>]
  BY <1>1 DEF Fresh
<1>4. \A k \in OnScreen : k \in Cells
  BY Sizes, ConsoleAssumption DEF OnScreen
<1>5. \A k \in OnScreen : con.video[k][1] = Blank
  BY <1>3, <1>4
<1> QED
  BY <1>2, <1>5, InitPrintc DEF PanicInv, ClearBelow

\* The steps of the thread.
LEMMA ThreadPanic ==
    ASSUME PanicInv, PrintcInv', mode = "thread", mode' = "thread",
           [ConNext]_conVars
    PROVE  PanicInv'
<1> SUFFICES ClearBelow(IF before'.pc = "branch" THEN before' ELSE con')
  BY DEF PanicInv
<1>1. CASE con' = con /\ before' = before
  BY <1>1 DEF PanicInv
<1>2. CASE StartItem
  <2>1. /\ con.pc = "done" /\ before' = con'
        /\ con' = IF Head(todo) \in {SetTitle, SetReset}
                  THEN SetAttr(con, Head(todo)) ELSE Begin(con, Head(todo))
    BY <1>2 DEF StartItem
  <2>2. Struck(con)
    BY ThreadStruck
  <2>3. IsCon(con) /\ ClearBelow(con)
    BY <2>2 DEF Struck
  <2>4. con'.video = con.video /\ con'.term_y = con.term_y
    <3>1. CASE Head(todo) \in {SetTitle, SetReset}
      <4>1. PICK a : con' = [con EXCEPT !.attr = a]
        BY <2>1, <3>1 DEF SetAttr
      <4> QED
        BY <2>3, <4>1 DEF IsCon
    <3>2. CASE Head(todo) \notin {SetTitle, SetReset}
      <4>1. con' = Begin(con, Head(todo))
        BY <2>1, <3>2
      <4> QED
        BY <2>3, <4>1, BeginIs
    <3> QED
      BY <3>1, <3>2
  <2>5. ClearBelow(con')
    BY <2>3, <2>4 DEF ClearBelow
  <2> QED
    BY <2>1, <2>5
<1>3. CASE Step
  <2>1. con.pc # "done" /\ before' = before
    BY <1>3 DEF Step
  <2>2. before.pc = "branch"
    BY <2>1 DEF PanicInv, PrintcInv
  <2> QED
    BY <2>1, <2>2 DEF PanicInv
<1>4. CASE UNCHANGED conVars
  BY <1>1, <1>4 DEF conVars
<1>5. ASSUME NEW m \in Messages, Klog(m) \/ Printf(m)
      PROVE  con' = con /\ before' = before
  BY <1>5 DEF Klog, Printf
<1>6. ~WatchdogPanic /\ ~HandlerItem /\ ~Halt
  BY DEF WatchdogPanic, HandlerItem, Halt
<1> QED
  BY <1>1, <1>2, <1>3, <1>4, <1>5, <1>6 DEF ConNext

LEMMA NextPanic ==
    ASSUME PanicFits, PanicInv, [ConNext]_conVars
    PROVE  PanicInv'
<1>1. PrintcInv'
  BY NextPrintc DEF PanicInv
<1>2. /\ AllTold \in Nat /\ Told \in Seq(Things) /\ Len(Told) = AllTold
  BY ToldAre, ConsoleAssumption
<1>3. CASE WatchdogPanic
  <2>1. mode = "thread" /\ mode' = "panic" /\ todo' = Told /\ con' = con
    BY <1>3 DEF WatchdogPanic, Told
  <2>2. Struck(con)
    BY <2>1, ThreadStruck
  <2>3. Told = SubSeq(Told, 1, AllTold)
    BY <1>2
  <2>4. Stage(con, 0)
    <3>1. /\ OfPanic \in Nat /\ OfPanic >= 2 /\ OfHalt \in Nat /\ OfPanic < OfHalt
          /\ OfHalt < AllTold
      BY ToldAre, ConsoleAssumption
    <3>2. /\ ~(0 > 0) /\ 0 \notin 1 .. OfPanic - 1 /\ 0 \notin OfPanic .. OfHalt - 1
          /\ 0 \notin OfHalt .. AllTold - 1 /\ 0 # AllTold
      BY <1>2, <3>1
    <3> QED
      BY <2>2, <3>2, Zenon DEF Stage
  <2>5. 0 \in 0 .. AllTold /\ 0 + 1 = 1
    BY <1>2
  <2>6. \E d \in 0 .. AllTold : todo' = SubSeq(Told, d + 1, AllTold) /\ Stage(con', d)
    BY <2>1, <2>3, <2>4, <2>5
  <2> QED
    BY <1>1, <2>1, <2>6 DEF PanicInv
<1>4. CASE HandlerItem
  <2>1. /\ mode = "panic" /\ mode' = mode /\ todo # <<>>
        /\ con' = Perform(con, Head(todo)) /\ todo' = Tail(todo)
    BY <1>4 DEF HandlerItem
  <2>2. PICK d \in 0 .. AllTold : todo = SubSeq(Told, d + 1, AllTold) /\ Stage(con, d)
    BY <2>1 DEF PanicInv
  <2>3. d # AllTold
    <3>1. SubSeq(Told, d + 1, AllTold) = <<>> <=> d = AllTold
      BY <1>2, RestIs
    <3> QED
      BY <2>1, <2>2, <3>1
  <2>4. d < AllTold /\ d \in 0 .. AllTold - 1 /\ d + 1 \in 0 .. AllTold /\ d + 2 = d + 1 + 1
    BY <1>2, <2>3
  <2>5. Head(todo) = Told[d + 1] /\ Tail(todo) = SubSeq(Told, d + 2, AllTold)
    BY <1>2, <2>2, <2>4, RestIs
  <2>6. Stage(con', d + 1)
    BY <2>1, <2>2, <2>4, <2>5, StageGoesOn, ConsoleAssumption
  <2>7. todo' = SubSeq(Told, d + 1 + 1, AllTold)
    BY <2>1, <2>4, <2>5
  <2> QED
    BY <1>1, <2>1, <2>4, <2>6, <2>7 DEF PanicInv
<1>5. CASE Halt
  BY <1>1, <1>5 DEF Halt, PanicInv
<1>6. CASE UNCHANGED conVars /\ mode # "thread"
  BY <1>1, <1>6 DEF conVars, PanicInv
<1>7. CASE mode = "thread" /\ mode' = "thread"
  BY <1>1, <1>7, ThreadPanic
<1>8. ASSUME \/ \E m \in Messages : Klog(m) \/ Printf(m)
             \/ StartItem \/ Step
      PROVE  mode = "thread" /\ mode' = "thread"
  BY <1>8 DEF Klog, Printf, StartItem, Step
<1>9. CASE UNCHANGED conVars /\ mode = "thread"
  BY <1>7, <1>9 DEF conVars
<1> QED
  BY <1>3, <1>4, <1>5, <1>6, <1>7, <1>8, <1>9 DEF ConNext

(***************************************************************************)
(* For every screen of at least five rows, every tab stop and all messages *)
(* of threads: wherever in a klog, a printc or a scroll the watchdog       *)
(* strikes, the panic that it prints over the console it has interrupted   *)
(* (wd.c:43, error.c, klog.c) stands whole and in its colours above the    *)
(* cursor when the machine halts, and the warning printed before it stands *)
(* on the screen in consecutive cells, all but its first character.        *)
(***************************************************************************)
THEOREM PanicStaysReadable == PanicFits => (ConSpec => []PanicReadable)
<1> SUFFICES ASSUME PanicFits PROVE ConSpec => []PanicReadable
  OBVIOUS
<1>1. ConInit => PanicInv
  BY InitPanic
<1>2. PanicInv /\ [ConNext]_conVars => PanicInv'
  BY NextPanic
<1>3. PanicInv => PanicReadable
  <2> SUFFICES ASSUME PanicInv, mode = "halted"
               PROVE  /\ con.term_x = 0 /\ con.cursor = <<0, con.term_y>>
                      /\ con.term_y \in 2 .. Height - 1
                      /\ LineAbove(con, 1) = LogLine(HaltTitle, HaltText)
                      /\ LineAbove(con, 2) = LogLine(PanicTitle, Reason)
                      /\ \E j \in OnScreen : \A k \in 2 .. Len(Warning) - 1 :
                            /\ j + k - 2 \in OnScreen
                            /\ con.video[j + k - 2][1] = Warning[k]
    BY DEF PanicReadable
  <2>1. todo = <<>> /\ mode # "thread"
    BY DEF PanicInv
  <2>2. PICK d \in 0 .. AllTold : todo = SubSeq(Told, d + 1, AllTold) /\ Stage(con, d)
    BY <2>1 DEF PanicInv
  <2>3. /\ AllTold \in Nat /\ AllTold > 0 /\ Told \in Seq(Things) /\ Len(Told) = AllTold
    <3>1. /\ AllTold \in Nat /\ OfHalt \in Nat /\ OfHalt < AllTold
          /\ Told \in Seq(Things) /\ Len(Told) = AllTold
      BY ToldAre, ConsoleAssumption
    <3> QED
      BY <3>1
  <2>4. d = AllTold
    <3>1. SubSeq(Told, d + 1, AllTold) = <<>> <=> d = AllTold
      BY <2>3, RestIs
    <3> QED
      BY <2>1, <2>2, <3>1
  <2>5. /\ Settled(con) /\ con.term_x = 0 /\ con.cursor = <<0, con.term_y>> /\ Kept(con, 4)
        /\ Shows(con, 1, HaltTitle, HaltText) /\ Shows(con, 2, PanicTitle, Reason)
    BY <2>2, <2>3, <2>4 DEF Stage
  <2>6. /\ con.term_y \in Nat /\ con.term_y \in 0 .. Height - 1 /\ Height \in Nat
        /\ Width \in Nat
    BY <2>5, Sizes, ConsoleAssumption DEF Settled, Inside
  <2>7. con.term_y \in 2 .. Height - 1
    BY <2>5, <2>6 DEF Shows
  <2>8. /\ LineAbove(con, 1) = LogLine(HaltTitle, HaltText)
        /\ LineAbove(con, 2) = LogLine(PanicTitle, Reason)
    BY <2>5, <2>6, ShowsLine, ConsoleAssumption DEF PanicFits
  <2>9. PICK s \in Int : \A k \in 2 .. Len(Warning) - 1 : KeptAt(con, 4, s, k)
    BY <2>5 DEF Kept
  <2> DEFINE at == con.term_y * Width - s + 2
  <2>10. at \in Int /\ Len(Warning) \in Nat /\ con.term_y * Width \in Int
    BY <2>6 DEF PanicFits
  <2>0. at = con.term_y * Width - s + 2
    OBVIOUS
  <2> HIDE DEF at
  <2>11. ASSUME NEW k \in 2 .. Len(Warning) - 1
         PROVE  at + k - 2 \in OnScreen /\ con.video[at + k - 2][1] = Warning[k]
    <3>1. PICK e \in 1 .. 4, x \in 0 .. Width - 1 :
             /\ e <= con.term_y /\ Above(con, e, x)[1] = Warning[k]
             /\ e * Width - x = s - k
      BY <2>9 DEF KeptAt
    <3>2. e \in 0 .. con.term_y
      BY <2>6, <3>1
    <3>3. (con.term_y - e) * Width + x \in OnScreen
      BY <2>6, <3>2, AboveInside, ConsoleAssumption
    <3>4. (con.term_y - e) * Width + x = at + k - 2
      <4>1. /\ con.term_y \in Int /\ Width \in Int /\ e \in Int /\ x \in Int
            /\ k \in Int /\ s \in Int
        BY <2>6, <2>10
      <4>2. PICK p \in Int, q \in Int : p = con.term_y * Width /\ q = e * Width
        BY <4>1, <2>10, Apart
      <4>3. (con.term_y - e) * Width = p - q
        BY <4>1, <4>2, Apart
      <4>4. q - x = s - k
        BY <4>2, <3>1
      <4>5. at = p - s + 2
        BY <4>2, <2>0
      <4>6. PICK z \in Int : z = at
        BY <2>10
      <4>7. (p - q) + x = z + (k - 2)
        BY <4>1, <4>4, <4>5, <4>6
      <4> QED
        BY <4>3, <4>6, <4>7
    <3> QED
      BY <3>1, <3>3, <3>4 DEF Above
  <2>12. \E j \in OnScreen : \A k \in 2 .. Len(Warning) - 1 :
            /\ j + k - 2 \in OnScreen
            /\ con.video[j + k - 2][1] = Warning[k]
    <3>1. CASE 2 \in 2 .. Len(Warning) - 1
      <4>1. at + 2 - 2 \in OnScreen
        BY <3>1, <2>11
      <4>2. at \in OnScreen
        BY <4>1, <2>10
      <4> QED
        BY <4>2, <2>11
    <3>2. CASE 2 \notin 2 .. Len(Warning) - 1
      <4>1. \A k \in 2 .. Len(Warning) - 1 : FALSE
        BY <3>2, <2>10
      <4>2. 0 \in OnScreen
        <5>1. con.term_y - 0 \in Nat /\ 0 \in 0 .. Width - 1 /\ Width > 0
          BY <2>6, ConsoleAssumption
        <5>2. con.term_y \in 0 .. con.term_y /\ con.term_y - con.term_y = 0
          BY <2>6
        <5>3. (con.term_y - con.term_y) * Width + 0 \in OnScreen
          BY <2>6, <5>1, <5>2, AboveInside, ConsoleAssumption
        <5> QED
          BY <5>3, <2>6
      <4> QED
        BY <4>1, <4>2
    <3> QED
      BY <3>1, <3>2
  <2> QED
    BY <2>5, <2>7, <2>8, <2>12
<1> QED
  BY <1>1, <1>2, <1>3, PTL DEF ConSpec

=============================================================================
