------------------------------ MODULE Keyboard ------------------------------
(***************************************************************************)
(* The PS/2 keyboard driver, arch/x86/drivers/keyboard.c.  The handler of  *)
(* IRQ1 appends translated keys to a linear buffer; kb_read, in a thread,  *)
(* takes the first one and shifts the rest down.  kb_read tests the buffer *)
(* with interrupts on and takes the key with interrupts off; kb_start      *)
(* installs the handler and then clears the buffer with interrupts on.     *)
(***************************************************************************)
EXTENDS Integers, Sequences

CONSTANTS
    BufSize,      \* 0xFF
    Keys,         \* make codes of keys other than left shift
    kbdus,        \* their translation; 0 for keys that have none
    kbdus_caps,   \* their translation with shift
    PastEnd,      \* the byte that follows the buffer in memory
    MaxStarts     \* bound: calls of kb_start, the one at boot included

ASSUME KeyboardAssumption ==
    /\ BufSize \in Nat \ {0} /\ MaxStarts \in Nat \ {0} /\ PastEnd \in Nat
    /\ kbdus \in [Keys -> Nat] /\ kbdus_caps \in [Keys -> Nat]

VARIABLES
    buffer,       \* the characters, and at BufSize the byte behind them
    buffer_i,     \* where the next character goes
    kb_shift, kb_ctl, kb_extended,
    installed,    \* interrupt_handlers[IRQ1] is kb_handler
    online,       \* the device's status is DEVICE_STATUS_ONLINE
    thread,       \* "idle", "cli" (kb_read past its test), "clear" (kb_start)
    i,            \* the index of kb_start's loop
    last,         \* what the last kb_read returned
    starts,       \* history: calls of kb_start
    wiped         \* history: kb_start has cleared a cell that was counted

modifiers == <<kb_shift, kb_ctl, kb_extended>>
vars == <<buffer, buffer_i, modifiers, installed, online, thread, i, last,
          starts, wiped>>

Chars == {kbdus[k] : k \in Keys} \cup {kbdus_caps[k] : k \in Keys}

TypeOK ==
    /\ buffer \in [0 .. BufSize -> Chars \cup {0, PastEnd}]
    /\ buffer_i \in 0 .. BufSize
    /\ kb_shift \in BOOLEAN /\ kb_ctl \in BOOLEAN /\ kb_extended \in BOOLEAN
    /\ installed \in BOOLEAN /\ online \in BOOLEAN
    /\ thread \in {"idle", "cli", "clear"}
    /\ i \in 0 .. BufSize
    /\ last \in Chars \cup {0, PastEnd}
    /\ starts \in 0 .. MaxStarts /\ wiped \in BOOLEAN

\* kb_init runs at boot with interrupts off: the first kb_start is done.
Init ==
    /\ buffer = [j \in 0 .. BufSize |-> IF j = BufSize THEN PastEnd ELSE 0]
    /\ buffer_i = 0
    /\ kb_shift = FALSE /\ kb_ctl = FALSE /\ kb_extended = FALSE
    /\ installed = TRUE /\ online = TRUE
    /\ thread = "idle" /\ i = 0 /\ last = 0 /\ starts = 1
    /\ wiped = FALSE

-----------------------------------------------------------------------------
(* kb_handler, by the scancode it reads.  It runs to its end, interrupts   *)
(* off, whenever interrupts are on in the thread.                          *)

OnlyModifiers == UNCHANGED <<buffer, buffer_i, installed, online, thread, i,
                             last, starts, wiped>>

\* The byte after 0xE0 is swallowed, whatever it is.
Swallow ==
    /\ installed /\ kb_extended
    /\ kb_extended' = FALSE
    /\ UNCHANGED <<kb_shift, kb_ctl>> /\ OnlyModifiers

Extended ==
    /\ installed /\ ~kb_extended
    /\ kb_extended' = TRUE
    /\ UNCHANGED <<kb_shift, kb_ctl>> /\ OnlyModifiers

\* 0x2A and 0xAA
LeftShift(down) ==
    /\ installed /\ ~kb_extended
    /\ kb_shift' = down
    /\ UNCHANGED <<kb_ctl, kb_extended>> /\ OnlyModifiers

\* Any other break code indexes kbdus behind its end, so the byte found there
\* may be KB_TRAP_CTL, KB_TRAP_LSHIFT or anything else.
Release ==
    /\ installed /\ ~kb_extended
    /\ \/ kb_ctl' = TRUE /\ UNCHANGED kb_shift
       \/ kb_shift' = TRUE /\ UNCHANGED kb_ctl
    /\ UNCHANGED kb_extended /\ OnlyModifiers

\* Fault: the index moves before the store.
PressAhead(k) ==
    /\ installed /\ ~kb_extended
    /\ buffer_i < BufSize - 1
    /\ buffer' = [buffer EXCEPT ![buffer_i + 1] =
                     IF kb_shift THEN kbdus_caps[k] ELSE kbdus[k]]
    /\ buffer_i' = buffer_i + 1
    /\ UNCHANGED <<modifiers, installed, online, thread, i, last, starts, wiped>>

\* A key is translated and stored, or dropped when the buffer is full.
Press(k) ==
    /\ installed /\ ~kb_extended
    /\ buffer_i # BufSize
    /\ buffer' = [buffer EXCEPT ![buffer_i] =
                     IF kb_shift THEN kbdus_caps[k] ELSE kbdus[k]]
    /\ buffer_i' = buffer_i + 1
    /\ UNCHANGED <<modifiers, installed, online, thread, i, last, starts, wiped>>

-----------------------------------------------------------------------------
(* Thread-level code.                                                      *)

\* kb_read: nothing in the first cell.
KbReadNothing ==
    /\ thread = "idle" /\ buffer[0] = 0
    /\ last' = 0
    /\ UNCHANGED <<buffer, buffer_i, modifiers, installed, online, thread, i,
                   starts, wiped>>

\* kb_read: something in the first cell; interrupts go off only after this.
KbReadTest ==
    /\ thread = "idle" /\ buffer[0] # 0
    /\ thread' = "cli"
    /\ UNCHANGED <<buffer, buffer_i, modifiers, installed, online, i, last,
                   starts, wiped>>

\* Fault: the count is not lowered.
KbReadTakeUncounted ==
    /\ thread = "cli"
    /\ last' = buffer[0]
    /\ buffer' = [j \in 0 .. BufSize |->
                     IF j = BufSize THEN buffer[j] ELSE buffer[j + 1]]
    /\ thread' = "idle"
    /\ UNCHANGED <<buffer_i, modifiers, installed, online, i, starts, wiped>>

\* kb_read between cli and sti.  The last round of the shift reads the byte
\* behind the buffer.
KbReadTake ==
    /\ thread = "cli"
    /\ last' = buffer[0]
    /\ buffer' = [j \in 0 .. BufSize |->
                     IF j = BufSize THEN buffer[j] ELSE buffer[j + 1]]
    /\ buffer_i' = buffer_i - 1
    /\ thread' = "idle"
    /\ UNCHANGED <<modifiers, installed, online, i, starts, wiped>>

\* device_stop: kb_stop removes the handler.
KbStop ==
    /\ thread = "idle" /\ online
    /\ installed' = FALSE /\ online' = FALSE
    /\ UNCHANGED <<buffer, buffer_i, modifiers, thread, i, last, starts, wiped>>

\* device_start: kb_start installs the handler, then clears cell by cell;
\* buffer_i keeps its value.
KbStart ==
    /\ thread = "idle" /\ ~online /\ starts < MaxStarts
    /\ installed' = TRUE /\ starts' = starts + 1
    /\ thread' = "clear" /\ i' = 0
    /\ UNCHANGED <<buffer, buffer_i, modifiers, online, last, wiped>>

KbStartClear ==
    /\ thread = "clear" /\ i # BufSize
    /\ buffer' = [buffer EXCEPT ![i] = 0]
    /\ wiped' = (wiped \/ i < buffer_i)
    /\ i' = i + 1
    /\ UNCHANGED <<buffer_i, modifiers, installed, online, thread, last,
                   starts>>

\* Fault: the index is reset after the buffer, with the handler installed.
KbStartDoneResets ==
    /\ thread = "clear" /\ i = BufSize
    /\ online' = TRUE /\ thread' = "idle" /\ i' = 0 /\ buffer_i' = 0
    /\ UNCHANGED <<buffer, modifiers, installed, last, starts, wiped>>

KbStartDone ==
    /\ thread = "clear" /\ i = BufSize
    /\ online' = TRUE /\ thread' = "idle" /\ i' = 0
    /\ UNCHANGED <<buffer, buffer_i, modifiers, installed, last, starts, wiped>>

-----------------------------------------------------------------------------

Handler ==
    \/ Swallow
    \/ Extended
    \/ \E down \in BOOLEAN : LeftShift(down)
    \/ Release
    \/ \E k \in Keys : Press(k)

Reader == KbReadNothing \/ KbReadTest \/ KbReadTake

Starter == KbStop \/ KbStart \/ KbStartClear \/ KbStartDone

Next == Handler \/ Reader \/ Starter

Spec == Init /\ [][Next]_vars

-----------------------------------------------------------------------------
(* Properties.                                                             *)

(***************************************************************************)
(* The first cell holds a character only if one is counted: kb_read never  *)
(* takes buffer_i below zero, also when the driver is stopped and started  *)
(* again under a reader and keys arrive while kb_start clears the buffer.  *)
(* Nor does the handler take it past the end, whatever the buffer holds    *)
(* after the clearing (the type of buffer_i).                              *)
(***************************************************************************)
NoUnderflow ==
    /\ TypeOK
    /\ (buffer[0] # 0 \/ thread = "cli") => buffer_i > 0

(***************************************************************************)
(* The comment on kb_read's early return: "If there are no keys pressed,   *)
(* return an error code".  Whenever a thread can call kb_read, the early   *)
(* return is taken only if no counted cell holds a character.              *)
(***************************************************************************)
ErrorMeansNoKeys ==
    (thread = "idle" /\ buffer[0] = 0) =>
        \A j \in 0 .. BufSize - 1 : j < buffer_i => buffer[j] = 0

(***************************************************************************)
(* The same at every point, through any number of restarts, as long as     *)
(* none of them has cleared a key that waited: one that finds the buffer   *)
(* empty does no harm, nor do keys that arrive behind its loop.            *)
(***************************************************************************)
NothingOnlyWhenEmpty == (~wiped /\ buffer[0] = 0) => buffer_i = 0

(***************************************************************************)
(* Until a restart clears a key that waits, the driver is a bounded queue: *)
(* each key is delivered once and in the order typed, is lost only when    *)
(* BufSize of them wait, and kb_read answers 0 only when the queue is      *)
(* empty; also with the driver stopped and started in between.             *)
(***************************************************************************)
Waiting == [j \in 1 .. buffer_i |-> buffer[j - 1]]

Abstract == INSTANCE KeyQueue WITH queue <- Waiting, Capacity <- BufSize

ImplementsKeyQueue ==
    Abstract!Init /\ [][wiped' \/ Abstract!Next]_<<Waiting, last>>

=============================================================================
