------------------------------ MODULE KeyQueue ------------------------------
(***************************************************************************)
(* What the keyboard driver promises to its readers: a bounded queue of    *)
(* characters.  Keys that find it full are dropped; a read takes the       *)
(* oldest character, and answers 0 when there is none and only then.       *)
(***************************************************************************)
EXTENDS Sequences, Naturals

CONSTANTS
    Chars,     \* the characters keys stand for; 0 is not one of them
    Capacity   \* characters the queue holds

VARIABLES
    queue,     \* characters typed and not yet read
    last       \* what the last read returned

Init == queue = <<>> /\ last = 0

Put(c) == Len(queue) < Capacity /\ queue' = Append(queue, c) /\ UNCHANGED last

Get == queue # <<>> /\ queue' = Tail(queue) /\ last' = Head(queue)

GetNothing == queue = <<>> /\ last' = 0 /\ UNCHANGED queue

Next == (\E c \in Chars : Put(c)) \/ Get \/ GetNothing

Spec == Init /\ [][Next]_<<queue, last>>

=============================================================================
