------------------------------ MODULE ListSeqs ------------------------------
(***************************************************************************)
(* What lib/list.c promises: a list is a sequence of nodes.  A node is put *)
(* at a position of one list or taken from one, and a list may be emptied; *)
(* nothing else changes, and no node is in two places.                     *)
(***************************************************************************)
EXTENDS Integers, Sequences, SequencesExt

CONSTANTS Lists, Items
VARIABLE seqs

Used == UNION {Range(seqs[l]) : l \in Lists}

Init == seqs = [l \in Lists |-> <<>>]

OnlyIn(l) == \A m \in Lists \ {l} : seqs'[m] = seqs[m]

Put(l) ==
    /\ OnlyIn(l)
    /\ \E k \in 1 .. Len(seqs'[l]) : /\ RemoveAt(seqs'[l], k) = seqs[l]
                                     /\ seqs'[l][k] \in Items \ Used

Take(l) ==
    /\ OnlyIn(l)
    /\ \E k \in 1 .. Len(seqs[l]) : seqs'[l] = RemoveAt(seqs[l], k)

Empty(l) == OnlyIn(l) /\ seqs'[l] = <<>>

Next == \E l \in Lists : Put(l) \/ Take(l) \/ Empty(l)

Spec == Init /\ [][Next]_seqs

=============================================================================
