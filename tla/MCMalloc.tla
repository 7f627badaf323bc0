------------------------------ MODULE MCMalloc ------------------------------
(* Small instances of the heap for TLC.                                    *)
EXTENDS Malloc

\* calloc(2, 2), calloc(0, 3).
SmallCounts == {<<2, 2>>, <<0, 3>>}

=============================================================================
