------------------------------ MODULE MCTiming ------------------------------
(* A small instance of the timer table for TLC.                            *)
EXTENDS Timing, TLC

\* The registered callbacks are interchangeable.
HandlerSymmetry == Permutations(Handlers)

=============================================================================
