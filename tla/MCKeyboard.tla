----------------------------- MODULE MCKeyboard -----------------------------
(* Small keyboards for TLC: the keys a, b and F2.                          *)
EXTENDS Keyboard

CONSTANTS a, b, F2

Lower == [k \in Keys |-> CASE k = a -> 97 [] k = b -> 98 [] k = F2 -> 0]
Upper == [k \in Keys |-> CASE k = a -> 65 [] k = b -> 66 [] k = F2 -> 0]

=============================================================================
