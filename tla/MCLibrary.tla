----------------------------- MODULE MCLibrary ------------------------------
(***************************************************************************)
(* The library functions for TLC.  They share no state, so a behaviour     *)
(* exercises one of them and the others stand still.                       *)
(***************************************************************************)
EXTENDS Strings, Printf, OrderedArray

CONSTANTS MaxText, MaxFormat   \* bounds: characters of a text, of a format

VARIABLE unit    \* the part that is exercised

Upto(S, n) == UNION {[1 .. m -> S] : m \in 0 .. n}

\* Texts of the characters 1 and 2, and of the delimiter 47, '/'.
Texts == Upto({1, 47}, MaxText) \cup Upto({1, 2, 47}, MaxText - 1)

FormatChars == {"%", "-", "0", "3", "l", "d", "X", "u", "o", "c", "s", "a"}
DirectiveFormats ==
    Upto(FormatChars, MaxFormat - 2)
    \cup {<<"%">> \o f : f \in Upto(FormatChars, MaxFormat - 1)}

PassedStrings == {<<>>, <<"A">>, <<"A", "B", "A", "B">>}
BytesBehind == <<"a", "NUL">>

Init ==
    \/ /\ unit = "strings" /\ StrInit /\ OaInit
       /\ fmt = <<NULc>> /\ Scanning
    \/ /\ unit = "printf" /\ PfInit /\ OaInit /\ CopyInit
    \/ /\ unit = "array" /\ OaInit /\ CopyInit
       /\ fmt = <<NULc>> /\ Scanning

Next ==
    \/ unit = "strings" /\ StrNext /\ UNCHANGED <<unit, pfVars, oaVars>>
    \/ unit = "printf" /\ PfNext /\ UNCHANGED <<unit, strVars, oaVars>>
    \/ unit = "array" /\ OaNext /\ UNCHANGED <<unit, strVars, pfVars>>

Spec == Init /\ [][Next]_<<unit, strVars, pfVars, oaVars>>

=============================================================================
