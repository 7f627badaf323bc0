----------------------------- MODULE MCConsole ------------------------------
(* A console of a few cells for TLC, and messages that wrap and scroll it. *)
EXTENDS Console

Printed ==
    {[mode |-> LOG_INFO, title |-> <<"t">>, text |-> <<"A", "NL">>],
     [mode |-> LOG_OK, title |-> <<"t">>, text |-> <<"TAB", "B">>],
     [mode |-> LOG_FAIL, title |-> <<"t">>, text |-> <<"CR">>],
     [mode |-> LOG_PANIC, title |-> <<"t">>, text |-> <<"A", "BS", "BS", "B", "A">>],
     [mode |-> LOG_INFO, title |-> <<"t">>, text |-> <<"NL", "NL">>]}

WarningText == <<"k", "u", "n", "NL">>
ReasonText  == <<"w", "d", "NL">>
PanicWord   == <<"p">>
HaltWord    == <<"h", Blank>>
HaltingText == <<"H", "NL">>

=============================================================================
