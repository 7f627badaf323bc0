----------------------------- MODULE MCDrivers ------------------------------
(* The drivers that a user sees, for TLC: a small keyboard, or a console   *)
(* of a few cells.  The two share nothing; setup says which one runs.      *)
EXTENDS MCKeyboard, MCConsole

VARIABLE setup

MCInit ==
    /\ Init /\ ConInit
    /\ \/ setup = "keyboard" /\ con = Fresh(0, 0)
       \/ setup = "console"

MCNext ==
    \/ setup = "keyboard" /\ Next /\ UNCHANGED <<conVars, setup>>
    \/ setup = "console" /\ ConNext /\ UNCHANGED <<vars, setup>>

MCSpec == MCInit /\ [][MCNext]_<<vars, conVars, setup>>

=============================================================================
