---------------------------- MODULE LibrarySearch ----------------------------
(***************************************************************************)
(* What gplink promises of its choice of modules, with no word about the   *)
(* order of the search: starting from the objects of the command line, a   *)
(* member of a library joins the program only when it defines a symbol     *)
(* that the program refers to and does not define, and the choice ends     *)
(* when no member is left that could help.  The program links if what is   *)
(* still undefined then is made by the linker itself.                      *)
(***************************************************************************)
EXTENDS FiniteSets

CONSTANTS Symbol, Module

VARIABLES
    give,      \* module -> the symbols it defines
    need,      \* module -> the symbols it refers to
    made,      \* module -> the symbols the linker makes when it is loaded
    library,   \* members of the archives
    program,   \* modules loaded so far
    outcome    \* "searching", "linked", "unresolved", or "stopped" by bad input

inputs == <<give, need, made, library>>
vars   == <<inputs, program, outcome>>

Provided   == UNION {give[m] : m \in program}
Needed     == UNION {need[m] : m \in program}
Unresolved == Needed \ Provided
Made       == UNION {made[m] : m \in program}

Helps(m) == m \in library \ program /\ give[m] \cap Unresolved # {}

Init ==
    /\ give \in [Module -> SUBSET Symbol]
    /\ need \in [Module -> SUBSET Symbol]
    /\ made \in [Module -> SUBSET Symbol]
    /\ library \in SUBSET Module
    /\ program \in SUBSET Module
    /\ outcome = "searching"

Load ==
    /\ outcome = "searching"
    /\ \E m \in Module : Helps(m) /\ program' = program \cup {m}
    /\ UNCHANGED <<inputs, outcome>>

Finish ==
    /\ outcome = "searching"
    /\ \A m \in Module : ~Helps(m)
    /\ outcome' = IF Unresolved \subseteq Made THEN "linked" ELSE "unresolved"
    /\ UNCHANGED <<inputs, program>>

Stop ==
    /\ outcome = "searching"
    /\ outcome' = "stopped"
    /\ UNCHANGED <<inputs, program>>

Next == Load \/ Finish \/ Stop

Spec == Init /\ [][Next]_vars
=============================================================================
