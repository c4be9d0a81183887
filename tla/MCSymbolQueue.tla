---------------------------- MODULE MCSymbolQueue ----------------------------
(***************************************************************************)
(* Sources of a few lines for SymbolQueue: two global labels, a label that *)
(* only pass 2 sees, two expansions of a macro with a local label, and a   *)
(* section that has the name of a label.                                   *)
(***************************************************************************)
EXTENDS SymbolQueue

MCAuxOf == [d \in {".ident"} |-> 1]

Global(n)   == [name |-> n, scope |-> 0]
Local(n, e) == [name |-> n, scope |-> e]
Defined(s)  == [op |-> "label", symbol |-> s, passes |-> {1, 2}]
Used(s)     == [op |-> "use", symbol |-> s]

MCLines ==
    {Defined(Global("x")), Defined(Global("y")), Defined(Local("x", 1)), Defined(Local("x", 2)),
     [op |-> "label", symbol |-> Global("y"), passes |-> {2}],
     Used(Global("x")), Used(Local("x", 2)),
     [op |-> "section", name |-> "s"], [op |-> "section", name |-> "x"],
     [op |-> "directive", name |-> ".ident"],
     [op |-> "include"], [op |-> "close"]}

\* Without a section that has the name of a label.
MCPlainLines == {l \in MCLines : l.op = "section" => l.name = "s"}
=============================================================================
