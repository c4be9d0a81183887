---------------------------- MODULE MCCoffMerge ----------------------------
(***************************************************************************)
(* Objects of up to four sections for CoffMerge, with two names and what   *)
(* they can hold: code, initialised data, overlays, absolute sections.     *)
(***************************************************************************)
EXTENDS CoffMerge, TLC

X == <<2, 0>>
Y == <<3, 0>>
Config == <<1, 0>>

Part(nm, type, size, label, ref) ==
    [name |-> nm, flags |-> [type |-> type, overlay |-> FALSE, absolute |-> FALSE],
     address |-> 0, size |-> size, label |-> label, ref |-> ref]
Overlay(nm, size) == [Part(nm, "udata", size, size - 1, 0) EXCEPT !.flags.overlay = TRUE]
At(p, a) == [p EXCEPT !.address = a, !.flags.absolute = TRUE]

Codes  == {Part(X, "code", 2, 0, 1), Part(X, "code", 4, 2, 2)}
Datas  == {Part(X, "udata", 2, 1, 0), Part(X, "udata", 0, 0, 0)}
Inits  == {Part(nm, "idata", n, n - 1, 0) : nm \in {X, Y}, n \in {1, 3}}
Shares == {Overlay(nm, n) : nm \in {X, Y}, n \in {1, 2}}
Fixed  == {At(Part(X, "code", 2, 0, 0), a) : a \in {0, 4}}
            \cup {At(Overlay(X, 2), a) : a \in {0, 4}}
            \cup {Part(Config, "code", 2, 0, 0), At(Overlay(X, 1), 4)}

Parts == Codes \cup Datas \cup Inits \cup Shares \cup Fixed

Lists(S, ns) == UNION {[1 .. n -> S] : n \in ns}

Objects(lists) == [sections : lists, pic16e : BOOLEAN, mplink : {FALSE}]

MCInput == Objects(Lists(Parts, {2, 3})) \cup Objects(Lists(Inits, {4}))
            \cup [sections : Lists(Parts, {1}), pic16e : BOOLEAN, mplink : BOOLEAN]
=============================================================================
