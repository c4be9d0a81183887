------------------------ MODULE MCSectionPlacement ------------------------
(***************************************************************************)
(* Objects of up to three sections and three linker scripts for            *)
(* SectionPlacement.  The memories are a dozen bytes large, so that        *)
(* sections compete for blocks, fill them exactly and run out of them.     *)
(***************************************************************************)
EXTENDS SectionPlacement, TLC

Code(n)    == [kind |-> "code", size |-> n, abs |-> FALSE, address |-> 0, logical |-> 0,
               cinit |-> FALSE, plain |-> TRUE, fill |-> 0, symbol |-> 0]
Cinit(n)   == [Code(n) EXCEPT !.cinit = TRUE]
CodeAt(a, n) == [Code(n) EXCEPT !.abs = TRUE, !.address = a]
Data(kind, n) == [Code(n) EXCEPT !.kind = kind, !.symbol = 1]
DataAt(a, n)  == [Data("data", n) EXCEPT !.abs = TRUE, !.address = a]
In(d, s)      == [s EXCEPT !.logical = d]
Fill1(s)      == [s EXCEPT !.fill = 1]

Bank(kind, start, end) ==
    [kind |-> kind, start |-> start, end |-> end, protected |-> FALSE, shift |-> 0, fill |-> FALSE]

\* Two code pages, the second with a fill value; two banks and shared memory.
BankedScript ==
    <<Bank("data", 0, 3),
      Bank("code", 0, 7),
      Bank("data", 4, 6),
      [Bank("code", 8, 11) EXCEPT !.fill = TRUE],
      Bank("shared", 12, 13)>>

\* A shared memory that is seen in two places, one of them a definition of its
\* own (7 to 8), a protected code page.
ShadowScript ==
    <<[Bank("code", 0, 3) EXCEPT !.protected = TRUE, !.fill = TRUE],
      Bank("data", 0, 2),
      [Bank("shared", 3, 4) EXCEPT !.shift = 4],
      Bank("code", 4, 7),
      Bank("access", 5, 6),
      [Bank("data", 7, 8) EXCEPT !.protected = TRUE]>>

Scripts == {BankedScript, ShadowScript}

EvenCode == {Code(4), CodeAt(4, 2), In(4, Code(2)), Cinit(2), Fill1(Code(2))}
OddCodeParts == {Code(3), Code(1), [CodeAt(20, 3) EXCEPT !.plain = FALSE], CodeAt(4, 1), In(4, Code(1)),
                 Cinit(2)}
RamParts == {Data("data", 1), Data("data", 3), DataAt(4, 1), DataAt(0, 5), Data("access", 2),
             Data("shared", 1), In(1, Data("data", 2)), In(2, Data("data", 2)),
             In(6, Data("data", 1))}

Lists(S) == {<<s>> : s \in S} \cup {<<s, t>> : s, t \in S} \cup {<<s, t, u>> : s, t, u \in S}

\* A section is assigned to a definition of its own memory.
Fits(inp) ==
    \A i \in DOMAIN inp.sections : inp.sections[i].logical # 0 =>
        /\ inp.sections[i].logical \in DOMAIN inp.definitions
        /\ inp.definitions[inp.sections[i].logical].kind = "code" <=> inp.sections[i].kind = "code"

Inputs(parts, wide) ==
    {inp \in {[sections |-> secs, definitions |-> defs, pic16e |-> wide, mplink |-> m, useShared |-> u] :
                secs \in Lists(parts), defs \in Scripts, m \in BOOLEAN, u \in BOOLEAN} : Fits(inp)}

MCInput == Inputs(EvenCode \cup RamParts, FALSE) \cup Inputs(OddCodeParts, TRUE)

\* These inputs are such that program memory can be placed well.
ASSUME EvenMemory
=============================================================================
