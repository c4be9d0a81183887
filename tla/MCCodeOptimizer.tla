--------------------------- MODULE MCCodeOptimizer ---------------------------
(***************************************************************************)
(* Objects for CodeOptimizer: the code of section 1 varies, section 2 lies *)
(* behind or before it on its page, section 3 on the other page.           *)
(***************************************************************************)
EXTENDS CodeOptimizer, TLC

X(op, to)    == [op |-> op, to |-> to, size |-> 1]
Wide(op, to) == [op |-> op, to |-> to, size |-> 2]

Second == <<X("pagesel", 1), X("goto", 1)>>
Third  == <<X("nop", 0)>>

\* Label 1 stands in section 1, labels 2 and 3 in the others.
Object(code, at, start, pagesel) ==
    [start |-> <<start, IF start = 0 THEN Size(code) ELSE 0, 16>>,
     code |-> <<code, Second, Third>>,
     labels |-> <<[section |-> 1, insn |-> at], [section |-> 2, insn |-> 2],
                  [section |-> 3, insn |-> 1]>>,
     pagesel |-> pagesel]

\* Windows that fill up: selections and calls of both pages.
Calls == {Wide("pagesel", 2), X("pagesel", 3), X("call", 2), X("call", 3)}
MCCalls == {Object(c, at, start, TRUE) : c \in [1 .. 4 -> Calls], at \in {1, 2}, start \in {0, 2}}
              \cup {Object(c, 1, 0, TRUE) : c \in [1 .. 5 -> Calls]}

\* Two labels of section 1, at one place or at two, where its code and section 2 enter;
\* a removal may leave the one at 2 behind the one at 3.
Entries == {Wide("pagesel", 1), X("call", 2), X("goto", 1), X("goto", 4)}
WithTwin(obj, at) == [obj EXCEPT !.labels = Append(@, [section |-> 1, insn |-> at])]
MCTwins == {WithTwin(Object(c, at[1], 2, TRUE), at[2]) :
               c \in [1 .. 4 -> Entries], at \in {<<1, 1>>, <<2, 2>>, <<1, 2>>, <<3, 2>>}}

\* Everything else, in short sections.
Mixed == {Wide("pagesel", 1), X("pagesel", 3), X("call", 1), X("goto", 1), X("bra", 2),
          Wide("banksel", 0), X("file", 0), X("nop", 0), X("return", 0)}
MCMixed == {Object(c, at, start, TRUE) : c \in [1 .. 3 -> Mixed], at \in {1, 2}, start \in {0, 2}}

Banks == {Wide("banksel", 0), Wide("banksel", 1), X("file", 0), X("file", 1), X("goto", 1)}
MCBanks == {Object(c, at, 0, FALSE) : c \in [1 .. 4 -> Banks], at \in {1, 3}}

MCInput == MCCalls \cup MCTwins \cup MCMixed \cup MCBanks

\* For the violations.
MCSmall == MCBanks \cup {Object(c, 1, 0, TRUE) : c \in [1 .. 4 -> Calls]}
=============================================================================
