---------------------------- MODULE MCAssembler ----------------------------
(* Small sources: all texts of conditionals, nested conditionals, and macros   *)
(* with local labels, loops and early exits.                                   *)
EXTENDS Assembler

MCLabels == {"x", "v"}
MCMacros == {"m", "n"}

Op(ops)     == [op : ops]
Cond(ops)   == [op : ops, value : BOOLEAN]
Named(ops)  == [op : ops, label : {"x"}]
Of(kind, m) == [op |-> kind, macro |-> m]

UpTo(S, n)  == UNION {[1 .. k -> S] : k \in 0 .. n}
Before(s, S) == {s \o t : t \in S}
Concat(S, T) == UNION {Before(s, T) : s \in S}

\* Texts of conditionals.
Flat == UpTo(Op({"insn", "else", "endif"}) \cup Cond({"if", "elif"}), 5)

\* A conditional of two or three branches in a branch of another.
Block(S) ==
    LET one == [op |-> "insn"]
        Opens(k, v) == <<[op |-> k, value |-> v]>>
    IN  {Opens("if", a) \o s \o Opens("elif", b) \o <<one, [op |-> "else"]>> \o t \o <<[op |-> "endif"]>> :
            a, b \in BOOLEAN, s \in S, t \in S}
Deep == Block({<<[op |-> "insn"]>>} \cup Block({<<[op |-> "insn"]>>}))

\* A macro and its calls.
InMacro == Named({"label", "goto", "local"}) \cup Op({"exitm", "endif", "endw"})
               \cup {[op |-> "if", value |-> TRUE], [op |-> "while", value |-> TRUE]}
After   == Named({"label", "goto", "ifdef"}) \cup Op({"insn", "endif"}) \cup {Of("call", "m")}
Calls(S) == {s \in S : \E i \in DOMAIN s : s[i] = Of("call", "m")}
Define(m, S) == {<<Of("macro", m)>> \o s \o <<[op |-> "endm"]>> : s \in S}

OneMacro == Concat(Define("m", UpTo(InMacro, 3)), Calls(UpTo(After, 2)))
                \cup Concat(Define("m", UpTo(InMacro, 2)), Calls(UpTo(After, 3)))

\* A macro that calls a macro.
TwoMacros ==
    Concat(Define("m", UpTo(Named({"label", "local", "goto"}), 2)),
           Concat(Define("n", Calls(UpTo(After \cup Named({"local"}) \cup Op({"exitm"}), 2))),
                  {<<Of("call", "n")>>, <<Of("call", "n"), Of("call", "m")>>}))

\* A loop that calls a macro.
Calling ==
    Concat(Define("m", UpTo(Named({"label", "local", "goto"}), 2)),
           Concat({<<[op |-> "while", value |-> TRUE]>>},
                  Concat(Calls(UpTo(After, 2)), {<<[op |-> "endw"]>>})))

\* Calls of a macro that is not yet defined.
Early == Concat({<<Of("call", "m")>>},
                Concat(Define("m", UpTo(Named({"label", "local"}), 2)), UpTo(After, 1)))

\* A macro that only pass 2 executes.
Late == Concat(Define("m", UpTo(Named({"label", "local"}), 2)),
               Before(<<[op |-> "ifdef", label |-> "x"], Of("call", "m"), [op |-> "endif"],
                        [op |-> "label", label |-> "x"]>>, UpTo(After, 2)))

\* Loops, and macros defined twice or in the middle of a loop.
Loops == Before(<<[op |-> "while", value |-> TRUE]>>,
             UpTo(Op({"insn", "endw", "endm", "exitm"}) \cup Named({"label", "local"})
                      \cup Cond({"while"}) \cup {Of("macro", "m"), Of("call", "m")}, 3))

\* Loops that count, and conditionals on what they count.
Count     == [op |-> "set", label |-> "v", more |-> TRUE, n |-> 1]
Clear     == [op |-> "set", label |-> "v", more |-> FALSE, n |-> 0]
Less(ops) == [op : ops, var : {"v"}, below : {1}]
Counting ==
    UpTo({Count, Clear} \cup Less({"if", "while"}) \cup Op({"insn", "endif", "endw"})
             \cup Named({"label"}), 4)
        \cup Concat({<<Clear, [op |-> "while", var |-> "v", below |-> 2], Count>>},
                    Concat(UpTo(Less({"if", "elif"}) \cup Op({"insn", "else", "endif"}) \cup Named({"label", "goto"}), 3),
                           {<<[op |-> "endw"]>>, <<[op |-> "endw"], [op |-> "label", label |-> "x"]>>}))
        \cup Concat(Before(<<[op |-> "if", var |-> "v", below |-> 1]>>,
                           UpTo(Op({"insn", "else", "endif"}) \cup Named({"label", "goto"}), 3)),
                    {<<Clear>>, <<Count>>})
        \cup Concat(Define("m", UpTo({Count, [op |-> "local", label |-> "v"]} \cup Less({"if"})
                                        \cup Op({"insn", "endif"}) \cup Named({"label", "local"}), 3)),
                    {<<Clear, Of("call", "m"), Of("call", "m")>>, <<Of("call", "m"), Of("call", "m"), Clear>>})

MCPrograms == Flat \cup Deep \cup OneMacro \cup TwoMacros \cup Calling \cup Early \cup Late \cup Loops
                  \cup Counting
=============================================================================
