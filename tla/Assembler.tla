------------------------------ MODULE Assembler ------------------------------
(***************************************************************************)
(* The two passes of gpasm over a source with conditionals, loops and      *)
(* macros with local labels: assemble of gpasm.c, the directives of        *)
(* directive.c, the stack of sources of scan.l and parse.y, the symbol     *)
(* tables of macro.c and set_global of util.c.                             *)
(*                                                                         *)
(* Every instruction takes one address.  Macros have no parameters, but    *)
(* the table of parameters that a call opens is kept.  Messages count in   *)
(* pass 2 only.                                                            *)
(***************************************************************************)
EXTENDS Integers, FiniteSets, SequencesExt

CONSTANTS
    Programs,   \* sources, END follows their last line
    Labels, Macros,
    MaxLoops    \* WHILE_LOOP_COUNT_MAX

Line ==
    [op : {"insn", "else", "endif", "endm", "exitm", "endw"}]
        \cup [op : {"label", "goto", "local", "ifdef"}, label : Labels]
        \cup [op : {"if", "elif", "while"}, value : BOOLEAN]
        \cup [op : {"if", "elif", "while"}, var : Labels, below : Nat]   \* var < below
        \cup [op : {"set"}, label : Labels, more : BOOLEAN, n : Nat]     \* n, or label + n
        \cup [op : {"macro", "call"}, macro : Macros]

ASSUME AssemblerAssumption ==
    /\ Programs \subseteq Seq(Line)
    /\ MaxLoops \in Nat \ {0}

VARIABLES
    source, pass,
    pc,          \* "lines", "done", "exited" or "crashed"
    stack,       \* state.src_list, the innermost context last
    conditions,  \* state.astack, the innermost conditional last
    macros,      \* state.stMacros: macro -> the lines of its body
    definition,  \* where state.mac_prev appends: "none", "while", "lost" or a macro
    while,       \* state.while_head and state.while_depth
    tables,      \* all symbol tables: label -> variable_t, its value and whether its
                 \* type is VAL_VARIABLE, or Unassigned
    scopes,      \* the tables from stGlobal to stTop
    parameters,  \* the number of tables of macro parameters
    expansions,  \* macro_table_list: the table and line of each call of pass 1
    replayed,    \* how many of them pass 2 has passed, macro_table_ptr
    address,     \* state.byte_addr
    emitted,     \* the instructions of pass 2: line, label and value
    placed,      \* history: where each pass placed labels, with the tables inside
                 \* that of the label
    errors,
    unexpected,  \* pass 2 warned of a macro that pass 1 did not execute
    differs      \* GPE_DIFFLAB was reported

text     == <<stack, conditions, macros, definition, while>>
symbols  == <<tables, scopes, parameters, expansions, replayed>>
output   == <<address, emitted, placed>>
messages == <<errors, unexpected, differs>>
vars     == <<source, pass, pc, text, symbols, output, messages>>

NoValue == -1

Top(seq) == seq[Len(seq)]

\* Lists are popped from the end.
Without(seq) == SubSeq(seq, 1, Len(seq) - 1)

\* A loop remembers the line of its condition.
Context(kind, body, parms) ==
    [kind |-> kind, body |-> body, at |-> 1, loop |-> 1, astack |-> 0, parms |-> parms]

NoWhile == [line |-> 0, body |-> << >>, depth |-> 0]

-----------------------------------------------------------------------------
(***************************************************************************)
(* Lines.  A body is a list of numbers of lines of the source.             *)
(***************************************************************************)
Here(ctx) == IF ctx.kind = "file" THEN ctx.at ELSE ctx.body[ctx.at]

AtEnd(ctx) == ctx.at > (IF ctx.kind = "file" THEN Len(source) ELSE Len(ctx.body))

\* The line that is read next.
Reads(op) ==
    /\ pc = "lines"
    /\ ~AtEnd(Top(stack))
    /\ source[Here(Top(stack))].op = op

line == source[Here(Top(stack))]

\* next_line.
Advanced == [stack EXCEPT ![Len(stack)].at = @ + 1]

\* asm_enabled
Enabled == conditions # << >> => Top(conditions).enabled /\ Top(conditions).upper

InDefinition == definition # "none"

\* A report of pass 1 is dropped.
Report(e) == errors' = (errors \/ (pass = 2 /\ e))

\* do_or_append_insn: what a definition does not append.
EndsDefinition(op) ==
    \/ op = "endm"
    \/ op = "endw" /\ while.line # 0 /\ while.depth = 1

AppendLine ==
    /\ pc = "lines" /\ ~AtEnd(Top(stack)) /\ InDefinition
    /\ ~EndsDefinition(line.op)
    /\ macros' = IF definition \in Macros
                 THEN [macros EXCEPT ![definition] = Append(@, Here(Top(stack)))] ELSE macros
    /\ while' = [while EXCEPT
           !.body  = IF definition = "while" THEN Append(@, Here(Top(stack))) ELSE @,
           !.depth = IF while.line = 0 THEN @
                     ELSE IF line.op = "while" THEN @ + 1
                     ELSE IF line.op = "endw" THEN @ - 1 ELSE @]
    /\ stack' = Advanced
    /\ UNCHANGED <<source, pass, pc, conditions, definition, symbols, output, messages>>

\* Lines that are not conditionals do nothing where assembly is disabled.
Skip ==
    /\ pc = "lines" /\ ~AtEnd(Top(stack)) /\ ~InDefinition /\ ~Enabled
    /\ line.op \notin {"if", "ifdef", "elif", "else", "endif"}
    /\ stack' = Advanced
    /\ UNCHANGED <<source, pass, pc, conditions, macros, definition, while, symbols, output, messages>>

\* The guard of a handler, by do_insn.
Does(op) == Reads(op) /\ ~InDefinition /\ Enabled

Stays == UNCHANGED <<source, pass, pc>>

-----------------------------------------------------------------------------
(***************************************************************************)
(* Symbols                                                                 *)
(***************************************************************************)
\* gp_sym_get_symbol from stTop: the table of the symbol, 0 if there is none.
Table(n) ==
    LET has == {i \in DOMAIN scopes : n \in DOMAIN tables[scopes[i]]}
    IN  IF has = {} THEN 0 ELSE scopes[CHOOSE i \in has : \A j \in has : j <= i]

Unassigned == [value |-> NoValue, variable |-> FALSE]

Value(n) == IF Table(n) = 0 THEN NoValue ELSE tables[Table(n)][n].value

\* The tables that are searched before t.
Inner(t) == {scopes[i] : i \in {j \in DOMAIN scopes : \E k \in 1 .. j - 1 : scopes[k] = t}}

Entered(t, n, v) ==
    [tables EXCEPT ![t] = [m \in DOMAIN @ \cup {n} |-> IF m = n THEN v ELSE @[m]]]

Emit(word) ==
    /\ emitted' = IF pass = 2 THEN Append(emitted, word) ELSE emitted
    /\ address' = address + 1
    /\ UNCHANGED placed

Insn ==
    /\ Does("insn")
    /\ Emit([line |-> Here(Top(stack)), table |-> 0, label |-> "", value |-> NoValue])
    /\ stack' = Advanced
    /\ UNCHANGED <<conditions, macros, definition, while, symbols, messages>>
    /\ Stays

\* An instruction with the address of a label.  A label that is not found is an
\* error, one that has no value yet a warning, and stands for 0.
Goto ==
    /\ Does("goto")
    /\ Emit([line  |-> Here(Top(stack)), table |-> Table(line.label),
             label |-> line.label,       value |-> Value(line.label)])
    /\ Report(Table(line.label) = 0)
    /\ stack' = Advanced
    /\ UNCHANGED <<conditions, macros, definition, while, symbols, unexpected, differs>>
    /\ Stays

\* Mutant of Conflict: a label that was found has its value.
NoConflict(n) == FALSE

\* set_global compares the address with that of pass 1.
Conflict(n) == pass = 2 /\ Value(n) \notin {NoValue, address}

\* A label: set_global.
Label ==
    /\ Does("label")
    /\ LET n == line.label
           t == IF Table(n) = 0 THEN 1 ELSE Table(n)
       IN  /\ tables' = IF Value(n) # NoValue THEN tables
                        ELSE Entered(t, n, [value |-> address, variable |-> FALSE])
           /\ placed' = placed \cup {[pass |-> pass, table |-> t, label |-> n, value |-> address,
                                     inner |-> Inner(t)]}
           /\ Report(Conflict(n))
           /\ differs' = (differs \/ Conflict(n))
    /\ stack' = Advanced
    /\ UNCHANGED <<conditions, macros, definition, while, scopes, parameters, expansions, replayed>>
    /\ UNCHANGED <<address, emitted, unexpected>>
    /\ Stays

\* An expression with a symbol that has no value stands for 0.
Sum(n, k) == IF Value(n) = NoValue THEN 0 ELSE Value(n) + k

\* set: set_global with VAL_VARIABLE.  A symbol keeps the type it was made with.
Set ==
    /\ Does("set")
    /\ LET n == line.label
           t == IF Table(n) = 0 THEN 1 ELSE Table(n)
       IN  tables' = Entered(t, n,
               [value    |-> IF line.more THEN Sum(n, line.n) ELSE line.n,
                variable |-> Value(n) = NoValue \/ tables[t][n].variable])
    /\ Report(line.more /\ Table(line.label) = 0)
    /\ stack' = Advanced
    /\ UNCHANGED <<conditions, macros, definition, while, scopes, parameters, expansions, replayed>>
    /\ UNCHANGED <<output, unexpected, differs>>
    /\ Stays

\* eval_maybe_evaluate of a condition: a variable without value makes it false.
Holds(cond) ==
    IF "value" \in DOMAIN cond THEN cond.value
                               ELSE Value(cond.var) \in 0 .. cond.below - 1

\* The condition names a symbol that is not defined.
Fails(cond) == "var" \in DOMAIN cond /\ Table(cond.var) = 0

Local ==
    /\ Does("local")
    /\ LET n == line.label IN
       /\ tables' = IF Len(scopes) = 1 \/ n \in DOMAIN tables[Top(scopes)] THEN tables
                    ELSE Entered(Top(scopes), n, Unassigned)
       /\ Report(Len(scopes) = 1)
    /\ stack' = Advanced
    /\ UNCHANGED <<conditions, macros, definition, while, scopes, parameters, expansions, replayed>>
    /\ UNCHANGED <<output, unexpected, differs>>
    /\ Stays

-----------------------------------------------------------------------------
(***************************************************************************)
(* Conditionals.  They are processed in disabled text too.  An else leaves *)
(* the mode as it is, so no check of the mode ever fails.                  *)
(***************************************************************************)
\* The addresses that malloc may return for a new amode_t: an unused one, or one
\* that was freed and that the caller of a macro or a loop still refers to.
Live     == {conditions[i].cell : i \in DOMAIN conditions}
Dangling == {stack[i].astack : i \in 1 .. Len(stack) - 1} \ (Live \cup {0})

FreeCells ==
    Dangling \cup {Min((1 .. Len(conditions) + Len(stack)) \ (Live \cup Dangling))}

\* Mutant of UpperEnabled: the outer conditionals are forgotten.
UpperAlways == TRUE

UpperEnabled == Enabled

\* _enter_if, with the value of the condition if it matters.
Enter(value) ==
    /\ \E c \in FreeCells :
        conditions' = Append(conditions, [cell    |-> c,
                                          upper   |-> UpperEnabled,
                                          enabled |-> UpperEnabled /\ value,
                                          before  |-> UpperEnabled /\ value])
    /\ stack' = Advanced
    /\ UNCHANGED <<macros, definition, while, symbols, output, unexpected, differs>>
    /\ Stays

If ==
    /\ Reads("if") /\ ~InDefinition
    /\ Enter(Holds(line))
    /\ Report(UpperEnabled /\ Fails(line))

Ifdef ==
    /\ Reads("ifdef") /\ ~InDefinition
    /\ Enter(Table(line.label) # 0)
    /\ UNCHANGED errors

\* _enter_elif reports that there is no conditional and then changes its mode.
Elif ==
    /\ Reads("elif") /\ ~InDefinition
    /\ IF conditions = << >>
       THEN pc' = "crashed" /\ UNCHANGED <<conditions, stack, errors>>
       ELSE /\ conditions' = IF ~Top(conditions).upper THEN conditions
                  ELSE [conditions EXCEPT ![Len(conditions)].enabled = Holds(line),
                                          ![Len(conditions)].before  = @ \/ Holds(line)]
            /\ Report(Top(conditions).upper /\ Fails(line))
            /\ stack' = Advanced
            /\ UNCHANGED pc
    /\ UNCHANGED <<source, pass, macros, definition, while, symbols, output, unexpected, differs>>

Else ==
    /\ Reads("else") /\ ~InDefinition
    /\ conditions' = IF conditions = << >> THEN conditions
           ELSE [conditions EXCEPT ![Len(conditions)].enabled = ~Top(conditions).before]
    /\ Report(conditions = << >>)
    /\ stack' = Advanced
    /\ UNCHANGED <<macros, definition, while, symbols, output, unexpected, differs>>
    /\ Stays

Endif ==
    /\ Reads("endif") /\ ~InDefinition
    /\ conditions' = IF conditions = << >> THEN conditions ELSE Without(conditions)
    /\ Report(conditions = << >>)
    /\ stack' = Advanced
    /\ UNCHANGED <<macros, definition, while, symbols, output, unexpected, differs>>
    /\ Stays

-----------------------------------------------------------------------------
(***************************************************************************)
(* Macros and loops                                                        *)
(***************************************************************************)
\* What state.astack points to, 0 for NULL.
Astack(conds) == IF conds = << >> THEN 0 ELSE Top(conds).cell

\* A second macro of a name is reported, and its body is lost.
Macro ==
    /\ Does("macro")
    /\ LET known == line.macro \in DOMAIN macros IN
       /\ macros' = IF known THEN macros
                    ELSE [m \in DOMAIN macros \cup {line.macro} |->
                             IF m = line.macro THEN << >> ELSE macros[m]]
       /\ definition' = IF known THEN "lost" ELSE line.macro
       /\ Report(known)
    /\ stack' = Advanced
    /\ UNCHANGED <<conditions, while, symbols, output, unexpected, differs>>
    /\ Stays

Endm ==
    /\ Reads("endm") /\ (InDefinition \/ Enabled)
    /\ definition' = "none"
    /\ Report(~InDefinition)
    /\ stack' = Advanced
    /\ UNCHANGED <<conditions, macros, while, symbols, output, unexpected, differs>>
    /\ Stays

\* execute_macro: the context that calls keeps the conditionals.
Pushed(kind, body, parms) ==
    Append([Advanced EXCEPT ![Len(stack)].astack = Astack(conditions)], Context(kind, body, parms))

\* The sanity check of macro_push_symbol_table: it compares the numbers of lines only,
\* which tell two calls apart here, where all lines are of one file.
SameCall == expansions[replayed + 1].line = Here(Top(stack))

\* macro_setup and macro_push_symbol_table: pass 1 makes a table for each call,
\* pass 2 takes them one after the other, or a new one for a call on another line.
Call ==
    /\ Does("call")
    /\ IF line.macro \notin DOMAIN macros
       THEN Report(TRUE) /\ stack' = Advanced /\ UNCHANGED <<pc, symbols, unexpected>>
       ELSE IF pass = 2 /\ replayed = Len(expansions)
       THEN pc' = "exited" /\ UNCHANGED <<stack, symbols, errors, unexpected>>
       ELSE LET new == pass = 1 \/ ~SameCall
                t   == IF new THEN Len(tables) + 1 ELSE expansions[replayed + 1].table
            IN  /\ tables' = IF new THEN Append(tables, [n \in {} |-> Unassigned]) ELSE tables
                /\ scopes' = Append(scopes, t)
                /\ parameters' = parameters + 1
                /\ expansions' = IF pass = 1
                       THEN Append(expansions, [table |-> t, line |-> Here(Top(stack))])
                       ELSE expansions
                /\ replayed' = IF new THEN replayed ELSE replayed + 1
                /\ unexpected' = (unexpected \/ (pass = 2 /\ new))
                /\ stack' = Pushed("macro", macros[line.macro], 0)
                /\ UNCHANGED <<pc, errors>>
    /\ UNCHANGED <<source, pass, conditions, macros, definition, while, output, differs>>

\* Mutant of ClosesScope: the end of a loop in a macro is the end of the macro.
ClosesScopeOfAny(ctx) == Len(scopes) > 1

ClosesScope(ctx) == ctx.kind = "macro"

\* close_file
Close(stk, conds) ==
    LET ctx == Top(stk)  rest == Without(stk) IN
    /\ stack' = rest
    /\ conditions' = conds
    /\ scopes' = IF ClosesScope(ctx) THEN Without(scopes) ELSE scopes
    /\ parameters' = IF ctx.kind = "macro" THEN parameters - 1 ELSE parameters
    /\ UNCHANGED <<macros, definition, while, tables, expansions, replayed, output>>

IllegalNesting(stk, conds) ==
    Top(stk).kind = "macro" /\ Top(Without(stk)).astack # Astack(conds)

\* execute_exitm: conditionals are taken off up to the one that was open at the
\* call of the innermost context, if it is still there.
CutTo(cell) ==
    LET here == {i \in DOMAIN conditions : conditions[i].cell = cell}
    IN  IF here = {} THEN << >> ELSE SubSeq(conditions, 1, CHOOSE i \in here : TRUE)

Exitm ==
    /\ Does("exitm")
    /\ LET cut == CutTo(Top(Without(Advanced)).astack) IN
       IF Len(scopes) = 1
       THEN /\ Report(TRUE)
            /\ stack' = Advanced
            /\ UNCHANGED <<conditions, macros, definition, while, symbols, output>>
       ELSE Report(IllegalNesting(Advanced, cut)) /\ Close(Advanced, cut)
    /\ UNCHANGED <<unexpected, differs>>
    /\ Stays

\* _do_while asserts that no loop is being defined.
While ==
    /\ Does("while")
    /\ IF while.depth # 0
       THEN pc' = "crashed" /\ UNCHANGED <<stack, definition, while>>
       ELSE /\ while' = [line |-> Here(Top(stack)), body |-> << >>, depth |-> 1]
            /\ definition' = "while"
            /\ stack' = Advanced
            /\ UNCHANGED pc
    /\ UNCHANGED <<source, pass, conditions, macros, symbols, output, messages>>

\* _do_endw
Endw ==
    /\ Reads("endw")
    /\ IF InDefinition THEN EndsDefinition("endw") ELSE Enabled
    /\ stack' = IF InDefinition /\ Holds(source[while.line])
                THEN Pushed("while", while.body, while.line) ELSE Advanced
    /\ definition' = "none"
    /\ while' = [NoWhile EXCEPT !.depth = IF InDefinition THEN 0 ELSE while.depth]
    /\ Report(IF InDefinition THEN Fails(source[while.line]) ELSE TRUE)
    /\ UNCHANGED <<conditions, macros, symbols, output, unexpected, differs>>
    /\ Stays

\* Mutant of Round: the rounds are not counted.
SameRound(ctx) == [ctx EXCEPT !.at = 1]

\* repeat_while
Round(ctx) == [ctx EXCEPT !.at = 1, !.loop = @ + 1]

\* The condition of the loop that is ending, evaluated once more.
Again == Top(stack).kind = "while" /\ Holds(source[Top(stack).parms])

\* _found_eof: a loop whose condition holds is repeated, so often.
EndOfBody ==
    /\ pc = "lines" /\ AtEnd(Top(stack)) /\ Top(stack).kind # "file"
    /\ IF Again /\ Top(stack).loop <= MaxLoops
       THEN /\ stack' = [stack EXCEPT ![Len(stack)] = Round(@)]
            /\ UNCHANGED <<conditions, macros, definition, while, symbols, output, errors>>
       ELSE /\ Report(IF Top(stack).kind = "while" THEN Again \/ Fails(source[Top(stack).parms])
                      ELSE IllegalNesting(stack, conditions))
            /\ Close(stack, conditions)
    /\ UNCHANGED <<unexpected, differs>>
    /\ Stays

-----------------------------------------------------------------------------
\* END, after the last line.  A definition takes it, and disabled text passes it:
\* then it is the end of the file that closes the source, with an error.
Ends == pc = "lines" /\ AtEnd(Top(stack)) /\ Top(stack).kind = "file"

\* Mutant of WithoutVariables: variables keep the values they have after pass 1.
WithVariables == tables

\* delete_variable_symbols: from stTop down, not from the tables of the calls.
WithoutVariables ==
    [t \in DOMAIN tables |->
        IF t \notin Range(scopes) THEN tables[t]
        ELSE Restrict(tables[t], {n \in DOMAIN tables[t] : ~tables[t][n].variable})]

\* What assemble resets between the passes, and what it keeps: the constants and
\* the tables of the calls.
EndPass1 ==
    /\ Ends /\ pass = 1
    /\ pass' = 2
    /\ stack' = <<Context("file", << >>, 0)>>
    /\ conditions' = << >> /\ macros' = [m \in {} |-> << >>]
    /\ tables' = WithoutVariables
    /\ definition' = "none" /\ while' = NoWhile
    /\ parameters' = 0 /\ address' = 0
    /\ UNCHANGED <<source, pc, scopes, expansions, replayed, emitted, placed, messages>>

EndPass2 ==
    /\ Ends /\ pass = 2
    /\ pc' = "done"
    /\ Report(InDefinition \/ ~Enabled)
    /\ UNCHANGED <<source, pass, text, symbols, output, unexpected, differs>>

Init ==
    /\ source \in Programs
    /\ pass = 1 /\ pc = "lines"
    /\ stack = <<Context("file", << >>, 0)>>
    /\ conditions = << >> /\ macros = [m \in {} |-> << >>]
    /\ definition = "none" /\ while = NoWhile
    /\ tables = <<[n \in {} |-> Unassigned]>> /\ scopes = <<1>> /\ parameters = 0
    /\ expansions = << >> /\ replayed = 0
    /\ address = 0 /\ emitted = << >> /\ placed = {}
    /\ errors = FALSE /\ unexpected = FALSE /\ differs = FALSE

Next ==
    \/ AppendLine \/ Skip
    \/ Insn \/ Goto \/ Label \/ Set \/ Local
    \/ If \/ Ifdef \/ Elif \/ Else \/ Endif
    \/ Macro \/ Endm \/ Call \/ Exitm \/ While \/ Endw \/ EndOfBody
    \/ EndPass1 \/ EndPass2

Spec == Init /\ [][Next]_vars /\ WF_vars(Next)

-----------------------------------------------------------------------------
(***************************************************************************)
(* Properties                                                              *)
(***************************************************************************)
Kinds == {source[i].op : i \in DOMAIN source}

\* Each macro being expanded has a table of symbols and one of parameters open,
\* and nothing else has: a loop, an early exit and the end of a pass keep the
\* scopes of local labels in step with the stack of sources (close_file).
ScopesBalanced ==
    LET expanded == {i \in DOMAIN stack : stack[i].kind = "macro"}
    IN  /\ Len(scopes) = Cardinality(expanded) + 1
        /\ parameters = Cardinality(expanded)

\* The names that are set, as variables are.
Varying == {source[i].label : i \in {j \in DOMAIN source : source[j].op = "set"}}

\* When pass 2 ends without errors, an instruction has the address at which pass
\* 2 placed the label it names, in the table in which it found that label, unless
\* it was warned that the label had no value: set_global compares each label of
\* pass 2 with the value of pass 1.
ReferencesAreTrue ==
    pc = "done" /\ ~errors =>
        \A word \in Range(emitted), p \in placed :
            /\ p.pass = 2 /\ p.table = word.table /\ p.label = word.label
            /\ word.value # NoValue /\ p.label \notin Varying
            => p.value = word.value

\* The conditional at line j is open at line i.
Encloses(j, i) ==
    /\ source[j].op = "if" /\ j < i
    /\ \A k \in j + 1 .. i - 1 :
          Cardinality({l \in j .. k : source[l].op = "if"})
              > Cardinality({l \in j .. k : source[l].op = "endif"})

\* The lines that begin the branches of the conditional at line j, and its end.
Branches(j) ==
    {j} \cup {k \in DOMAIN source :
              /\ source[k].op \in {"elif", "else"} /\ Encloses(j, k)
              /\ \A l \in j + 1 .. k - 1 : ~Encloses(l, k)}

\* Each conditional is closed, and its else is the last branch.
WellFormed ==
    /\ Kinds \subseteq {"insn", "if", "elif", "else", "endif"}
    /\ \A i \in DOMAIN source : "var" \notin DOMAIN source[i]
    /\ ~\E j \in DOMAIN source : Encloses(j, Len(source) + 1)
    /\ \A i \in DOMAIN source :
          /\ source[i].op \in {"elif", "else"} => \E j \in 1 .. i - 1 : i \in Branches(j)
          /\ source[i].op = "endif" => \E j \in DOMAIN source : Encloses(j, i)
          /\ source[i].op = "else" =>
                \A j \in DOMAIN source : i \in Branches(j) => i = Max(Branches(j))

\* A branch is assembled if its condition holds; else, if no condition did.
Chosen(j, k) ==
    IF source[k].op = "else" THEN \A b \in Branches(j) \ {k} : ~source[b].value
                             ELSE source[k].value

\* What is assembled of nested conditionals is what their text says, line by line:
\* the lines all of whose enclosing conditionals choose their branch (_enter_if,
\* _do_elif, _do_else, _do_endif and asm_enabled).
BranchesAreChosen ==
    pc = "done" /\ WellFormed =>
        /\ ~errors
        /\ {emitted[n].line : n \in DOMAIN emitted} =
              {i \in DOMAIN source :
                  /\ source[i].op = "insn"
                  /\ \A j \in DOMAIN source : Encloses(j, i) =>
                        Chosen(j, Max({k \in Branches(j) : k < i}))}

\* In pass 1 a label was placed twice, or placed outside a macro's table that
\* declared it local later.
Ambiguous ==
    \E p \in placed :
        /\ p.pass = 1
        /\ \/ \E q \in placed : /\ q.pass = 1 /\ q.label = p.label
                               /\ q.table = p.table /\ q.value # p.value
           \/ \E t \in p.inner : p.label \in DOMAIN tables[t]

\* The lines of the macro or loop that begins at line i.
Body(i, end) ==
    {j \in i + 1 .. Len(source) : \A k \in i + 1 .. j : source[k].op # end}

\* No macro ends a conditional of its caller.
Nested ==
    \A i \in DOMAIN source : source[i].op \in {"macro", "while"} =>
        \A j \in Body(i, IF source[i].op = "macro" THEN "endm" ELSE "endw") :
            source[j].op \in {"endif", "else", "elif"} => \E k \in i + 1 .. j - 1 : Encloses(k, j)

\* No name is a label or a local symbol, and set too.
ProperVariables ==
    \A i \in DOMAIN source : source[i].op \in {"label", "local"} => source[i].label \notin Varying

\* Unless conditionals ask what is defined the passes agree, whatever loops count and
\* conditionals compare: pass 2 places every label where pass 1 did, and executes
\* the macros that pass 1 executed, each with the table of its call
\* (macro_push_symbol_table, delete_variable_symbols).
PassesAgree ==
    pass = 2 /\ "ifdef" \notin Kinds /\ Nested /\ ~Ambiguous /\ ProperVariables =>
        ~differs /\ ~unexpected /\ pc # "exited"

\* Macros are defined before they are called, and do not call themselves.
DefinedFirst ==
    \A i, j \in DOMAIN source :
        source[i].op = "macro" /\ source[j].op = "call" /\ source[i].macro = source[j].macro
            => \E k \in i + 1 .. j - 1 : source[k].op = "endm"

\* Assembly ends, though a loop whose condition never changes is given up only
\* after WHILE_LOOP_COUNT_MAX rounds (_found_eof).
Termination == DefinedFirst => <>(pc # "lines")
=============================================================================
