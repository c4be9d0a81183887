--------------------------- MODULE AssemblerProofs ---------------------------
(***************************************************************************)
(* The scopes of local labels keep in step with the stack of sources, what *)
(* pass 2 emits for a label is where it places the label, and the stack of *)
(* conditionals selects the lines that the text selects, for all programs. *)
(***************************************************************************)
EXTENDS Assembler, FiniteSetTheorems, WellFoundedInduction, TLAPS

(***************************************************************************)
(* The inductive invariant.                                                *)
(***************************************************************************)
Lines == DOMAIN source

Contexts(cells) ==
    [kind : {"file", "macro", "while"}, body : Seq(Lines), at : Nat \ {0}, loop : Nat,
     astack : cells, parms : Nat]

\* What the contexts of a stack refer to.
Cells(stk) == {stk[i].astack : i \in DOMAIN stk}

\* Only the first context is that of the file.
OneFile(stk) == stk # << >> /\ \A i \in DOMAIN stk : stk[i].kind = "file" <=> i = 1

StackOK(stk) == stk \in Seq(Contexts(Cells(stk))) /\ OneFile(stk)

TextOK ==
    /\ source \in Programs
    /\ StackOK(stack)
    /\ macros \in [DOMAIN macros -> Seq(Lines)]
    /\ while \in [line : Nat, body : Seq(Lines), depth : Int]

Entry == [value : Int, variable : BOOLEAN]

SymbolTable == UNION {[names -> Entry] : names \in SUBSET Labels}

Expansions(tabs) == [table : tabs, line : Lines]

SymbolsOK ==
    /\ tables \in Seq(SymbolTable)
    /\ scopes \in Seq(DOMAIN tables)
    /\ scopes # << >> /\ scopes[1] = 1
    /\ expansions \in Seq(Expansions(DOMAIN tables))
    /\ replayed \in 0 .. Len(expansions)
    /\ parameters \in Int

\* The contexts of macros.
Expanded(stk) == {i \in DOMAIN stk : stk[i].kind = "macro"}

Balanced(stk) ==
    /\ Len(scopes) = Cardinality(Expanded(stk)) + 1
    /\ parameters = Cardinality(Expanded(stk))

\* The table t has the value v for the label.
Has(all, t, label, v) ==
    /\ t \in DOMAIN all
    /\ label \in DOMAIN all[t]
    /\ all[t][label].value = v

\* Pass 1 emits nothing.
FirstPassOnly == pass = 1 => emitted = << >> /\ \A p \in placed : p.pass = 1

\* Labels that do not vary are where the tables say.
PlacesKept ==
    \A p \in placed : p.pass = 2 /\ p.label \notin Varying =>
        p.value # NoValue /\ Has(tables, p.table, p.label, p.value)

\* So are the values of the instructions.
WordsKept ==
    \A n \in DOMAIN emitted :
        emitted[n].value # NoValue /\ emitted[n].label \notin Varying =>
            Has(tables, emitted[n].table, emitted[n].label, emitted[n].value)

Words == [line : Lines, table : Nat, label : Labels \cup {""}, value : Int]

OutputOK ==
    /\ address \in Nat
    /\ pass \in {1, 2}
    /\ errors \in BOOLEAN
    /\ emitted \in Seq(Words)
    /\ FirstPassOnly
    /\ ~errors => PlacesKept
    /\ WordsKept

IInv ==
    /\ TextOK
    /\ SymbolsOK
    /\ Balanced(stack)
    /\ OutputOK

(***************************************************************************)
(* Lines.                                                                  *)
(***************************************************************************)
LEMMA Fields ==
    ASSUME NEW l \in Line
    PROVE  /\ l.op \in {"label", "goto", "local", "ifdef", "set"} => l.label \in Labels
           /\ l.op = "set" => l.more \in BOOLEAN /\ l.n \in Nat
           /\ l.op \in {"macro", "call"} => l.macro \in Macros
<1>1. CASE l \in [op : {"insn", "else", "endif", "endm", "exitm", "endw"}]
  BY <1>1
<1>2. CASE l \in [op : {"label", "goto", "local", "ifdef"}, label : Labels]
  BY <1>2
<1>3. CASE l \in [op : {"if", "elif", "while"}, value : BOOLEAN]
  BY <1>3
<1>4. CASE l \in [op : {"if", "elif", "while"}, var : Labels, below : Nat]
  BY <1>4
<1>5. CASE l \in [op : {"set"}, label : Labels, more : BOOLEAN, n : Nat]
  BY <1>5
<1>6. CASE l \in [op : {"macro", "call"}, macro : Macros]
  BY <1>6
<1>7. QED
  BY <1>1, <1>2, <1>3, <1>4, <1>5, <1>6 DEF Line

LEMMA Stacks ==
    ASSUME NEW stk, StackOK(stk)
    PROVE  /\ Len(stk) \in Nat \ {0} /\ DOMAIN stk = 1 .. Len(stk)
           /\ \A i \in DOMAIN stk : stk[i] \in Contexts(Cells(stk))
           /\ Top(stk) \in Contexts(Cells(stk))
           /\ \A i \in DOMAIN stk : stk[i].kind = "file" <=> i = 1
BY DEF StackOK, OneFile, Top

\* The line that is read is a line of the source.
LEMMA LineRead ==
    ASSUME TextOK, ~AtEnd(Top(stack))
    PROVE  Here(Top(stack)) \in Lines /\ Here(Top(stack)) \in Nat /\ line \in Line
<1>1. source \in Seq(Line)
  BY AssemblerAssumption DEF TextOK
<1>2. Top(stack) \in Contexts(Cells(stack))
  BY Stacks DEF TextOK
<1>3. Here(Top(stack)) \in Lines
  <2> DEFINE ctx == Top(stack)
  <2>1. ctx.at \in Nat \ {0} /\ ctx.body \in Seq(Lines)
    BY <1>2 DEF Contexts
  <2> HIDE DEF ctx
  <2>2. CASE ctx.kind = "file"
    BY <1>1, <2>1, <2>2 DEF AtEnd, Here, Lines, ctx
  <2>3. CASE ctx.kind # "file"
    BY <2>1, <2>3 DEF AtEnd, Here, ctx
  <2>4. QED
    BY <2>2, <2>3 DEF ctx
<1>4. QED
  BY <1>1, <1>3 DEF Lines, line

(***************************************************************************)
(* Stacks.                                                                 *)
(***************************************************************************)
LEMMA InSeq ==
    ASSUME NEW A, NEW s \in Seq(A), NEW B, \A i \in DOMAIN s : s[i] \in B
    PROVE  s \in Seq(B)
OBVIOUS

LEMMA Changed ==
    ASSUME NEW A, NEW s \in Seq(A), NEW i \in DOMAIN s, NEW e \in A
    PROVE  /\ [s EXCEPT ![i] = e] \in Seq(A) /\ DOMAIN [s EXCEPT ![i] = e] = DOMAIN s
           /\ Len([s EXCEPT ![i] = e]) = Len(s)
OBVIOUS

LEMMA OfTheirCells ==
    ASSUME NEW cells, NEW stk \in Seq(Contexts(cells))
    PROVE  stk \in Seq(Contexts(Cells(stk)))
<1>1. ASSUME NEW i \in DOMAIN stk PROVE stk[i] \in Contexts(Cells(stk))
  <2>1. stk[i] \in Contexts(cells)
    OBVIOUS
  <2>2. stk[i].astack \in Cells(stk)
    BY DEF Cells
  <2>3. QED
    BY <2>1, <2>2 DEF Contexts
<1>2. QED
  BY <1>1, InSeq

\* A step that leaves the kinds of the contexts alone.
LEMMA KindsKept ==
    ASSUME NEW stk, StackOK(stk), NEW i \in DOMAIN stk, NEW cells,
           NEW ctx \in Contexts(cells), ctx.kind = stk[i].kind
    PROVE  /\ StackOK([stk EXCEPT ![i] = ctx])
           /\ Expanded([stk EXCEPT ![i] = ctx]) = Expanded(stk)
           /\ Len([stk EXCEPT ![i] = ctx]) = Len(stk)
<1> DEFINE new == [stk EXCEPT ![i] = ctx]
<1>1. /\ Len(stk) \in Nat \ {0} /\ DOMAIN stk = 1 .. Len(stk)
      /\ \A k \in DOMAIN stk : stk[k] \in Contexts(Cells(stk))
      /\ \A k \in DOMAIN stk : stk[k].kind = "file" <=> k = 1
  BY Stacks
<1>2. Contexts(cells) \subseteq Contexts(cells \cup Cells(stk))
      /\ Contexts(Cells(stk)) \subseteq Contexts(cells \cup Cells(stk))
  BY DEF Contexts
<1>3. stk \in Seq(Contexts(cells \cup Cells(stk)))
  <2>1. stk \in Seq(Contexts(Cells(stk)))
    BY DEF StackOK
  <2>2. \A k \in DOMAIN stk : stk[k] \in Contexts(cells \cup Cells(stk))
    BY <1>1, <1>2
  <2>3. QED
    BY <2>1, <2>2, InSeq
<1>4. new \in Seq(Contexts(cells \cup Cells(stk))) /\ DOMAIN new = DOMAIN stk /\ Len(new) = Len(stk)
  <2>1. ctx \in Contexts(cells \cup Cells(stk))
    BY <1>2
  <2>2. QED
    BY <1>3, <2>1, Changed
<1>5. \A k \in DOMAIN stk : new[k] = IF k = i THEN ctx ELSE stk[k]
  BY <1>1
<1> HIDE DEF new
<1>6. \A k \in DOMAIN stk : new[k].kind = stk[k].kind
  BY <1>5
<1>7. Expanded(new) = Expanded(stk)
  BY <1>4, <1>6 DEF Expanded
<1>8. OneFile(new)
  BY <1>1, <1>4, <1>6 DEF OneFile
<1>9. QED
  BY <1>4, <1>7, <1>8, OfTheirCells DEF StackOK, new

LEMMA Advances ==
    ASSUME StackOK(stack)
    PROVE  StackOK(Advanced) /\ Expanded(Advanced) = Expanded(stack)
           /\ Len(Advanced) = Len(stack) /\ Top(Advanced).kind = Top(stack).kind
<1> DEFINE n == Len(stack)  ctx == [stack[n] EXCEPT !.at = @ + 1]
<1>1. n \in DOMAIN stack /\ stack[n] \in Contexts(Cells(stack)) /\ stack \in Seq(Contexts(Cells(stack)))
  BY Stacks DEF StackOK
<1>2. ctx \in Contexts(Cells(stack)) /\ ctx.kind = stack[n].kind
  <2>1. PICK old : old = stack[n]
    OBVIOUS
  <2>2. old \in Contexts(Cells(stack)) /\ ctx = [old EXCEPT !.at = @ + 1]
    BY <1>1, <2>1
  <2>3. QED
    BY <2>1, <2>2 DEF Contexts
<1>3. Advanced = [stack EXCEPT ![n] = ctx]
  BY <1>1 DEF Advanced
<1> HIDE DEF ctx
<1>4. StackOK(Advanced) /\ Expanded(Advanced) = Expanded(stack) /\ Len(Advanced) = n
  BY <1>1, <1>2, <1>3, KindsKept
<1>5. Advanced[n] = ctx
  BY <1>1, <1>3
<1>6. QED
  BY <1>2, <1>4, <1>5 DEF Top

LEMMA Repeats ==
    ASSUME StackOK(stack)
    PROVE  /\ StackOK([stack EXCEPT ![Len(stack)] = Round(@)])
           /\ Expanded([stack EXCEPT ![Len(stack)] = Round(@)]) = Expanded(stack)
<1> DEFINE n == Len(stack)  ctx == Round(stack[n])
<1>1. n \in DOMAIN stack /\ stack[n] \in Contexts(Cells(stack)) /\ stack \in Seq(Contexts(Cells(stack)))
  BY Stacks DEF StackOK
<1>2. ctx \in Contexts(Cells(stack)) /\ ctx.kind = stack[n].kind
  <2>1. PICK old : old = stack[n]
    OBVIOUS
  <2>2. old \in Contexts(Cells(stack)) /\ ctx = [old EXCEPT !.at = 1, !.loop = @ + 1]
    BY <1>1, <2>1 DEF Round
  <2>3. PICK reset : reset = [old EXCEPT !.at = 1]
    OBVIOUS
  <2>4. reset \in Contexts(Cells(stack)) /\ reset.kind = old.kind /\ reset.loop = old.loop
    BY <2>2, <2>3 DEF Contexts
  <2>5. ctx = [reset EXCEPT !.loop = @ + 1]
    BY <2>2, <2>3, <2>4
  <2> HIDE DEF ctx
  <2>6. ctx \in Contexts(Cells(stack)) /\ ctx.kind = reset.kind
    BY <2>4, <2>5 DEF Contexts
  <2>7. QED
    BY <2>1, <2>4, <2>6
<1>3. [stack EXCEPT ![Len(stack)] = Round(@)] = [stack EXCEPT ![n] = ctx]
  BY <1>1
<1> HIDE DEF ctx
<1>4. QED
  BY <1>1, <1>2, <1>3, KindsKept

LEMMA Pushes ==
    ASSUME StackOK(stack), NEW kind \in {"macro", "while"}, NEW body \in Seq(Lines),
           NEW parms \in Nat
    PROVE  /\ StackOK(Pushed(kind, body, parms))
           /\ Expanded(Pushed(kind, body, parms)) =
                 IF kind = "macro" THEN Expanded(stack) \cup {Len(stack) + 1} ELSE Expanded(stack)
<1> DEFINE n    == Len(stack)
           cell == Astack(conditions)
           ctx  == [Advanced[n] EXCEPT !.astack = cell]
           base == [Advanced EXCEPT ![n].astack = cell]
           new  == Pushed(kind, body, parms)
<1>1. /\ StackOK(Advanced) /\ Expanded(Advanced) = Expanded(stack) /\ Len(Advanced) = n
      /\ n \in DOMAIN Advanced /\ Advanced[n] \in Contexts(Cells(Advanced))
      /\ Advanced \in Seq(Contexts(Cells(Advanced))) /\ n \in Nat
  BY Advances, Stacks DEF StackOK
<1>2. ctx \in Contexts({cell}) /\ ctx.kind = Advanced[n].kind
  BY <1>1 DEF Contexts
<1>3. base = [Advanced EXCEPT ![n] = ctx]
  BY <1>1
<1> HIDE DEF ctx
<1>4. StackOK(base) /\ Expanded(base) = Expanded(stack) /\ Len(base) = n
  BY <1>1, <1>2, <1>3, KindsKept
<1> HIDE DEF base, cell
<1> DEFINE added == Context(kind, body, parms)
<1>5. /\ Len(base) \in Nat \ {0} /\ DOMAIN base = 1 .. Len(base)
      /\ \A k \in DOMAIN base : base[k].kind = "file" <=> k = 1
      /\ base \in Seq(Contexts(Cells(base)))
  BY <1>4, Stacks DEF StackOK
<1>6. added \in Contexts(Cells(base) \cup {0}) /\ added.kind = kind
  BY DEF Context, Contexts
<1>7. Contexts(Cells(base)) \subseteq Contexts(Cells(base) \cup {0})
  BY DEF Contexts
<1>8. base \in Seq(Contexts(Cells(base) \cup {0}))
  <2>1. \A k \in DOMAIN base : base[k] \in Contexts(Cells(base) \cup {0})
    <3>1. PICK cs : cs = Contexts(Cells(base))
      OBVIOUS
    <3>2. base \in Seq(cs)
      BY <1>5, <3>1
    <3>3. \A k \in DOMAIN base : base[k] \in cs
      BY <3>2
    <3>4. QED
      BY <1>7, <3>1, <3>3
  <2>2. QED
    BY <1>5, <2>1, InSeq
<1>9. new = Append(base, added)
  BY DEF Pushed, base, cell
<1> HIDE DEF new, added
<1>10. /\ new \in Seq(Contexts(Cells(base) \cup {0})) /\ DOMAIN new = 1 .. n + 1
       /\ \A k \in 1 .. n : new[k] = base[k]
       /\ new[n + 1] = added
  BY <1>4, <1>6, <1>8, <1>9
<1>11. OneFile(new)
  BY <1>4, <1>5, <1>6, <1>10 DEF OneFile
<1>12. StackOK(new)
  BY <1>10, <1>11, OfTheirCells DEF StackOK
<1>13. \A k \in DOMAIN new : k \in Expanded(new) <=> k \in Expanded(base) \/ (k = n + 1 /\ kind = "macro")
  BY <1>4, <1>5, <1>6, <1>10 DEF Expanded
<1>14. Expanded(new) \subseteq DOMAIN new /\ Expanded(base) \subseteq 1 .. n
  BY <1>4, <1>5 DEF Expanded
<1>15. Expanded(new) = IF kind = "macro" THEN Expanded(base) \cup {n + 1} ELSE Expanded(base)
  <2>1. CASE kind = "macro"
    <3>1. n + 1 \in DOMAIN new /\ 1 .. n \subseteq DOMAIN new
      BY <1>1, <1>10
    <3>2. QED
      BY <1>13, <1>14, <2>1, <3>1
  <2>2. CASE kind # "macro"
    <3>1. 1 .. n \subseteq DOMAIN new
      BY <1>1, <1>10
    <3>2. QED
      BY <1>13, <1>14, <2>2, <3>1
  <2>3. QED
    BY <2>1, <2>2
<1>16. QED
  BY <1>4, <1>12, <1>15 DEF new

LEMMA Closes ==
    ASSUME NEW stk, StackOK(stk), Top(stk).kind # "file"
    PROVE  /\ StackOK(Without(stk))
           /\ Expanded(Without(stk)) = Expanded(stk) \ {Len(stk)}
           /\ Len(stk) \in Expanded(stk) <=> Top(stk).kind = "macro"
<1> DEFINE n == Len(stk)  new == Without(stk)
<1>1. /\ n \in Nat \ {0} /\ DOMAIN stk = 1 .. n
      /\ \A k \in DOMAIN stk : stk[k].kind = "file" <=> k = 1
      /\ stk \in Seq(Contexts(Cells(stk)))
  BY Stacks DEF StackOK
<1>2. n # 1 /\ (n \in Expanded(stk) <=> Top(stk).kind = "macro")
  BY <1>1 DEF Top, Expanded
<1>3. /\ new \in Seq(Contexts(Cells(stk))) /\ DOMAIN new = 1 .. n - 1
      /\ \A k \in 1 .. n - 1 : new[k] = stk[k]
  BY <1>1 DEF Without
<1> HIDE DEF new
<1>4. OneFile(new)
  BY <1>1, <1>2, <1>3 DEF OneFile
<1>5. Expanded(new) = Expanded(stk) \ {n}
  BY <1>1, <1>3 DEF Expanded
<1>6. QED
  BY <1>2, <1>3, <1>4, <1>5, OfTheirCells DEF StackOK, new

(***************************************************************************)
(* The text.                                                               *)
(***************************************************************************)
LEMMA StackPrime ==
    ASSUME NEW stk, StackOK(stk), source' = source, stack' = stk
    PROVE  StackOK(stack)'
BY DEF StackOK, OneFile, Contexts, Cells, Lines

\* A new body keeps the types of the text.
LEMMA TextPrime ==
    ASSUME TextOK, source' = source, StackOK(stack)',
           NEW m, m \in [DOMAIN m -> Seq(Lines)], macros' = m,
           NEW w \in [line : Nat, body : Seq(Lines), depth : Int], while' = w
    PROVE  TextOK'
BY DEF TextOK, Lines

LEMMA TextInit ==
    ASSUME Init
    PROVE  TextOK
<1>1. PICK ctx : ctx = Context("file", << >>, 0)
  OBVIOUS
<1>2. ctx \in Contexts({0}) /\ ctx.kind = "file" /\ stack = <<ctx>>
  <2>1. ctx = [kind |-> "file", body |-> << >>, at |-> 1, loop |-> 1, astack |-> 0, parms |-> 0]
    BY <1>1 DEF Context
  <2>2. stack = <<ctx>>
    BY <1>1 DEF Init
  <2>3. QED
    BY <2>1, <2>2 DEF Contexts
<1>3. stack \in Seq(Contexts({0})) /\ DOMAIN stack = {1} /\ stack[1] = ctx
  BY <1>2
<1>4. OneFile(stack)
  BY <1>2, <1>3 DEF OneFile
<1>5. StackOK(stack)
  BY <1>3, <1>4, OfTheirCells DEF StackOK
<1>6. macros \in [DOMAIN macros -> Seq(Lines)]
  BY DEF Init
<1>7. while \in [line : Nat, body : Seq(Lines), depth : Int]
  BY DEF Init, NoWhile
<1>8. QED
  BY <1>5, <1>6, <1>7 DEF Init, TextOK

\* What most lines do to the text.
LEMMA TextAdvances ==
    ASSUME TextOK, source' = source, stack' \in {stack, Advanced}, UNCHANGED <<macros, while>>
    PROVE  TextOK'
<1>1. StackOK(stack) /\ StackOK(Advanced)
  BY Advances DEF TextOK
<1>2. StackOK(stack)'
  BY <1>1, StackPrime
<1>3. QED
  BY <1>2, TextPrime DEF TextOK

LEMMA TextAppend ==
    ASSUME TextOK, AppendLine
    PROVE  TextOK'
<1>1. PICK here : here = Here(Top(stack))
  OBVIOUS
<1>2. here \in Lines
  BY <1>1, LineRead DEF AppendLine
<1>3. source' = source /\ StackOK(stack)'
  BY Advances, StackPrime DEF AppendLine, TextOK
<1>4. PICK m : m = IF definition \in Macros
                   THEN [macros EXCEPT ![definition] = Append(@, here)] ELSE macros
  OBVIOUS
<1>5. macros' = m
  BY <1>1, <1>4 DEF AppendLine
<1>6. m \in [DOMAIN m -> Seq(Lines)]
  <2>1. macros \in [DOMAIN macros -> Seq(Lines)]
    BY DEF TextOK
  <2>2. CASE definition \in Macros /\ definition \in DOMAIN macros
    <3>1. Append(macros[definition], here) \in Seq(Lines)
      BY <1>2, <2>1, <2>2
    <3>2. QED
      BY <1>4, <2>1, <2>2, <3>1
  <2>3. CASE ~(definition \in Macros /\ definition \in DOMAIN macros)
    BY <1>4, <2>1, <2>3
  <2>4. QED
    BY <2>2, <2>3
<1>7. PICK b : b = IF definition = "while" THEN Append(while.body, here) ELSE while.body
  OBVIOUS
<1>8. PICK d : d = IF while.line = 0 THEN while.depth
                   ELSE IF line.op = "while" THEN while.depth + 1
                   ELSE IF line.op = "endw" THEN while.depth - 1 ELSE while.depth
  OBVIOUS
<1>9. while \in [line : Nat, body : Seq(Lines), depth : Int]
  BY DEF TextOK
<1>10. b \in Seq(Lines)
  <2>1. while.body \in Seq(Lines)
    BY <1>9
  <2>2. Append(while.body, here) \in Seq(Lines)
    BY <1>2, <2>1
  <2>3. QED
    BY <1>7, <2>1, <2>2
<1>11. d \in Int
  BY <1>8, <1>9
<1>12. while' = [while EXCEPT !.body = b, !.depth = d]
  BY <1>1, <1>7, <1>8 DEF AppendLine
<1>13. while' \in [line : Nat, body : Seq(Lines), depth : Int]
  BY <1>9, <1>10, <1>11, <1>12
<1>14. QED
  BY <1>3, <1>5, <1>6, <1>13, TextPrime

LEMMA TextMacro ==
    ASSUME TextOK, Macro
    PROVE  TextOK'
<1>1. source' = source /\ StackOK(stack)' /\ while' = while
  BY Advances, StackPrime DEF Macro, Stays, TextOK
<1>2. PICK n : n = line.macro
  OBVIOUS
<1>3. macros \in [DOMAIN macros -> Seq(Lines)]
  BY DEF TextOK
<1>4. PICK m : m = [x \in DOMAIN macros \cup {n} |-> IF x = n THEN << >> ELSE macros[x]]
  OBVIOUS
<1>5. m \in [DOMAIN m -> Seq(Lines)]
  BY <1>3, <1>4
<1>6. macros' = macros \/ macros' = m
  BY <1>2, <1>4 DEF Macro
<1>7. PICK k : k = macros' 
  OBVIOUS
<1>8. k \in [DOMAIN k -> Seq(Lines)]
  BY <1>3, <1>5, <1>6, <1>7
<1>9. QED
  BY <1>1, <1>7, <1>8, TextPrime DEF TextOK

LEMMA TextCall ==
    ASSUME TextOK, Call
    PROVE  TextOK'
<1>1. source' = source /\ UNCHANGED <<macros, while>>
  BY DEF Call
<1>2. CASE stack' = stack \/ stack' = Advanced
  BY <1>1, <1>2, TextAdvances
<1>3. CASE stack' # stack /\ stack' # Advanced
  <2>1. line.macro \in DOMAIN macros /\ stack' = Pushed("macro", macros[line.macro], 0)
    BY <1>3 DEF Call
  <2>2. macros[line.macro] \in Seq(Lines)
    BY <2>1 DEF TextOK
  <2>3. StackOK(stack)'
    BY <1>1, <2>1, <2>2, Pushes, StackPrime DEF TextOK
  <2>4. QED
    BY <1>1, <2>3, TextPrime DEF TextOK
<1>4. QED
  BY <1>2, <1>3

LEMMA TextEndw ==
    ASSUME TextOK, Endw
    PROVE  TextOK'
<1>1. source' = source /\ macros' = macros
  BY DEF Endw, Stays
<1>2. while' \in [line : Nat, body : Seq(Lines), depth : Int]
  <2>1. PICK d : d = IF InDefinition THEN 0 ELSE while.depth
    OBVIOUS
  <2>2. while \in [line : Nat, body : Seq(Lines), depth : Int]
    BY DEF TextOK
  <2>3. d \in Int
    BY <2>1, <2>2
  <2>4. while' = [NoWhile EXCEPT !.depth = d]
    BY <2>1 DEF Endw
  <2>5. NoWhile \in [line : Nat, body : Seq(Lines), depth : Int]
    BY DEF NoWhile
  <2>6. QED
    BY <2>3, <2>4, <2>5
<1>3. StackOK(stack)'
  <2>1. StackOK(Advanced)
    BY Advances DEF TextOK
  <2>2. StackOK(Pushed("while", while.body, while.line))
    <3>1. while.body \in Seq(Lines) /\ while.line \in Nat
      BY DEF TextOK
    <3>2. QED
      BY <3>1, Pushes DEF TextOK
  <2>3. stack' = Advanced \/ stack' = Pushed("while", while.body, while.line)
    BY DEF Endw
  <2>4. QED
    BY <1>1, <2>1, <2>2, <2>3, StackPrime
<1>4. QED
  BY <1>1, <1>2, <1>3, TextPrime DEF TextOK

LEMMA TextWhile ==
    ASSUME TextOK, While
    PROVE  TextOK'
<1>1. source' = source /\ macros' = macros
  BY DEF While
<1>2. CASE stack' = stack /\ while' = while
  BY <1>1, <1>2, TextAdvances
<1>3. CASE stack' = Advanced /\ while' = [line |-> Here(Top(stack)), body |-> << >>, depth |-> 1]
  <2>1. Here(Top(stack)) \in Nat
    BY LineRead DEF While, Does, Reads
  <2>2. while' \in [line : Nat, body : Seq(Lines), depth : Int]
    BY <1>3, <2>1
  <2>3. StackOK(stack)'
    BY <1>1, <1>3, Advances, StackPrime DEF TextOK
  <2>4. QED
    BY <1>1, <2>2, <2>3, TextPrime DEF TextOK
<1>4. QED
  BY <1>2, <1>3 DEF While

\* The end of a context.
LEMMA TextClose ==
    ASSUME TextOK, source' = source, NEW stk, StackOK(stk), Top(stk).kind # "file",
           NEW conds, Close(stk, conds)
    PROVE  TextOK'
<1>1. stack' = Without(stk) /\ UNCHANGED <<macros, while>>
  BY DEF Close
<1>2. StackOK(stack)'
  BY <1>1, Closes, StackPrime
<1>3. QED
  BY <1>1, <1>2, TextPrime DEF TextOK

\* Where there are scopes of macros, the innermost context is not that of the file.
LEMMA NotTheFile ==
    ASSUME TextOK, SymbolsOK, Balanced(stack), Len(scopes) # 1
    PROVE  Top(stack).kind # "file"
<1>1. /\ Len(stack) \in Nat \ {0} /\ DOMAIN stack = 1 .. Len(stack)
      /\ \A i \in DOMAIN stack : stack[i].kind = "file" <=> i = 1
  BY Stacks DEF TextOK
<1>2. SUFFICES ASSUME Top(stack).kind = "file" PROVE FALSE
  OBVIOUS
<1>3. Len(stack) = 1
  BY <1>1, <1>2 DEF Top
<1>4. Expanded(stack) = {}
  BY <1>1, <1>3 DEF Expanded
<1>5. QED
  BY <1>4, FS_EmptySet DEF Balanced

LEMMA TextExitm ==
    ASSUME TextOK, SymbolsOK, Balanced(stack), Exitm
    PROVE  TextOK'
<1>1. source' = source
  BY DEF Exitm, Stays
<1>2. CASE Len(scopes) = 1
  <2>1. stack' = Advanced /\ UNCHANGED <<macros, while>>
    BY <1>2 DEF Exitm
  <2>2. QED
    BY <1>1, <2>1, TextAdvances
<1>3. CASE Len(scopes) # 1
  <2>1. StackOK(Advanced) /\ Top(Advanced).kind # "file"
    BY <1>3, NotTheFile, Advances DEF TextOK
  <2>2. PICK cut : Close(Advanced, cut)
    BY <1>3 DEF Exitm
  <2>3. QED
    BY <1>1, <2>1, <2>2, TextClose
<1>4. QED
  BY <1>2, <1>3

LEMMA TextEndOfBody ==
    ASSUME TextOK, EndOfBody
    PROVE  TextOK'
<1>1. source' = source
  BY DEF EndOfBody, Stays
<1>2. CASE Again /\ Top(stack).loop <= MaxLoops
  <2>1. stack' = [stack EXCEPT ![Len(stack)] = Round(@)] /\ UNCHANGED <<macros, while>>
    BY <1>2 DEF EndOfBody
  <2>2. StackOK(stack)'
    BY <1>1, <2>1, Repeats, StackPrime DEF TextOK
  <2>3. QED
    BY <1>1, <2>1, <2>2, TextPrime DEF TextOK
<1>3. CASE ~(Again /\ Top(stack).loop <= MaxLoops)
  <2>1. Close(stack, conditions) /\ Top(stack).kind # "file"
    BY <1>3 DEF EndOfBody
  <2>2. QED
    BY <1>1, <2>1, TextClose DEF TextOK
<1>4. QED
  BY <1>2, <1>3

LEMMA TextEndPass1 ==
    ASSUME TextOK, EndPass1
    PROVE  TextOK'
<1>1. PICK ctx : ctx = Context("file", << >>, 0)
  OBVIOUS
<1>2. ctx \in Contexts({0}) /\ ctx.kind = "file"
  <2>1. ctx = [kind |-> "file", body |-> << >>, at |-> 1, loop |-> 1, astack |-> 0, parms |-> 0]
    BY <1>1 DEF Context
  <2>2. QED
    BY <2>1 DEF Contexts
<1>3. PICK stk : stk = <<ctx>>
  OBVIOUS
<1>4. stk \in Seq(Contexts({0})) /\ DOMAIN stk = {1} /\ stk[1] = ctx
  BY <1>2, <1>3
<1>5. StackOK(stk)
  BY <1>2, <1>4, OfTheirCells DEF StackOK, OneFile
<1>6. stack' = stk /\ source' = source
  BY <1>1, <1>3 DEF EndPass1
<1>7. StackOK(stack)'
  BY <1>5, <1>6, StackPrime
<1>8. PICK m : m = [n \in {} |-> << >>]
  OBVIOUS
<1>9. macros' = m /\ m \in [DOMAIN m -> Seq(Lines)]
  BY <1>8 DEF EndPass1
<1>10. while' \in [line : Nat, body : Seq(Lines), depth : Int]
  BY DEF EndPass1, NoWhile
<1>11. QED
  BY <1>6, <1>7, <1>9, <1>10, TextPrime

LEMMA TextStep ==
    ASSUME IInv, [Next]_vars
    PROVE  TextOK'
<1>1. TextOK /\ SymbolsOK /\ Balanced(stack)
  BY DEF IInv
<1>2. CASE UNCHANGED vars
  BY <1>1, <1>2, TextAdvances DEF vars, text
<1>3. CASE Skip \/ Insn \/ Goto \/ Label \/ Set \/ Local
  BY <1>1, <1>3, TextAdvances DEF Skip, Insn, Goto, Label, Set, Local, Stays
<1>4. CASE If \/ Ifdef
  BY <1>1, <1>4, TextAdvances DEF If, Ifdef, Enter, Stays
<1>5. CASE Elif \/ Else \/ Endif \/ Endm \/ EndPass2
  BY <1>1, <1>5, TextAdvances DEF Elif, Else, Endif, Endm, EndPass2, Stays, text
<1>6. CASE AppendLine \/ Macro \/ Call \/ Exitm \/ While \/ Endw \/ EndOfBody \/ EndPass1
  BY <1>1, <1>6, TextAppend, TextMacro, TextCall, TextExitm, TextWhile, TextEndw,
     TextEndOfBody, TextEndPass1
<1>7. QED
  BY <1>2, <1>3, <1>4, <1>5, <1>6 DEF Next

(***************************************************************************)
(* Symbols.                                                                *)
(***************************************************************************)
LEMMA GreatestOf ==
    ASSUME NEW k \in Nat, NEW S \in SUBSET (1 .. k), S # {}
    PROVE  \E x \in S : \A y \in S : y <= x
<1> DEFINE T == {n \in Nat : k - n \in S}
<1>1. T # {}
  <2>1. PICK x \in S : TRUE
    OBVIOUS
  <2>2. k - x \in Nat /\ k - (k - x) = x
    OBVIOUS
  <2>3. QED
    BY <2>1, <2>2
<1>2. \A x, y \in Nat : <<y, x>> \in OpToRel(<, Nat) <=> y < x
  BY DEF OpToRel
<1>3. PICK n \in T : \A m \in T : ~(<<m, n>> \in OpToRel(<, Nat))
  BY <1>1, NatLessThanWellFounded, WFMin
<1>4. n \in Nat /\ k - n \in S
  OBVIOUS
<1>5. ASSUME NEW y \in S PROVE y <= k - n
  <2>1. y \in 1 .. k
    OBVIOUS
  <2>2. k - y \in Nat /\ k - (k - y) = y
    BY <2>1
  <2>3. k - y \in T
    BY <2>2
  <2>4. ~(k - y < n)
    BY <1>2, <1>3, <1>4, <2>2, <2>3
  <2>5. QED
    BY <1>4, <2>1, <2>4
<1>6. QED
  BY <1>4, <1>5

LEMMA SymbolFacts ==
    ASSUME SymbolsOK
    PROVE  /\ Len(tables) \in Nat /\ DOMAIN tables = 1 .. Len(tables)
           /\ \A t \in DOMAIN tables :
                 tables[t] \in [DOMAIN tables[t] -> Entry] /\ DOMAIN tables[t] \subseteq Labels
           /\ Len(scopes) \in Nat \ {0} /\ DOMAIN scopes = 1 .. Len(scopes)
           /\ \A i \in DOMAIN scopes : scopes[i] \in DOMAIN tables
           /\ scopes[1] = 1 /\ 1 \in DOMAIN tables
<1>1. \A t \in DOMAIN tables : tables[t] \in SymbolTable
  BY DEF SymbolsOK
<1>2. \A f \in SymbolTable : f \in [DOMAIN f -> Entry] /\ DOMAIN f \subseteq Labels
  BY DEF SymbolTable
<1>3. Len(scopes) \in Nat \ {0} /\ DOMAIN scopes = 1 .. Len(scopes)
      /\ \A i \in DOMAIN scopes : scopes[i] \in DOMAIN tables
  BY DEF SymbolsOK
<1>4. QED
  BY <1>1, <1>2, <1>3 DEF SymbolsOK

\* The table of a symbol that is found has it; the first table has no other.
LEMMA Found ==
    ASSUME SymbolsOK, NEW n
    PROVE  /\ Table(n) # 0 => Table(n) \in DOMAIN tables /\ n \in DOMAIN tables[Table(n)]
           /\ Table(n) = 0 => n \notin DOMAIN tables[1]
           /\ Table(n) \in Nat
           /\ Value(n) \in Int
           /\ Value(n) # NoValue => Table(n) # 0
           /\ Table(n) # 0 => Value(n) = tables[Table(n)][n].value
<1> DEFINE has == {i \in DOMAIN scopes : n \in DOMAIN tables[scopes[i]]}
<1>1. has = {} => Table(n) = 0
  BY DEF Table
<1>2. has = {} => n \notin DOMAIN tables[1]
  BY SymbolFacts
<1>3. ASSUME has # {} PROVE Table(n) \in DOMAIN tables /\ n \in DOMAIN tables[Table(n)]
  <2>1. has \in SUBSET (1 .. Len(scopes)) /\ Len(scopes) \in Nat
    BY SymbolFacts
  <2>2. \E i \in has : \A j \in has : j <= i
    BY <1>3, <2>1, GreatestOf
  <2>3. PICK g : g = CHOOSE i \in has : \A j \in has : j <= i
    OBVIOUS
  <2>4. g \in has
    BY <2>2, <2>3
  <2>5. Table(n) = scopes[g]
    BY <1>3, <2>3 DEF Table
  <2>6. QED
    BY <2>4, <2>5, SymbolFacts
<1> HIDE DEF has
<1>4. 0 \notin DOMAIN tables /\ DOMAIN tables \subseteq Nat
  BY SymbolFacts
<1>5. Table(n) = 0 => has = {}
  BY <1>3, <1>4
<1>6. Table(n) # 0 => tables[Table(n)][n] \in Entry
  BY <1>1, <1>3, SymbolFacts
<1>7. Table(n) # 0 => Value(n) \in Int /\ Value(n) = tables[Table(n)][n].value
  BY <1>6 DEF Value, Entry
<1>8. Table(n) = 0 => Value(n) = NoValue /\ NoValue \in Int
  BY DEF Value, NoValue
<1>9. QED
  BY <1>1, <1>2, <1>3, <1>4, <1>5, <1>7, <1>8

LEMMA EnteredFacts ==
    ASSUME SymbolsOK, NEW t \in DOMAIN tables, NEW n \in Labels, NEW v \in Entry
    PROVE  /\ Entered(t, n, v) \in Seq(SymbolTable)
           /\ DOMAIN Entered(t, n, v) = DOMAIN tables
           /\ \A u \in DOMAIN tables : u # t => Entered(t, n, v)[u] = tables[u]
           /\ DOMAIN Entered(t, n, v)[t] = DOMAIN tables[t] \cup {n}
           /\ Entered(t, n, v)[t][n] = v
           /\ \A m \in DOMAIN tables[t] : m # n => Entered(t, n, v)[t][m] = tables[t][m]
<1>1. PICK f : f = [m \in DOMAIN tables[t] \cup {n} |-> IF m = n THEN v ELSE tables[t][m]]
  OBVIOUS
<1>2. Entered(t, n, v) = [tables EXCEPT ![t] = f]
  BY <1>1 DEF Entered
<1>3. tables[t] \in [DOMAIN tables[t] -> Entry] /\ DOMAIN tables[t] \subseteq Labels
  BY SymbolFacts
<1>4. DOMAIN f = DOMAIN tables[t] \cup {n} /\ f[n] = v
      /\ \A m \in DOMAIN tables[t] : m # n => f[m] = tables[t][m]
  BY <1>1
<1>5. f \in SymbolTable
  <2>1. f \in [DOMAIN tables[t] \cup {n} -> Entry]
    BY <1>1, <1>3
  <2>2. DOMAIN tables[t] \cup {n} \in SUBSET Labels
    BY <1>3
  <2>3. QED
    BY <2>1, <2>2 DEF SymbolTable
<1>6. tables \in Seq(SymbolTable)
  BY DEF SymbolsOK
<1>7. [tables EXCEPT ![t] = f] \in Seq(SymbolTable)
      /\ DOMAIN [tables EXCEPT ![t] = f] = DOMAIN tables
  BY <1>5, <1>6, Changed
<1>8. [tables EXCEPT ![t] = f][t] = f
      /\ \A u \in DOMAIN tables : u # t => [tables EXCEPT ![t] = f][u] = tables[u]
  BY <1>6
<1>9. QED
  BY <1>2, <1>4, <1>7, <1>8

\* Values that labels have are not changed.
KeepsValues(new) ==
    \A t \in DOMAIN tables :
        /\ t \in DOMAIN new
        /\ \A n \in DOMAIN tables[t] : n \notin Varying =>
              /\ n \in DOMAIN new[t]
              /\ tables[t][n].value # NoValue => new[t][n].value = tables[t][n].value

LEMMA EnteredKeeps ==
    ASSUME SymbolsOK, NEW t \in DOMAIN tables, NEW n \in Labels, NEW v \in Entry,
           \/ n \in Varying
           \/ n \notin DOMAIN tables[t]
           \/ tables[t][n].value = NoValue
    PROVE  KeepsValues(Entered(t, n, v))
<1>1. PICK new : new = Entered(t, n, v)
  OBVIOUS
<1>2. /\ DOMAIN new = DOMAIN tables
      /\ \A u \in DOMAIN tables : u # t => new[u] = tables[u]
      /\ DOMAIN new[t] = DOMAIN tables[t] \cup {n}
      /\ \A m \in DOMAIN tables[t] : m # n => new[t][m] = tables[t][m]
  BY <1>1, EnteredFacts
<1>3. ASSUME NEW u \in DOMAIN tables, NEW m \in DOMAIN tables[u], m \notin Varying
      PROVE  /\ m \in DOMAIN new[u]
             /\ tables[u][m].value # NoValue => new[u][m].value = tables[u][m].value
  <2>1. CASE u # t
    BY <1>2, <2>1
  <2>2. CASE u = t /\ m # n
    BY <1>2, <2>2
  <2>3. CASE u = t /\ m = n
    BY <1>2, <1>3, <2>3
  <2>4. QED
    BY <2>1, <2>2, <2>3
<1>4. QED
  BY <1>1, <1>2, <1>3 DEF KeepsValues

\* What a label, a set and a local symbol do to the tables.
LEMMA TablesOfLines ==
    ASSUME IInv, Label \/ Set \/ Local
    PROVE  /\ tables' \in Seq(SymbolTable) /\ DOMAIN tables' = DOMAIN tables
           /\ KeepsValues(tables')
<1>1. SymbolsOK /\ TextOK /\ address \in Nat
  BY DEF IInv, OutputOK
<1>2. line \in Line /\ line.label \in Labels
  <2>1. line \in Line
    BY <1>1, LineRead DEF Label, Set, Local, Does, Reads
  <2>2. line.op \in {"label", "set", "local"}
    BY DEF Label, Set, Local, Does, Reads, line
  <2>3. QED
    BY <2>1, <2>2, Fields
<1>3. PICK n : n = line.label
  OBVIOUS
<1>4. PICK t : t = IF Table(n) = 0 THEN 1 ELSE Table(n)
  OBVIOUS
<1>5. /\ t \in DOMAIN tables
      /\ n \in DOMAIN tables[t] => Table(n) = t /\ Value(n) = tables[t][n].value
  BY <1>1, <1>4, Found, SymbolFacts
<1>6. CASE tables' = tables
  <2>1. KeepsValues(tables)
    BY DEF KeepsValues
  <2>2. QED
    BY <1>1, <1>6, <2>1 DEF SymbolsOK
<1>7. CASE Label /\ tables' # tables
  <2>1. PICK v : v = [value |-> address, variable |-> FALSE]
    OBVIOUS
  <2>2. Value(n) = NoValue /\ tables' = Entered(t, n, v)
    BY <1>3, <1>4, <1>7, <2>1 DEF Label
  <2>3. v \in Entry
    BY <1>1, <2>1 DEF Entry
  <2>4. QED
    BY <1>1, <1>2, <1>3, <1>5, <2>2, <2>3, EnteredFacts, EnteredKeeps
<1>8. CASE Set
  <2>1. PICK v : v = [value    |-> IF line.more THEN Sum(n, line.n) ELSE line.n,
                      variable |-> Value(n) = NoValue \/ tables[t][n].variable]
    OBVIOUS
  <2>2. tables' = Entered(t, n, v)
    BY <1>3, <1>4, <1>8, <2>1 DEF Set
  <2>3. line.op = "set" /\ Here(Top(stack)) \in Lines
    BY <1>1, <1>8, LineRead DEF Set, Does, Reads, line
  <2>4. line.more \in BOOLEAN /\ line.n \in Nat
    BY <1>2, <2>3, Fields
  <2>5. v \in Entry
    <3>1. Sum(n, line.n) \in Int
      BY <1>1, <2>4, Found DEF Sum
    <3>2. PICK k : k = IF line.more THEN Sum(n, line.n) ELSE line.n
      OBVIOUS
    <3>3. k \in Int
      BY <2>4, <3>1, <3>2
    <3>4. ASSUME Value(n) # NoValue PROVE tables[t][n].variable \in BOOLEAN
      <4>1. t = Table(n) /\ n \in DOMAIN tables[t]
        BY <1>1, <1>4, <3>4, Found
      <4>2. tables[t][n] \in Entry
        BY <1>1, <1>5, <4>1, SymbolFacts
      <4>3. QED
        BY <4>2 DEF Entry
    <3>5. PICK b : b = (Value(n) = NoValue \/ tables[t][n].variable)
      OBVIOUS
    <3>6. b \in BOOLEAN
      BY <3>5
    <3>7. v = [value |-> k, variable |-> b]
      BY <2>1, <3>2, <3>5
    <3>8. QED
      BY <3>3, <3>6, <3>7 DEF Entry
  <2>6. n \in Varying
    BY <1>3, <2>3 DEF Varying, Lines, line
  <2>7. QED
    BY <1>1, <1>2, <1>3, <1>5, <2>2, <2>5, <2>6, EnteredFacts, EnteredKeeps
<1>9. CASE Local /\ tables' # tables
  <2>1. tables' = Entered(Top(scopes), n, Unassigned) /\ n \notin DOMAIN tables[Top(scopes)]
    BY <1>3, <1>9 DEF Local
  <2>2. Top(scopes) \in DOMAIN tables
    BY <1>1, SymbolFacts DEF Top
  <2>3. Unassigned \in Entry
    BY DEF Unassigned, Entry, NoValue
  <2>4. QED
    BY <1>1, <1>2, <1>3, <2>1, <2>2, <2>3, EnteredFacts, EnteredKeeps
<1>10. QED
  BY <1>6, <1>7, <1>8, <1>9

LEMMA SymbolsPrime ==
    ASSUME SymbolsOK, source' = source,
           NEW new \in Seq(SymbolTable), tables' = new, DOMAIN tables \subseteq DOMAIN new,
           UNCHANGED <<scopes, expansions, replayed>>, parameters' \in Int
    PROVE  SymbolsOK'
<1>1. scopes \in Seq(DOMAIN new)
  BY DEF SymbolsOK
<1>2. expansions \in Seq(Expansions(DOMAIN new))
  <2>1. expansions \in Seq(Expansions(DOMAIN tables))
    BY DEF SymbolsOK
  <2>2. Expansions(DOMAIN tables) \subseteq Expansions(DOMAIN new)
    BY DEF Expansions
  <2>3. QED
    BY <2>1, <2>2, InSeq
<1>3. scopes # << >> /\ scopes[1] = 1 /\ replayed \in 0 .. Len(expansions)
  BY DEF SymbolsOK
<1>4. scopes' \in Seq(DOMAIN tables') /\ expansions' \in Seq(Expansions(DOMAIN tables)')
  BY <1>1, <1>2 DEF Lines, Expansions
<1>5. Seq(SymbolTable)' = Seq(SymbolTable)
  BY DEF SymbolTable, Entry
<1>6. QED
  BY <1>3, <1>4, <1>5 DEF SymbolsOK

\* Steps that leave the tables and the scopes alone.
LEMMA SymbolsKept ==
    ASSUME SymbolsOK, source' = source, UNCHANGED <<tables, scopes, expansions, replayed>>,
           parameters' \in Int
    PROVE  SymbolsOK'
<1>1. tables \in Seq(SymbolTable)
  BY DEF SymbolsOK
<1>2. QED
  BY <1>1, SymbolsPrime

\* A call of a macro with a table t.
Calls(t, new, listed) ==
    /\ tables' = IF new THEN Append(tables, [n \in {} |-> Unassigned]) ELSE tables
    /\ t = IF new THEN Len(tables) + 1 ELSE expansions[replayed + 1].table
    /\ scopes' = Append(scopes, t)
    /\ parameters' = parameters + 1
    /\ expansions' = IF listed THEN Append(expansions, [table |-> t, line |-> Here(Top(stack))])
                     ELSE expansions
    /\ replayed' = IF new THEN replayed ELSE replayed + 1
    /\ stack' = Pushed("macro", macros[line.macro], 0)
    /\ line.macro \in DOMAIN macros
    /\ Here(Top(stack)) \in Lines
    /\ ~new => replayed < Len(expansions)

LEMMA CallCases ==
    ASSUME IInv, Call
    PROVE  \/ UNCHANGED symbols /\ stack' \in {stack, Advanced}
           \/ \E t : \E new, listed \in BOOLEAN : Calls(t, new, listed)
<1>1. TextOK /\ pass \in {1, 2} /\ replayed \in 0 .. Len(expansions) /\ Len(expansions) \in Nat
  <2>1. expansions \in Seq(Expansions(DOMAIN tables))
    BY DEF IInv, SymbolsOK
  <2>2. TextOK /\ pass \in {1, 2}
    BY DEF IInv, OutputOK
  <2>3. replayed \in 0 .. Len(expansions)
    BY DEF IInv, SymbolsOK
  <2>4. Len(expansions) \in Nat
    BY <2>1
  <2>5. QED
    BY <2>2, <2>3, <2>4
<1>2. Here(Top(stack)) \in Lines
  BY <1>1, LineRead DEF Call, Does, Reads
<1>3. CASE line.macro \notin DOMAIN macros
  BY <1>3 DEF Call
<1>4. CASE line.macro \in DOMAIN macros /\ pass = 2 /\ replayed = Len(expansions)
  BY <1>4 DEF Call
<1>5. CASE line.macro \in DOMAIN macros /\ ~(pass = 2 /\ replayed = Len(expansions))
  <2> DEFINE new == pass = 1 \/ ~SameCall
             t   == IF new THEN Len(tables) + 1 ELSE expansions[replayed + 1].table
  <2>1. ~new => replayed < Len(expansions)
    BY <1>1, <1>5
  <2>2. /\ tables' = IF new THEN Append(tables, [n \in {} |-> Unassigned]) ELSE tables
        /\ scopes' = Append(scopes, t)
        /\ parameters' = parameters + 1
        /\ expansions' = IF pass = 1
               THEN Append(expansions, [table |-> t, line |-> Here(Top(stack))])
               ELSE expansions
        /\ replayed' = IF new THEN replayed ELSE replayed + 1
        /\ stack' = Pushed("macro", macros[line.macro], 0)
    BY <1>5, Zenon DEF Call
  <2>3. PICK b \in BOOLEAN : b <=> new
    OBVIOUS
  <2>4. PICK c \in BOOLEAN : c <=> pass = 1
    OBVIOUS
  <2>5. PICK u : u = t
    OBVIOUS
  <2> HIDE DEF new
  <2>6. Calls(u, b, c)
    BY <1>2, <1>5, <2>1, <2>2, <2>3, <2>4, <2>5 DEF Calls
  <2>7. QED
    BY <2>6
<1>6. QED
  BY <1>3, <1>4, <1>5

LEMMA CallTables ==
    ASSUME SymbolsOK, NEW t, NEW new \in BOOLEAN, NEW listed \in BOOLEAN, Calls(t, new, listed)
    PROVE  /\ tables' \in Seq(SymbolTable)
           /\ DOMAIN tables \subseteq DOMAIN tables'
           /\ t \in DOMAIN tables'
           /\ KeepsValues(tables')
<1>1. tables \in Seq(SymbolTable) /\ Len(tables) \in Nat /\ DOMAIN tables = 1 .. Len(tables)
  BY DEF SymbolsOK
<1>2. CASE new
  <2>1. PICK e : e = [n \in {} |-> Unassigned]
    OBVIOUS
  <2>2. e \in SymbolTable
    <3>1. e \in [{} -> Entry]
      BY <2>1
    <3>2. {} \in SUBSET Labels
      OBVIOUS
    <3>3. QED
      BY <3>1, <3>2 DEF SymbolTable
  <2>3. tables' = Append(tables, e) /\ t = Len(tables) + 1
    BY <1>2, <2>1 DEF Calls
  <2>4. /\ tables' \in Seq(SymbolTable) /\ DOMAIN tables' = 1 .. Len(tables) + 1
        /\ \A u \in DOMAIN tables : tables'[u] = tables[u]
    BY <1>1, <2>2, <2>3
  <2>5. KeepsValues(tables')
    BY <1>1, <2>4 DEF KeepsValues
  <2>6. QED
    BY <1>1, <2>3, <2>4, <2>5
<1>3. CASE ~new
  <2>1. tables' = tables /\ t = expansions[replayed + 1].table /\ replayed < Len(expansions)
    BY <1>3 DEF Calls
  <2>2. replayed + 1 \in DOMAIN expansions
    BY <2>1 DEF SymbolsOK
  <2>3. expansions[replayed + 1] \in Expansions(DOMAIN tables)
    BY <2>2 DEF SymbolsOK
  <2>4. t \in DOMAIN tables
    BY <2>1, <2>3 DEF Expansions
  <2>5. KeepsValues(tables)
    BY DEF KeepsValues
  <2>6. QED
    BY <1>1, <2>1, <2>4, <2>5
<1>4. QED
  BY <1>2, <1>3

LEMMA SymbolsCall ==
    ASSUME SymbolsOK, source' = source,
           NEW t, NEW new \in BOOLEAN, NEW listed \in BOOLEAN, Calls(t, new, listed)
    PROVE  SymbolsOK'
<1>1. PICK tt : tt = tables'
  OBVIOUS
<1>2. tt \in Seq(SymbolTable) /\ DOMAIN tables \subseteq DOMAIN tt /\ t \in DOMAIN tt
  BY <1>1, CallTables
<1>3. /\ scopes \in Seq(DOMAIN tt) /\ scopes # << >> /\ scopes[1] = 1
      /\ replayed \in 0 .. Len(expansions) /\ parameters \in Int
  BY <1>2 DEF SymbolsOK
<1>4. expansions \in Seq(Expansions(DOMAIN tt))
  <2>1. expansions \in Seq(Expansions(DOMAIN tables))
    BY DEF SymbolsOK
  <2>2. Expansions(DOMAIN tables) \subseteq Expansions(DOMAIN tt)
    BY <1>2 DEF Expansions
  <2>3. QED
    BY <2>1, <2>2, InSeq
<1>5. PICK s : s = Append(scopes, t)
  OBVIOUS
<1>6. s \in Seq(DOMAIN tt) /\ s # << >> /\ s[1] = 1
  BY <1>2, <1>3, <1>5
<1>7. scopes' = s
  BY <1>5 DEF Calls
<1>8. PICK x : x = expansions'
  OBVIOUS
<1>9. x \in Seq(Expansions(DOMAIN tt)) /\ Len(expansions) <= Len(x)
  <2>1. PICK e : e = [table |-> t, line |-> Here(Top(stack))]
    OBVIOUS
  <2>2. e \in Expansions(DOMAIN tt)
    BY <1>2, <2>1 DEF Calls, Expansions
  <2>3. x = Append(expansions, e) \/ x = expansions
    BY <1>8, <2>1 DEF Calls
  <2>4. PICK E : E = Expansions(DOMAIN tt)
    OBVIOUS
  <2>5. e \in E /\ expansions \in Seq(E)
    BY <1>4, <2>2, <2>4
  <2>6. x \in Seq(E) /\ Len(expansions) <= Len(x)
    BY <2>3, <2>5
  <2>7. QED
    BY <2>4, <2>6
<1>10. PICK r : r = replayed'
  OBVIOUS
<1>11. r \in 0 .. Len(x)
  <2>1. r = replayed \/ (r = replayed + 1 /\ replayed < Len(expansions))
    BY <1>10 DEF Calls
  <2>2. Len(x) \in Nat /\ Len(expansions) \in Nat
    BY <1>4, <1>9
  <2>3. QED
    BY <1>3, <1>9, <2>1, <2>2
<1>12. parameters' \in Int
  BY <1>3 DEF Calls
<1>13. Seq(SymbolTable)' = Seq(SymbolTable) /\ Expansions(DOMAIN tables)' = Expansions(DOMAIN tables')
  BY DEF Lines, SymbolTable, Entry, Expansions
<1>14. QED
  BY <1>1, <1>2, <1>6, <1>7, <1>8, <1>9, <1>10, <1>11, <1>12, <1>13 DEF SymbolsOK

(***************************************************************************)
(* Scopes and the stack.                                                   *)
(***************************************************************************)
LEMMA FiniteExpanded ==
    ASSUME NEW stk, StackOK(stk)
    PROVE  /\ IsFiniteSet(Expanded(stk)) /\ Cardinality(Expanded(stk)) \in Nat
           /\ Len(stk) + 1 \notin Expanded(stk)
<1>1. Len(stk) \in Nat /\ Expanded(stk) \subseteq 1 .. Len(stk)
  BY Stacks DEF Expanded
<1>2. IsFiniteSet(1 .. Len(stk))
  BY <1>1, FS_Interval
<1>3. IsFiniteSet(Expanded(stk))
  BY <1>1, <1>2, FS_Subset
<1>4. QED
  BY <1>1, <1>3, FS_CardinalityType

LEMMA BalanceKept ==
    ASSUME Balanced(stack), NEW stk, Expanded(stk) = Expanded(stack), stack' = stk,
           UNCHANGED <<scopes, parameters>>
    PROVE  Balanced(stack)'
BY DEF Balanced, Expanded

LEMMA BalanceAdvances ==
    ASSUME TextOK, Balanced(stack), stack' \in {stack, Advanced}, UNCHANGED <<scopes, parameters>>
    PROVE  Balanced(stack)'
BY BalanceKept, Advances DEF TextOK

LEMMA BalanceCall ==
    ASSUME TextOK, SymbolsOK, Balanced(stack),
           NEW t, NEW new, NEW listed, Calls(t, new, listed)
    PROVE  Balanced(stack)'
<1>1. macros[line.macro] \in Seq(Lines)
  BY DEF TextOK, Calls
<1>2. PICK stk : stk = Pushed("macro", macros[line.macro], 0)
  OBVIOUS
<1>3. Expanded(stk) = Expanded(stack) \cup {Len(stack) + 1}
  BY <1>1, <1>2, Pushes DEF TextOK
<1>4. Cardinality(Expanded(stk)) = Cardinality(Expanded(stack)) + 1
  BY <1>3, FiniteExpanded, FS_AddElement DEF TextOK
<1>5. /\ stack' = stk /\ parameters' = parameters + 1
      /\ Len(scopes') = Len(scopes) + 1
  BY <1>2 DEF Calls, SymbolsOK
<1>6. Cardinality(Expanded(stack)) \in Nat
  BY FiniteExpanded DEF TextOK
<1>7. Expanded(stack)' = Expanded(stk)
  BY <1>5 DEF Expanded
<1>8. QED
  BY <1>4, <1>5, <1>6, <1>7 DEF Balanced

\* The end of a context takes off the scope and the parameters of a macro only.
LEMMA CloseSymbols ==
    ASSUME SymbolsOK, Balanced(stack), source' = source, NEW stk, StackOK(stk),
           Expanded(stk) = Expanded(stack), Top(stk).kind # "file", NEW conds, Close(stk, conds)
    PROVE  SymbolsOK' /\ Balanced(stack)'
<1>1. /\ Expanded(Without(stk)) = Expanded(stk) \ {Len(stk)}
      /\ Len(stk) \in Expanded(stk) <=> Top(stk).kind = "macro"
  BY Closes
<1>2. IsFiniteSet(Expanded(stk)) /\ Cardinality(Expanded(stk)) \in Nat
  BY FiniteExpanded
<1>3. Len(scopes) = Cardinality(Expanded(stk)) + 1 /\ parameters = Cardinality(Expanded(stk))
  BY DEF Balanced
<1>4. Expanded(stack)' = Expanded(Without(stk))
  BY DEF Expanded, Close
<1>5. UNCHANGED <<tables, expansions, replayed>>
  BY DEF Close
<1>6. CASE Top(stk).kind = "macro"
  <2>1. Cardinality(Expanded(Without(stk))) = Cardinality(Expanded(stk)) - 1
    BY <1>1, <1>2, <1>6, FS_RemoveElement
  <2>2. Cardinality(Expanded(stk)) # 0
    BY <1>1, <1>2, <1>6, FS_EmptySet
  <2>3. scopes' = Without(scopes) /\ parameters' = parameters - 1
    BY <1>6 DEF Close, ClosesScope
  <2>4. scopes \in Seq(DOMAIN tables) /\ Len(scopes) \in Nat /\ 1 < Len(scopes) /\ scopes[1] = 1
    BY <1>2, <1>3, <2>2 DEF SymbolsOK
  <2>5. PICK s : s = Without(scopes)
    OBVIOUS
  <2>6. s \in Seq(DOMAIN tables) /\ Len(s) = Len(scopes) - 1 /\ s # << >> /\ s[1] = 1
    <3>1. PICK m : m = Len(scopes) - 1
      OBVIOUS
    <3>2. m \in 1 .. Len(scopes) /\ s = SubSeq(scopes, 1, m)
      BY <2>4, <2>5, <3>1 DEF Without
    <3>3. s \in Seq(DOMAIN tables) /\ Len(s) = m /\ s[1] = scopes[1]
      BY <2>4, <3>2
    <3>4. s # << >>
      BY <3>2, <3>3
    <3>5. QED
      BY <2>4, <3>1, <3>3, <3>4
  <2>7. Seq(SymbolTable)' = Seq(SymbolTable) /\ Expansions(DOMAIN tables)' = Expansions(DOMAIN tables)
    BY <1>5 DEF Lines, SymbolTable, Entry, Expansions
  <2>8. parameters' \in Int
    BY <1>2, <1>3, <2>3
  <2>9. SymbolsOK'
    BY <1>5, <2>3, <2>5, <2>6, <2>7, <2>8 DEF SymbolsOK
  <2>10. QED
    BY <1>2, <1>3, <1>4, <2>1, <2>3, <2>5, <2>6, <2>9 DEF Balanced
<1>7. CASE Top(stk).kind # "macro"
  <2>1. UNCHANGED <<scopes, parameters>>
    BY <1>7 DEF Close, ClosesScope
  <2>2. Expanded(stack)' = Expanded(stack)
    BY <1>1, <1>4, <1>7
  <2>3. SymbolsOK'
    BY <1>5, <2>1, SymbolsKept DEF SymbolsOK
  <2>4. QED
    BY <2>1, <2>2, <2>3 DEF Balanced
<1>8. QED
  BY <1>6, <1>7

LEMMA SymbolsExitm ==
    ASSUME TextOK, SymbolsOK, Balanced(stack), Exitm
    PROVE  SymbolsOK' /\ Balanced(stack)'
<1>1. source' = source
  BY DEF Exitm, Stays
<1>2. CASE Len(scopes) = 1
  <2>1. stack' = Advanced /\ UNCHANGED symbols
    BY <1>2 DEF Exitm
  <2>2. UNCHANGED <<tables, scopes, parameters, expansions, replayed>>
    BY <2>1 DEF symbols
  <2>3. QED
    BY <1>1, <2>1, <2>2, SymbolsKept, BalanceAdvances DEF SymbolsOK
<1>3. CASE Len(scopes) # 1
  <2>1. StackOK(Advanced) /\ Top(Advanced).kind # "file" /\ Expanded(Advanced) = Expanded(stack)
    BY <1>3, NotTheFile, Advances DEF TextOK
  <2>2. PICK cut : Close(Advanced, cut)
    BY <1>3 DEF Exitm
  <2>3. QED
    BY <1>1, <2>1, <2>2, CloseSymbols
<1>4. QED
  BY <1>2, <1>3

LEMMA SymbolsEndOfBody ==
    ASSUME TextOK, SymbolsOK, Balanced(stack), EndOfBody
    PROVE  SymbolsOK' /\ Balanced(stack)'
<1>1. source' = source
  BY DEF EndOfBody, Stays
<1>2. CASE Again /\ Top(stack).loop <= MaxLoops
  <2>1. stack' = [stack EXCEPT ![Len(stack)] = Round(@)] /\ UNCHANGED symbols
    BY <1>2 DEF EndOfBody
  <2>2. UNCHANGED <<tables, scopes, parameters, expansions, replayed>>
    BY <2>1 DEF symbols
  <2>3. QED
    BY <1>1, <2>1, <2>2, SymbolsKept, BalanceKept, Repeats DEF SymbolsOK, TextOK
<1>3. CASE ~(Again /\ Top(stack).loop <= MaxLoops)
  <2>1. Close(stack, conditions) /\ Top(stack).kind # "file"
    BY <1>3 DEF EndOfBody
  <2>2. QED
    BY <1>1, <2>1, CloseSymbols DEF TextOK
<1>4. QED
  BY <1>2, <1>3

\* The source ends where its own context is the innermost: no macro is open.
LEMMA SymbolsEndPass1 ==
    ASSUME TextOK, SymbolsOK, Balanced(stack), EndPass1
    PROVE  SymbolsOK' /\ Balanced(stack)'
<1>1. /\ Len(stack) \in Nat \ {0} /\ DOMAIN stack = 1 .. Len(stack)
      /\ \A i \in DOMAIN stack : stack[i].kind = "file" <=> i = 1
  BY Stacks DEF TextOK
<1>2. Len(stack) = 1
  BY <1>1 DEF EndPass1, Ends, Top
<1>3. Expanded(stack) = {}
  BY <1>1, <1>2 DEF Expanded
<1>4. Len(scopes) = 1
  BY <1>3, FS_EmptySet DEF Balanced
<1>5. PICK stk : stk = <<Context("file", << >>, 0)>>
  OBVIOUS
<1>6. Expanded(stk) = {}
  BY <1>5 DEF Expanded, Context
<1>7. stack' = stk /\ parameters' = 0 /\ UNCHANGED <<source, scopes, expansions, replayed>>
  BY <1>5 DEF EndPass1
<1>8. Balanced(stack)'
  <2>1. Expanded(stack)' = Expanded(stk)
    BY <1>7 DEF Expanded
  <2>2. Cardinality(Expanded(stk)) = 0
    BY <1>6, FS_EmptySet
  <2>3. Len(scopes') = 1 /\ parameters' = 0
    BY <1>4, <1>7
  <2>4. QED
    BY <2>1, <2>2, <2>3 DEF Balanced
<1>9. PICK new : new = WithoutVariables
  OBVIOUS
<1>10. new \in Seq(SymbolTable) /\ DOMAIN new = DOMAIN tables
  <2>1. /\ Len(tables) \in Nat /\ DOMAIN tables = 1 .. Len(tables)
        /\ \A t \in DOMAIN tables :
              tables[t] \in [DOMAIN tables[t] -> Entry] /\ DOMAIN tables[t] \subseteq Labels
    BY SymbolFacts
  <2>2. ASSUME NEW t \in DOMAIN tables PROVE new[t] \in SymbolTable
    <3>1. PICK f : f = tables[t]
      OBVIOUS
    <3>2. f \in [DOMAIN f -> Entry] /\ DOMAIN f \in SUBSET Labels
      BY <2>1, <2>2, <3>1
    <3>3. f \in SymbolTable
      BY <3>2 DEF SymbolTable
    <3>4. PICK names : names = {n \in DOMAIN f : ~f[n].variable}
      OBVIOUS
    <3>5. Restrict(f, names) \in [names -> Entry] /\ names \in SUBSET Labels
      BY <3>2, <3>4 DEF Restrict
    <3>6. Restrict(f, names) \in SymbolTable
      BY <3>5 DEF SymbolTable
    <3>7. new[t] = IF t \notin Range(scopes) THEN f ELSE Restrict(f, names)
      BY <1>9, <3>1, <3>4 DEF WithoutVariables
    <3>8. QED
      BY <3>3, <3>6, <3>7
  <2>3. new = [t \in 1 .. Len(tables) |-> new[t]]
    BY <1>9, <2>1 DEF WithoutVariables
  <2>4. \A t \in 1 .. Len(tables) : new[t] \in SymbolTable
    BY <2>1, <2>2
  <2>5. new \in [1 .. Len(tables) -> SymbolTable]
    BY <2>3, <2>4
  <2>6. QED
    BY <2>1, <2>5
<1>11. tables' = new
  BY <1>9 DEF EndPass1
<1>12. SymbolsOK'
  BY <1>7, <1>10, <1>11, SymbolsPrime
<1>13. QED
  BY <1>8, <1>12

LEMMA SymbolsStep ==
    ASSUME IInv, [Next]_vars
    PROVE  SymbolsOK' /\ Balanced(stack)'
<1>1. TextOK /\ SymbolsOK /\ Balanced(stack)
  BY DEF IInv
<1>2. ASSUME source' = source, UNCHANGED <<tables, scopes, parameters, expansions, replayed>>,
             stack' \in {stack, Advanced}
      PROVE  SymbolsOK' /\ Balanced(stack)'
  BY <1>1, <1>2, SymbolsKept, BalanceAdvances DEF SymbolsOK
<1>3. CASE UNCHANGED vars
  BY <1>2, <1>3 DEF vars, text, symbols
<1>4. CASE AppendLine \/ Skip \/ Insn \/ Goto
  BY <1>2, <1>4 DEF AppendLine, Skip, Insn, Goto, Stays, symbols
<1>5. CASE Label \/ Set \/ Local
  <2>1. tables' \in Seq(SymbolTable) /\ DOMAIN tables' = DOMAIN tables
    BY <1>5, TablesOfLines
  <2>2. /\ source' = source /\ stack' = Advanced
        /\ UNCHANGED <<scopes, parameters, expansions, replayed>>
    BY <1>5 DEF Label, Set, Local, Stays
  <2>3. PICK new : new = tables'
    OBVIOUS
  <2>4. QED
    BY <1>1, <2>1, <2>2, <2>3, SymbolsPrime, BalanceAdvances DEF SymbolsOK
<1>6. CASE If \/ Ifdef
  BY <1>2, <1>6 DEF If, Ifdef, Enter, Stays, symbols
<1>7. CASE Elif \/ Else \/ Endif \/ Macro \/ Endm \/ While
  BY <1>2, <1>7 DEF Elif, Else, Endif, Macro, Endm, While, Stays, symbols
<1>8. CASE Call
  <2>1. CASE UNCHANGED symbols /\ stack' \in {stack, Advanced}
    BY <1>2, <1>8, <2>1 DEF Call, symbols
  <2>2. CASE \E t : \E new, listed \in BOOLEAN : Calls(t, new, listed)
    BY <1>1, <1>8, <2>2, SymbolsCall, BalanceCall DEF Call
  <2>3. QED
    BY <1>8, <2>1, <2>2, CallCases
<1>9. CASE Endw
  <2>1. source' = source /\ UNCHANGED <<tables, scopes, parameters, expansions, replayed>>
    BY <1>9 DEF Endw, Stays, symbols
  <2>2. CASE stack' = Advanced
    BY <1>2, <2>1, <2>2
  <2>3. CASE stack' = Pushed("while", while.body, while.line)
    <3>1. while.body \in Seq(Lines) /\ while.line \in Nat
      BY <1>1 DEF TextOK
    <3>2. PICK stk : stk = Pushed("while", while.body, while.line)
      OBVIOUS
    <3>3. Expanded(stk) = Expanded(stack)
      BY <1>1, <3>1, <3>2, Pushes DEF TextOK
    <3>4. QED
      BY <1>1, <2>1, <2>3, <3>2, <3>3, SymbolsKept, BalanceKept DEF SymbolsOK
  <2>4. QED
    BY <1>9, <2>2, <2>3 DEF Endw
<1>10. CASE Exitm \/ EndOfBody \/ EndPass1
  BY <1>1, <1>10, SymbolsExitm, SymbolsEndOfBody, SymbolsEndPass1
<1>11. CASE EndPass2
  BY <1>2, <1>11 DEF EndPass2, text, symbols
<1>12. QED
  BY <1>3, <1>4, <1>5, <1>6, <1>7, <1>8, <1>9, <1>10, <1>11 DEF Next

(***************************************************************************)
(* The output.                                                             *)
(***************************************************************************)
LEMMA HasKept ==
    ASSUME KeepsValues(tables'), NEW t, NEW n, NEW v, Has(tables, t, n, v), v # NoValue, n \notin Varying
    PROVE  Has(tables', t, n, v)
BY DEF KeepsValues, Has

LEMMA Reported ==
    ASSUME errors \in BOOLEAN, NEW e, Report(e)
    PROVE  errors' \in BOOLEAN /\ (errors => errors') /\ (pass = 2 /\ e => errors')
BY DEF Report

\* What holds of the places and words of a step holds after it.
LEMMA PlacesStay ==
    ASSUME source' = source, KeepsValues(tables'), ~errors => PlacesKept, errors => errors', ~errors'
    PROVE  \A p \in placed : p.pass = 2 /\ p.label \notin Varying =>
               p.value # NoValue /\ Has(tables', p.table, p.label, p.value)
<1>1. PlacesKept
  OBVIOUS
<1>2. SUFFICES ASSUME NEW p \in placed, p.pass = 2, p.label \notin Varying
               PROVE  p.value # NoValue /\ Has(tables', p.table, p.label, p.value)
  OBVIOUS
<1>3. p.value # NoValue /\ Has(tables, p.table, p.label, p.value)
  BY <1>1, <1>2 DEF PlacesKept
<1>4. QED
  BY <1>2, <1>3, HasKept

LEMMA WordsStay ==
    ASSUME KeepsValues(tables'), WordsKept
    PROVE  \A i \in DOMAIN emitted :
               emitted[i].value # NoValue /\ emitted[i].label \notin Varying =>
                   Has(tables', emitted[i].table, emitted[i].label, emitted[i].value)
<1>1. SUFFICES ASSUME NEW i \in DOMAIN emitted, emitted[i].value # NoValue,
                      emitted[i].label \notin Varying
               PROVE  Has(tables', emitted[i].table, emitted[i].label, emitted[i].value)
  OBVIOUS
<1>2. PICK t, n, v : t = emitted[i].table /\ n = emitted[i].label /\ v = emitted[i].value
  OBVIOUS
<1>3. Has(tables, t, n, v)
  BY <1>1, <1>2 DEF WordsKept
<1>4. Has(tables', t, n, v)
  BY <1>1, <1>2, <1>3, HasKept
<1>5. QED
  BY <1>2, <1>4 DEF Has

LEMMA VaryingKept ==
    ASSUME source' = source
    PROVE  Varying' = Varying /\ Words' = Words
BY DEF Varying, Words, Lines

\* Steps that emit and place nothing.
LEMMA OutputKept ==
    ASSUME OutputOK, source' = source, pass' = pass, KeepsValues(tables'),
           address' \in Nat, UNCHANGED <<emitted, placed>>, errors' \in BOOLEAN, errors => errors'
    PROVE  OutputOK'
<1>1. FirstPassOnly'
  BY DEF OutputOK, FirstPassOnly
<1>2. ASSUME ~errors' PROVE PlacesKept'
  <2>1. \A p \in placed : p.pass = 2 /\ p.label \notin Varying =>
            p.value # NoValue /\ Has(tables', p.table, p.label, p.value)
    BY <1>2, PlacesStay DEF OutputOK
  <2>2. QED
    BY <2>1, VaryingKept DEF PlacesKept, Has, NoValue
<1>3. WordsKept'
  <2>1. \A i \in DOMAIN emitted :
            emitted[i].value # NoValue /\ emitted[i].label \notin Varying =>
                Has(tables', emitted[i].table, emitted[i].label, emitted[i].value)
    BY WordsStay DEF OutputOK
  <2>2. QED
    BY <2>1, VaryingKept DEF WordsKept, Has, NoValue
<1>4. emitted' \in Seq(Words)' /\ pass' \in {1, 2}
  BY VaryingKept DEF OutputOK
<1>5. QED
  BY <1>1, <1>2, <1>3, <1>4 DEF OutputOK

LEMMA TablesKept ==
    ASSUME tables' = tables
    PROVE  KeepsValues(tables')
BY DEF KeepsValues

\* A word that is true when it is emitted.
LEMMA OutputEmits ==
    ASSUME OutputOK, source' = source, pass' = pass, tables' = tables,
           NEW word \in Words, Emit(word), errors' \in BOOLEAN, errors => errors',
           word.value # NoValue => Has(tables, word.table, word.label, word.value)
    PROVE  OutputOK'
<1>1. KeepsValues(tables')
  BY TablesKept
<1>2. address' \in Nat /\ placed' = placed
  BY DEF Emit, OutputOK
<1>3. CASE pass # 2
  <2>1. emitted' = emitted
    BY <1>3 DEF Emit
  <2>2. QED
    BY <1>1, <1>2, <2>1, OutputKept
<1>4. CASE pass = 2
  <2>1. emitted' = Append(emitted, word) /\ emitted \in Seq(Words)
    BY <1>4 DEF Emit, OutputOK
  <2>2. /\ emitted' \in Seq(Words) /\ DOMAIN emitted' = 1 .. Len(emitted) + 1
        /\ Len(emitted) \in Nat /\ DOMAIN emitted = 1 .. Len(emitted)
        /\ \A i \in DOMAIN emitted : emitted'[i] = emitted[i]
        /\ emitted'[Len(emitted) + 1] = word
    BY <2>1
  <2>3. FirstPassOnly'
    BY <1>4 DEF FirstPassOnly
  <2>4. ASSUME ~errors' PROVE PlacesKept'
    <3>1. \A p \in placed : p.pass = 2 /\ p.label \notin Varying =>
              p.value # NoValue /\ Has(tables', p.table, p.label, p.value)
      BY <1>1, <2>4, PlacesStay DEF OutputOK
    <3>2. QED
      BY <1>2, <3>1, VaryingKept DEF PlacesKept, Has, NoValue
  <2>5. ASSUME NEW i \in DOMAIN emitted', emitted'[i].value # NoValue,
               emitted'[i].label \notin Varying
        PROVE  Has(tables, emitted'[i].table, emitted'[i].label, emitted'[i].value)
    <3>1. CASE i \in DOMAIN emitted
      <4>1. emitted'[i] = emitted[i]
        BY <2>2, <3>1
      <4>2. QED
        BY <2>5, <3>1, <4>1 DEF OutputOK, WordsKept
    <3>2. CASE i \notin DOMAIN emitted
      <4>1. i = Len(emitted) + 1
        BY <2>2, <3>2
      <4>2. emitted'[i] = word
        BY <2>2, <4>1
      <4>3. QED
        BY <2>5, <4>2
    <3>3. QED
      BY <3>1, <3>2
  <2>6. WordsKept'
    BY <2>5, VaryingKept DEF WordsKept, Has, NoValue
  <2>7. emitted' \in Seq(Words)' /\ pass' \in {1, 2}
    BY <2>2, VaryingKept DEF OutputOK
  <2>8. QED
    BY <1>2, <2>3, <2>4, <2>6, <2>7 DEF OutputOK
<1>5. QED
  BY <1>3, <1>4

LEMMA OutputInsn ==
    ASSUME IInv, Insn
    PROVE  OutputOK'
<1>1. TextOK /\ OutputOK /\ Here(Top(stack)) \in Lines
  BY LineRead DEF IInv, Insn, Does, Reads
<1>2. PICK word : word = [line |-> Here(Top(stack)), table |-> 0, label |-> "", value |-> NoValue]
  OBVIOUS
<1>3. Emit(word)
  BY <1>2 DEF Insn
<1>4. word \in Words /\ word.value = NoValue
  <2>1. PICK k : k = NoValue
    OBVIOUS
  <2>2. k \in Int
    BY <2>1 DEF NoValue
  <2>3. Here(Top(stack)) \in Lines
    BY <1>1
  <2>4. PICK here : here = Here(Top(stack))
    OBVIOUS
  <2>5. word = [line |-> here, table |-> 0, label |-> "", value |-> k]
    BY <1>2, <2>1, <2>4
  <2>6. QED
    BY <2>1, <2>2, <2>3, <2>4, <2>5 DEF Words
<1>5. source' = source /\ pass' = pass /\ tables' = tables /\ errors' = errors
  BY DEF Insn, Stays, symbols, messages
<1>6. errors \in BOOLEAN
  BY <1>1 DEF OutputOK
<1>7. QED
  BY <1>1, <1>3, <1>4, <1>5, <1>6, OutputEmits

LEMMA OutputGoto ==
    ASSUME IInv, Goto
    PROVE  OutputOK'
<1>1. TextOK /\ SymbolsOK /\ OutputOK
  BY DEF IInv
<1>2. Here(Top(stack)) \in Lines /\ line \in Line
  BY <1>1, LineRead DEF Goto, Does, Reads
<1>3. line.label \in Labels
  <2>1. line.op = "goto"
    BY DEF Goto, Does, Reads, line
  <2>2. QED
    BY <1>2, <2>1, Fields
<1>4. PICK n : n = line.label
  OBVIOUS
<1>5. PICK word : word = [line |-> Here(Top(stack)), table |-> Table(n), label |-> n, value |-> Value(n)]
  OBVIOUS
<1>6. Emit(word)
  BY <1>4, <1>5 DEF Goto
<1>7. word \in Words
  BY <1>1, <1>2, <1>3, <1>4, <1>5, Found DEF Words
<1>8. word.value # NoValue => Has(tables, word.table, word.label, word.value)
  <2>1. Value(n) # NoValue => Has(tables, Table(n), n, Value(n))
    BY <1>1, Found DEF Has
  <2>2. word.table = Table(n) /\ word.label = n /\ word.value = Value(n)
    BY <1>5
  <2>3. QED
    BY <2>1, <2>2
<1>9. source' = source /\ pass' = pass /\ tables' = tables
  BY DEF Goto, Stays, symbols
<1>10. errors' \in BOOLEAN /\ (errors => errors')
  BY <1>1, Reported DEF Goto, OutputOK
<1>11. QED
  BY <1>1, <1>6, <1>7, <1>8, <1>9, <1>10, OutputEmits

LEMMA OutputLabel ==
    ASSUME IInv, Label
    PROVE  OutputOK'
<1>1. TextOK /\ SymbolsOK /\ OutputOK
  BY DEF IInv
<1>2. KeepsValues(tables')
  BY TablesOfLines
<1>3. PICK n : n = line.label
  OBVIOUS
<1>4. PICK t : t = IF Table(n) = 0 THEN 1 ELSE Table(n)
  OBVIOUS
<1>5. PICK p : p = [pass |-> pass, table |-> t, label |-> n, value |-> address, inner |-> Inner(t)]
  OBVIOUS
<1>6. placed' = placed \cup {p}
  BY <1>3, <1>4, <1>5 DEF Label
<1>7. p.pass = pass /\ p.table = t /\ p.label = n /\ p.value = address
  BY <1>5
<1>8. source' = source /\ pass' = pass /\ address' = address /\ emitted' = emitted
  BY DEF Label, Stays
<1>9. errors' \in BOOLEAN /\ (errors => errors') /\ (pass = 2 /\ Conflict(n) => errors')
  BY <1>1, <1>3, Reported DEF Label, OutputOK
<1>10. address \in Nat /\ address # NoValue /\ pass \in {1, 2}
  BY <1>1 DEF OutputOK, NoValue
<1>11. n \in Labels
  <2>1. line \in Line
    BY <1>1, LineRead DEF Label, Does, Reads
  <2>2. line.op = "label"
    BY DEF Label, Does, Reads, line
  <2>3. QED
    BY <1>3, <2>1, <2>2, Fields
<1>12. ASSUME pass = 2, ~errors' PROVE Has(tables', t, n, address)
  <2>1. CASE Value(n) = NoValue
    <3>1. PICK v : v = [value |-> address, variable |-> FALSE]
      OBVIOUS
    <3>2. v \in Entry /\ v.value = address
      BY <1>10, <3>1 DEF Entry
    <3>3. t \in DOMAIN tables
      BY <1>1, <1>4, Found, SymbolFacts
    <3>4. tables' = Entered(t, n, v)
      BY <1>3, <1>4, <2>1, <3>1 DEF Label
    <3>5. t \in DOMAIN tables' /\ n \in DOMAIN tables'[t] /\ tables'[t][n] = v
      BY <1>1, <1>11, <3>2, <3>3, <3>4, EnteredFacts
    <3>6. QED
      BY <3>2, <3>5 DEF Has
  <2>2. CASE Value(n) # NoValue
    <3>1. tables' = tables
      BY <1>3, <2>2 DEF Label
    <3>2. ~Conflict(n)
      BY <1>9, <1>12
    <3>3. Value(n) = address
      BY <1>12, <2>2, <3>2 DEF Conflict
    <3>4. Has(tables, t, n, address)
      BY <1>1, <1>4, <2>2, <3>3, Found DEF Has
    <3>5. QED
      BY <3>1, <3>4 DEF Has
  <2>3. QED
    BY <2>1, <2>2
<1>13. FirstPassOnly'
  BY <1>1, <1>6, <1>7, <1>8 DEF OutputOK, FirstPassOnly
<1>14. ASSUME ~errors' PROVE PlacesKept'
  <2>1. \A q \in placed : q.pass = 2 /\ q.label \notin Varying =>
            q.value # NoValue /\ Has(tables', q.table, q.label, q.value)
    BY <1>1, <1>2, <1>8, <1>9, <1>14, PlacesStay DEF OutputOK
  <2>2. p.pass = 2 => p.value # NoValue /\ Has(tables', p.table, p.label, p.value)
    BY <1>7, <1>10, <1>12, <1>14 DEF Has
  <2>3. \A q \in placed' : q.pass = 2 /\ q.label \notin Varying =>
            q.value # NoValue /\ Has(tables', q.table, q.label, q.value)
    BY <1>6, <2>1, <2>2
  <2>4. QED
    BY <1>8, <2>3, VaryingKept DEF PlacesKept, Has, NoValue
<1>15. WordsKept'
  <2>1. \A i \in DOMAIN emitted :
            emitted[i].value # NoValue /\ emitted[i].label \notin Varying =>
                Has(tables', emitted[i].table, emitted[i].label, emitted[i].value)
    BY <1>1, <1>2, WordsStay DEF OutputOK
  <2>2. QED
    BY <1>8, <2>1, VaryingKept DEF WordsKept, Has, NoValue
<1>16. emitted' \in Seq(Words)'
  BY <1>1, <1>8, VaryingKept DEF OutputOK
<1>17. QED
  BY <1>8, <1>9, <1>10, <1>13, <1>14, <1>15, <1>16 DEF OutputOK

\* Pass 2 starts with nothing emitted and nothing placed.
LEMMA OutputEndPass1 ==
    ASSUME IInv, EndPass1
    PROVE  OutputOK'
<1>1. emitted = << >> /\ (\A p \in placed : p.pass = 1) /\ errors \in BOOLEAN
  BY DEF IInv, OutputOK, FirstPassOnly, EndPass1
<1>2. source' = source /\ pass' = 2 /\ address' = 0 /\ emitted' = emitted /\ placed' = placed
      /\ errors' = errors
  BY DEF EndPass1, messages
<1>3. FirstPassOnly' /\ PlacesKept' /\ WordsKept' /\ emitted' \in Seq(Words)'
  <2>1. FirstPassOnly'
    BY <1>2 DEF FirstPassOnly
  <2>2. PlacesKept'
    BY <1>1, <1>2 DEF PlacesKept
  <2>3. WordsKept'
    BY <1>1, <1>2 DEF WordsKept
  <2>4. emitted' \in Seq(Words)'
    BY <1>1, <1>2
  <2>5. QED
    BY <2>1, <2>2, <2>3, <2>4
<1>4. QED
  BY <1>1, <1>2, <1>3 DEF OutputOK

LEMMA OutputStep ==
    ASSUME IInv, [Next]_vars
    PROVE  OutputOK'
<1>1. TextOK /\ SymbolsOK /\ OutputOK /\ errors \in BOOLEAN /\ address \in Nat
  BY DEF IInv, OutputOK
<1>2. ASSUME source' = source, pass' = pass, UNCHANGED <<tables, address, emitted, placed>>,
             errors' = errors \/ \E e : Report(e)
      PROVE  OutputOK'
  <2>1. errors' \in BOOLEAN /\ (errors => errors')
    BY <1>1, <1>2, Reported
  <2>2. QED
    BY <1>1, <1>2, <2>1, TablesKept, OutputKept
<1>3. CASE UNCHANGED vars
  BY <1>2, <1>3 DEF vars, symbols, output, messages
<1>4. CASE AppendLine \/ Skip
  BY <1>2, <1>4 DEF AppendLine, Skip, symbols, output, messages
<1>5. CASE Insn \/ Goto \/ Label \/ EndPass1
  BY <1>5, OutputInsn, OutputGoto, OutputLabel, OutputEndPass1
<1>6. CASE Set \/ Local
  <2>1. source' = source /\ pass' = pass /\ address' = address /\ UNCHANGED <<emitted, placed>>
    BY <1>6 DEF Set, Local, Stays, output
  <2>2. \E e : Report(e)
    BY <1>6 DEF Set, Local
  <2>3. KeepsValues(tables')
    BY <1>6, TablesOfLines
  <2>4. QED
    BY <1>1, <2>1, <2>2, <2>3, Reported, OutputKept
<1>7. CASE Call
  <2>1. source' = source /\ pass' = pass /\ address' = address /\ UNCHANGED <<emitted, placed>>
    BY <1>7 DEF Call, output
  <2>2. errors' = errors \/ \E e : Report(e)
    BY <1>7 DEF Call
  <2>3. KeepsValues(tables')
    <3>1. CASE UNCHANGED symbols
      BY <3>1, TablesKept DEF symbols
    <3>2. CASE \E t : \E new, listed \in BOOLEAN : Calls(t, new, listed)
      BY <1>1, <3>2, CallTables
    <3>3. QED
      BY <1>7, <3>1, <3>2, CallCases
  <2>4. errors' \in BOOLEAN /\ (errors => errors')
    BY <1>1, <2>2, Reported
  <2>5. QED
    BY <1>1, <2>1, <2>3, <2>4, OutputKept
<1>8. CASE If \/ Ifdef
  BY <1>2, <1>8 DEF If, Ifdef, Enter, Stays, symbols, output
<1>9. CASE Elif \/ Else \/ Endif
  BY <1>2, <1>9 DEF Elif, Else, Endif, Stays, symbols, output
<1>10. CASE Macro \/ Endm \/ While \/ Endw \/ EndPass2
  BY <1>2, <1>10 DEF Macro, Endm, While, Endw, EndPass2, Stays, symbols, output, messages
<1>11. CASE Exitm
  BY <1>2, <1>11 DEF Exitm, Close, Stays, symbols, output
<1>12. CASE EndOfBody
  BY <1>2, <1>12 DEF EndOfBody, Close, Stays, symbols, output
<1>13. QED
  BY <1>3, <1>4, <1>5, <1>6, <1>7, <1>8, <1>9, <1>10, <1>11, <1>12 DEF Next

(***************************************************************************)
(* The theorems.                                                           *)
(***************************************************************************)
LEMMA Initially == Init => IInv
<1> SUFFICES ASSUME Init PROVE IInv
  OBVIOUS
<1>1. TextOK
  BY TextInit
<1>2. SymbolsOK
  <2>1. PICK e : e = [n \in {} |-> Unassigned]
    OBVIOUS
  <2>2. e \in SymbolTable
    <3>1. e \in [{} -> Entry] /\ {} \in SUBSET Labels
      BY <2>1
    <3>2. QED
      BY <3>1 DEF SymbolTable
  <2>3. tables = <<e>> /\ scopes = <<1>> /\ expansions = << >> /\ replayed = 0 /\ parameters = 0
    BY <2>1 DEF Init
  <2>4. tables \in Seq(SymbolTable) /\ DOMAIN tables = {1}
    BY <2>2, <2>3
  <2>5. scopes \in Seq(DOMAIN tables) /\ scopes # << >> /\ scopes[1] = 1
    BY <2>3, <2>4
  <2>6. expansions \in Seq(Expansions(DOMAIN tables)) /\ replayed \in 0 .. Len(expansions)
    BY <2>3
  <2>7. QED
    BY <2>3, <2>4, <2>5, <2>6 DEF SymbolsOK
<1>3. Balanced(stack)
  <2>1. Expanded(stack) = {}
    BY DEF Init, Expanded, Context
  <2>2. Len(scopes) = 1 /\ parameters = 0
    BY DEF Init
  <2>3. QED
    BY <2>1, <2>2, FS_EmptySet DEF Balanced
<1>4. OutputOK
  <2>1. pass = 1 /\ address = 0 /\ emitted = << >> /\ placed = {} /\ errors = FALSE
    BY DEF Init
  <2>2. emitted \in Seq(Words) /\ DOMAIN emitted = {}
    BY <2>1
  <2>3. FirstPassOnly /\ PlacesKept /\ WordsKept
    BY <2>1, <2>2 DEF FirstPassOnly, PlacesKept, WordsKept
  <2>4. QED
    BY <2>1, <2>2, <2>3 DEF OutputOK
<1>5. QED
  BY <1>1, <1>2, <1>3, <1>4 DEF IInv

LEMMA Invariance == Spec => []IInv
<1>1. IInv /\ [Next]_vars => IInv'
  <2> SUFFICES ASSUME IInv, [Next]_vars PROVE IInv'
    OBVIOUS
  <2>1. TextOK' /\ SymbolsOK' /\ Balanced(stack)' /\ OutputOK'
    BY TextStep, SymbolsStep, OutputStep
  <2>2. QED
    BY <2>1 DEF IInv
<1>2. QED
  BY <1>1, Initially, PTL DEF Spec

\* A table of symbols and one of parameters are open for each macro that is being
\* expanded, whatever loops, early exits and conditionals do (macro_push_symbol_table,
\* close_file).
THEOREM ScopesFollowMacros == Spec => []ScopesBalanced
<1>1. IInv => ScopesBalanced
  BY DEF IInv, Balanced, Expanded, ScopesBalanced
<1>2. QED
  BY <1>1, Invariance, PTL

\* An assembly without errors uses the address of a label that pass 2 gives it
\* (set_global, gp_sym_get_symbol).
THEOREM ReferencesHold == Spec => []ReferencesAreTrue
<1>1. ASSUME IInv PROVE ReferencesAreTrue
  <2>1. SUFFICES ASSUME ~errors, NEW word \in Range(emitted), NEW p \in placed,
                        p.pass = 2, p.table = word.table, p.label = word.label,
                        word.value # NoValue, p.label \notin Varying
                 PROVE  p.value = word.value
    BY DEF ReferencesAreTrue
  <2>2. PICK i \in DOMAIN emitted : word = emitted[i]
    BY DEF Range
  <2>3. Has(tables, p.table, p.label, p.value)
    BY <1>1, <2>1 DEF IInv, OutputOK, PlacesKept
  <2>4. Has(tables, word.table, word.label, word.value)
    BY <1>1, <2>1, <2>2 DEF IInv, OutputOK, WordsKept
  <2>5. QED
    BY <2>1, <2>3, <2>4 DEF Has
<1>2. QED
  BY <1>1, Invariance, PTL

(***************************************************************************)
(* Conditionals.                                                           *)
(***************************************************************************)
\* The conditionals that lines j to k open and do not close.
Balance(j, k) ==
    Cardinality({l \in j .. k : source[l].op = "if"})
        - Cardinality({l \in j .. k : source[l].op = "endif"})

\* The conditionals that are open at line i.
Open(i) == {j \in Lines : Encloses(j, i)}

\* The last branch of conditional j before line i, and whether one held.
Branch(j, i) == Max({k \in Branches(j) : k < i})

Held(j, i) == \E b \in Branches(j) : b < i /\ source[b].op # "else" /\ source[b].value

\* The conditionals on the stack are those that are open, the outermost first.
Nesting(conds, i) ==
    /\ \A j \in Open(i) : Balance(j, i - 1) \in 1 .. Len(conds)
    /\ \A n \in 1 .. Len(conds) : \E j \in Open(i) : Balance(j, i - 1) = n
    /\ \A j, k \in Open(i) : j < k => Balance(k, i - 1) < Balance(j, i - 1)

\* Where conditional j is on the stack.
Place(conds, j, i) == Len(conds) + 1 - Balance(j, i - 1)

\* Every open conditional outside of j chooses the branch in which line i is.
Reached(j, i) == \A m \in Open(i) : m < j => Chosen(m, Branch(m, i))

Mode(c, j, i) ==
    /\ c.upper <=> Reached(j, i)
    /\ c.upper => /\ c.before <=> Held(j, i)
                  /\ c.enabled <=> Chosen(j, Branch(j, i))

Modes(conds, i) == \A j \in Open(i) : Mode(conds[Place(conds, j, i)], j, i)

\* A conditional on the stack.
Amode(cells) == [cell : cells, upper : BOOLEAN, enabled : BOOLEAN, before : BOOLEAN]

ModesTyped(conds) == conds \in Seq(Amode({conds[n].cell : n \in DOMAIN conds}))

\* The instructions before line i that the text selects.
Selected(i) ==
    {l \in 1 .. i - 1 : source[l].op = "insn" /\ \A m \in Open(l) : Chosen(m, Branch(m, l))}

ConditionalsOK ==
    LET i == stack[1].at IN
    /\ Len(stack) = 1
    /\ definition = "none"
    /\ i \in 1 .. Len(source) + 1
    /\ ModesTyped(conditions)
    /\ Nesting(conditions, i)
    /\ Modes(conditions, i)
    /\ ~errors
    /\ pass = 2 => {emitted[n].line : n \in DOMAIN emitted} = Selected(i)
    /\ pc = "done" => pass = 2 /\ i = Len(source) + 1

\* The inductive invariant of conditionals.
BInv == WellFormed => ConditionalsOK

\* What the text says does not change.
LEMMA SameText ==
    ASSUME source' = source
    PROVE  /\ Lines' = Lines /\ Len(source)' = Len(source)
           /\ WellFormed' <=> WellFormed
           /\ \A conds, i : /\ Nesting(conds, i)' <=> Nesting(conds, i)
                            /\ Modes(conds, i)' <=> Modes(conds, i)
           /\ \A i : Selected(i)' = Selected(i)
<1>1. \A j, i : Encloses(j, i)' <=> Encloses(j, i)
  BY DEF Encloses
<1>2. \A j, k : Balance(j, k)' = Balance(j, k)
  BY DEF Balance
<1>3. Lines' = Lines /\ \A i : Open(i)' = Open(i)
  BY <1>1 DEF Lines, Open
<1>4. \A j : Branches(j)' = Branches(j)
  BY <1>1 DEF Branches
<1>5. \A j, i : Branch(j, i)' = Branch(j, i)
  BY <1>4 DEF Branch
<1>6. \A j, k : Chosen(j, k)' <=> Chosen(j, k)
  BY <1>4 DEF Chosen
<1>7. \A j, i : Held(j, i)' <=> Held(j, i)
  BY <1>4 DEF Held
<1>8. \A j, i : Reached(j, i)' <=> Reached(j, i)
  BY <1>3, <1>5, <1>6 DEF Reached
<1>9. \A c, j, i : Mode(c, j, i)' <=> Mode(c, j, i)
  BY <1>5, <1>6, <1>7, <1>8 DEF Mode
<1>10. \A conds, j, i : Place(conds, j, i)' = Place(conds, j, i)
  BY <1>2 DEF Place
<1>11. \A conds, i : Nesting(conds, i)' <=> Nesting(conds, i)
  BY <1>2, <1>3 DEF Nesting
<1>12. \A conds, i : Modes(conds, i)' <=> Modes(conds, i)
  BY <1>3, <1>9, <1>10 DEF Modes
<1>13. \A i : Selected(i)' = Selected(i)
  BY <1>3, <1>5, <1>6 DEF Selected
<1>14. WellFormed' <=> WellFormed
  <2>1. (Kinds \subseteq {"insn", "if", "elif", "else", "endif"})'
            <=> Kinds \subseteq {"insn", "if", "elif", "else", "endif"}
    BY DEF Kinds
  <2>2. (\A i \in DOMAIN source : "var" \notin DOMAIN source[i])'
            <=> \A i \in DOMAIN source : "var" \notin DOMAIN source[i]
    OBVIOUS
  <2>3. (\E j \in DOMAIN source : Encloses(j, Len(source) + 1))'
            <=> \E j \in DOMAIN source : Encloses(j, Len(source) + 1)
    <3>1. \A j : Encloses(j, Len(source) + 1)' <=> Encloses(j, Len(source) + 1)
      BY DEF Encloses
    <3>2. QED
      BY <3>1
  <2>4. ASSUME NEW i
        PROVE  /\ (\E j \in 1 .. i - 1 : i \in Branches(j))' <=> \E j \in 1 .. i - 1 : i \in Branches(j)
               /\ (\E j \in DOMAIN source : Encloses(j, i))' <=> \E j \in DOMAIN source : Encloses(j, i)
               /\ (\A j \in DOMAIN source : i \in Branches(j) => i = Max(Branches(j)))'
                     <=> \A j \in DOMAIN source : i \in Branches(j) => i = Max(Branches(j))
    BY <1>1, <1>4
  <2>5. (\A i \in DOMAIN source :
            /\ source[i].op \in {"elif", "else"} => \E j \in 1 .. i - 1 : i \in Branches(j)
            /\ source[i].op = "endif" => \E j \in DOMAIN source : Encloses(j, i)
            /\ source[i].op = "else" =>
                  \A j \in DOMAIN source : i \in Branches(j) => i = Max(Branches(j)))'
        <=> \A i \in DOMAIN source :
            /\ source[i].op \in {"elif", "else"} => \E j \in 1 .. i - 1 : i \in Branches(j)
            /\ source[i].op = "endif" => \E j \in DOMAIN source : Encloses(j, i)
            /\ source[i].op = "else" =>
                  \A j \in DOMAIN source : i \in Branches(j) => i = Max(Branches(j))
    BY <2>4
  <2>6. QED
    BY <2>1, <2>2, <2>3, <2>5 DEF WellFormed
<1>15. QED
  BY <1>3, <1>11, <1>12, <1>13, <1>14

(***************************************************************************)
(* Balances.                                                               *)
(***************************************************************************)
LEMMA OneMore ==
    ASSUME NEW P, NEW j \in Int, NEW k \in Int, j <= k
    PROVE  /\ Cardinality((j .. k - 1) \cap P) \in Nat
           /\ k \in P => Cardinality((j .. k) \cap P) = Cardinality((j .. k - 1) \cap P) + 1
           /\ k \notin P => Cardinality((j .. k) \cap P) = Cardinality((j .. k - 1) \cap P)
<1> DEFINE S == (j .. k - 1) \cap P  T == (j .. k) \cap P
<1>1. IsFiniteSet(j .. k - 1) /\ S \in SUBSET (j .. k - 1)
  BY FS_Interval
<1>2. IsFiniteSet(S) /\ Cardinality(S) \in Nat
  BY <1>1, FS_Subset, FS_CardinalityType
<1>3. (k \in P => T = S \cup {k}) /\ (k \notin P => T = S) /\ k \notin S
  OBVIOUS
<1> HIDE DEF S, T
<1>4. /\ k \in P => Cardinality(T) = Cardinality(S) + 1
      /\ k \notin P => Cardinality(T) = Cardinality(S)
  BY <1>2, <1>3, FS_AddElement
<1>5. QED
  BY <1>2, <1>4 DEF S, T

LEMMA BalanceNext ==
    ASSUME NEW j \in Int, NEW k \in Int, j <= k
    PROVE  /\ Balance(j, k) \in Int /\ Balance(j, k - 1) \in Int
           /\ source[k].op = "if" => Balance(j, k) = Balance(j, k - 1) + 1
           /\ source[k].op = "endif" => Balance(j, k) = Balance(j, k - 1) - 1
           /\ source[k].op \notin {"if", "endif"} => Balance(j, k) = Balance(j, k - 1)
<1> DEFINE Ifs == {l \in j .. k : source[l].op = "if"}
           Endifs == {l \in j .. k : source[l].op = "endif"}
<1>1. /\ \A m \in {k, k - 1} : {l \in j .. m : source[l].op = "if"} = (j .. m) \cap Ifs
      /\ \A m \in {k, k - 1} : {l \in j .. m : source[l].op = "endif"} = (j .. m) \cap Endifs
  OBVIOUS
<1>2. (k \in Ifs <=> source[k].op = "if") /\ (k \in Endifs <=> source[k].op = "endif")
  OBVIOUS
<1>3. /\ Balance(j, k) = Cardinality((j .. k) \cap Ifs) - Cardinality((j .. k) \cap Endifs)
      /\ Balance(j, k - 1) = Cardinality((j .. k - 1) \cap Ifs) - Cardinality((j .. k - 1) \cap Endifs)
  BY <1>1 DEF Balance
<1> HIDE DEF Ifs, Endifs
<1>4. PICK a, b : a = Cardinality((j .. k - 1) \cap Ifs) /\ b = Cardinality((j .. k - 1) \cap Endifs)
  OBVIOUS
<1>5. /\ a \in Nat
      /\ k \in Ifs => Cardinality((j .. k) \cap Ifs) = a + 1
      /\ k \notin Ifs => Cardinality((j .. k) \cap Ifs) = a
  BY <1>4, OneMore
<1>6. /\ b \in Nat
      /\ k \in Endifs => Cardinality((j .. k) \cap Endifs) = b + 1
      /\ k \notin Endifs => Cardinality((j .. k) \cap Endifs) = b
  BY <1>4, OneMore
<1>7. source[k].op = "if" => k \in Ifs /\ k \notin Endifs
  BY <1>2
<1>8. source[k].op = "endif" => k \notin Ifs /\ k \in Endifs
  BY <1>2
<1>9. source[k].op \notin {"if", "endif"} => k \notin Ifs /\ k \notin Endifs
  BY <1>2
<1>10. QED
  BY <1>3, <1>4, <1>5, <1>6, <1>7, <1>8, <1>9

LEMMA BalanceOfNothing ==
    ASSUME NEW j \in Int
    PROVE  Balance(j, j - 1) = 0
<1>1. j .. j - 1 = {}
  OBVIOUS
<1>2. {l \in j .. j - 1 : source[l].op = "if"} = {} /\ {l \in j .. j - 1 : source[l].op = "endif"} = {}
  BY <1>1
<1>3. PICK none : none = {}
  OBVIOUS
<1>4. Balance(j, j - 1) = Cardinality(none) - Cardinality(none)
  BY <1>2, <1>3 DEF Balance
<1>5. Cardinality(none) = 0
  BY <1>3, FS_EmptySet
<1>6. QED
  BY <1>4, <1>5

LEMMA EnclosesMeans ==
    ASSUME NEW j \in Int, NEW i \in Int
    PROVE  Encloses(j, i) <=> /\ source[j].op = "if" /\ j < i
                              /\ \A k \in j + 1 .. i - 1 : Balance(j, k) > 0
<1>1. ASSUME NEW k \in j + 1 .. i - 1
      PROVE  Cardinality({l \in j .. k : source[l].op = "if"})
                 > Cardinality({l \in j .. k : source[l].op = "endif"}) <=> Balance(j, k) > 0
  <2> DEFINE Ifs == {l \in j .. k : source[l].op = "if"}
             Endifs == {l \in j .. k : source[l].op = "endif"}
  <2>1. IsFiniteSet(j .. k) /\ Ifs \in SUBSET (j .. k) /\ Endifs \in SUBSET (j .. k)
    BY FS_Interval
  <2>2. Cardinality(Ifs) \in Nat /\ Cardinality(Endifs) \in Nat
    BY <2>1, FS_Subset, FS_CardinalityType
  <2>3. Balance(j, k) = Cardinality(Ifs) - Cardinality(Endifs)
    BY DEF Balance
  <2> HIDE DEF Ifs, Endifs
  <2>4. Cardinality(Ifs) > Cardinality(Endifs) <=> Balance(j, k) > 0
    BY <2>2, <2>3
  <2>5. QED
    BY <2>4 DEF Ifs, Endifs
<1>2. QED
  BY <1>1 DEF Encloses

\* A line may open a conditional, and close one.
LEMMA EnclosesNext ==
    ASSUME NEW j \in Int, NEW i \in Int
    PROVE  Encloses(j, i + 1) <=> \/ j = i /\ source[i].op = "if"
                                  \/ Encloses(j, i) /\ Balance(j, i) > 0
<1>1. CASE j < i
  <2>1. j + 1 .. (i + 1) - 1 = (j + 1 .. i - 1) \cup {i}
    BY <1>1
  <2>2. QED
    BY <1>1, <2>1, EnclosesMeans
<1>2. CASE j = i
  <2>1. j + 1 .. (i + 1) - 1 = {}
    BY <1>2
  <2>2. QED
    BY <1>2, <2>1, EnclosesMeans
<1>3. CASE j > i
  BY <1>3, EnclosesMeans
<1>4. QED
  BY <1>1, <1>2, <1>3

Sourced == source \in Seq(Line)

LEMMA OpenFacts ==
    ASSUME Sourced, NEW i \in Int
    PROVE  /\ Lines = 1 .. Len(source) /\ Len(source) \in Nat
           /\ \A j \in Open(i) : /\ j \in Lines /\ j \in Nat /\ j < i /\ Encloses(j, i)
                                 /\ source[j].op = "if"
<1>1. Lines = 1 .. Len(source) /\ Len(source) \in Nat
  BY DEF Sourced, Lines
<1>2. ASSUME NEW j \in Open(i) PROVE j \in Lines /\ j \in Nat /\ j < i /\ Encloses(j, i) /\ source[j].op = "if"
  <2>1. j \in Lines /\ j \in Nat /\ j \in Int /\ Encloses(j, i)
    BY <1>1 DEF Open
  <2>2. QED
    BY <2>1, EnclosesMeans
<1>3. QED
  BY <1>1, <1>2

LEMMA OpenNext ==
    ASSUME Sourced, NEW i \in Lines
    PROVE  Open(i + 1) = {j \in Open(i) : Balance(j, i) > 0} \cup {j \in {i} : source[i].op = "if"}
<1>1. i \in Int /\ \A j \in Lines : j \in Int
  BY OpenFacts
<1>2. \A j \in Lines : Encloses(j, i + 1) <=> \/ j = i /\ source[i].op = "if"
                                              \/ Encloses(j, i) /\ Balance(j, i) > 0
  BY <1>1, EnclosesNext
<1>3. QED
  BY <1>2 DEF Open

(***************************************************************************)
(* Branches.                                                               *)
(***************************************************************************)
LEMMA BranchAt ==
    ASSUME Sourced, NEW i \in Lines, NEW j \in Open(i)
    PROVE  i \in Branches(j) <=>
               source[i].op \in {"elif", "else"} /\ \A m \in Open(i) : m <= j
<1>1. /\ Lines = 1 .. Len(source) /\ Len(source) \in Nat /\ i \in Nat
      /\ j \in Nat /\ j < i /\ Encloses(j, i)
      /\ \A m \in Open(i) : m \in Nat /\ m < i /\ Encloses(m, i)
  BY OpenFacts
<1>2. (\A l \in j + 1 .. i - 1 : ~Encloses(l, i)) <=> \A m \in Open(i) : m <= j
  <2>1. ASSUME \A l \in j + 1 .. i - 1 : ~Encloses(l, i), NEW m \in Open(i) PROVE m <= j
    BY <1>1, <2>1
  <2>2. ASSUME \A m \in Open(i) : m <= j, NEW l \in j + 1 .. i - 1 PROVE ~Encloses(l, i)
    <3>1. l \in Lines /\ ~(l <= j)
      BY <1>1
    <3>2. QED
      BY <2>2, <3>1 DEF Open
  <2>3. QED
    BY <2>1, <2>2
<1>3. i \in DOMAIN source /\ i # j
  BY <1>1 DEF Lines
<1>4. i \in Branches(j) <=> source[i].op \in {"elif", "else"} /\ Encloses(j, i)
                            /\ \A l \in j + 1 .. i - 1 : ~Encloses(l, i)
  BY <1>3 DEF Branches
<1>5. QED
  BY <1>1, <1>2, <1>4

LEMMA BranchesAreLines ==
    ASSUME Sourced, NEW j \in Lines
    PROVE  Branches(j) \subseteq 1 .. Len(source) /\ j \in Branches(j)
BY DEF Branches, Lines, Sourced

LEMMA BranchKept ==
    ASSUME Sourced, NEW i \in Lines, NEW j \in Lines, i \notin Branches(j)
    PROVE  Branch(j, i + 1) = Branch(j, i) /\ (Held(j, i + 1) <=> Held(j, i))
<1>1. \A k \in Branches(j) : k \in Int /\ k # i
  BY BranchesAreLines
<1>2. i \in Int
  BY OpenFacts
<1>3. \A k \in Branches(j) : k < i + 1 <=> k < i
  BY <1>1, <1>2
<1>4. {k \in Branches(j) : k < i + 1} = {k \in Branches(j) : k < i}
  BY <1>3
<1>5. QED
  BY <1>3, <1>4 DEF Branch, Held

LEMMA BranchNew ==
    ASSUME Sourced, NEW i \in Lines, NEW j \in Lines, i \in Branches(j)
    PROVE  /\ Branch(j, i + 1) = i
           /\ Held(j, i + 1) <=> Held(j, i) \/ (source[i].op # "else" /\ source[i].value)
<1>1. \A k \in Branches(j) : k \in Int
  BY BranchesAreLines
<1>2. i \in Int
  BY OpenFacts
<1>3. \A k \in Branches(j) : k < i + 1 <=> k < i \/ k = i
  BY <1>1, <1>2
<1>4. PICK B : B = {k \in Branches(j) : k < i + 1}
  OBVIOUS
<1>5. i \in B /\ \A k \in B : k \in Int /\ i >= k
  BY <1>1, <1>2, <1>4
<1>6. \A x \in B : (\A y \in B : x >= y) => x = i
  BY <1>2, <1>5
<1>7. Max(B) = i
  BY <1>5, <1>6 DEF Max
<1>8. QED
  BY <1>3, <1>4, <1>7 DEF Branch, Held

(***************************************************************************)
(* The stack of conditionals follows the text.                             *)
(***************************************************************************)
AllChosen(i) == \A m \in Open(i) : Chosen(m, Branch(m, i))

LEMMA PlaceFacts ==
    ASSUME Sourced, NEW conds, NEW i \in Int, Len(conds) \in Nat, Nesting(conds, i), NEW j \in Open(i)
    PROVE  /\ Balance(j, i - 1) \in 1 .. Len(conds)
           /\ Place(conds, j, i) \in 1 .. Len(conds)
           /\ Place(conds, j, i) = Len(conds) <=> \A m \in Open(i) : m <= j
<1>1. \A m \in Open(i) : Balance(m, i - 1) \in 1 .. Len(conds) /\ m \in Nat
  BY OpenFacts DEF Nesting
<1>2. Place(conds, j, i) \in 1 .. Len(conds)
  BY <1>1 DEF Place
<1>3. Place(conds, j, i) = Len(conds) <=> Balance(j, i - 1) = 1
  BY <1>1 DEF Place
<1>4. ASSUME Balance(j, i - 1) = 1, NEW m \in Open(i) PROVE m <= j
  <2>1. ~(j < m)
    <3>1. j < m => Balance(m, i - 1) < Balance(j, i - 1)
      BY DEF Nesting
    <3>2. Balance(m, i - 1) \in 1 .. Len(conds)
      BY <1>1
    <3>3. QED
      BY <1>4, <3>1, <3>2
  <2>2. QED
    BY <1>1, <2>1
<1>5. ASSUME \A m \in Open(i) : m <= j PROVE Balance(j, i - 1) = 1
  <2>1. 1 \in 1 .. Len(conds)
    BY <1>1
  <2>2. PICK m \in Open(i) : Balance(m, i - 1) = 1
    BY <2>1 DEF Nesting
  <2>3. ~(m < j)
    <3>1. m < j => Balance(j, i - 1) < Balance(m, i - 1)
      BY DEF Nesting
    <3>2. Balance(j, i - 1) \in 1 .. Len(conds)
      BY <1>1
    <3>3. QED
      BY <2>2, <3>1, <3>2
  <2>4. m = j
    BY <1>1, <1>5, <2>3
  <2>5. QED
    BY <2>2, <2>4
<1>6. QED
  BY <1>1, <1>2, <1>3, <1>4, <1>5

\* The conditional on the top is the innermost.
LEMMA Innermost ==
    ASSUME Sourced, NEW conds, NEW i \in Int, Len(conds) \in Nat \ {0}, Nesting(conds, i)
    PROVE  \E j \in Open(i) : /\ Place(conds, j, i) = Len(conds) /\ Balance(j, i - 1) = 1
                              /\ \A m \in Open(i) : m <= j
<1>1. 1 \in 1 .. Len(conds)
  OBVIOUS
<1>2. PICK j \in Open(i) : Balance(j, i - 1) = 1
  BY <1>1 DEF Nesting
<1>3. Place(conds, j, i) = Len(conds)
  BY <1>2 DEF Place
<1>4. \A m \in Open(i) : m <= j
  BY <1>3, PlaceFacts
<1>5. QED
  BY <1>2, <1>3, <1>4

LEMMA AsmEnabled ==
    ASSUME Sourced, NEW i \in Int, Len(conditions) \in Nat, conditions = << >> <=> Len(conditions) = 0,
           Nesting(conditions, i), Modes(conditions, i)
    PROVE  Enabled <=> AllChosen(i)
<1>1. CASE Len(conditions) = 0
  <2>1. Enabled
    BY <1>1 DEF Enabled
  <2>2. Open(i) = {}
    BY <1>1 DEF Nesting
  <2>3. QED
    BY <2>1, <2>2 DEF AllChosen
<1>2. CASE Len(conditions) # 0
  <2>1. PICK j \in Open(i) : Place(conditions, j, i) = Len(conditions) /\ \A m \in Open(i) : m <= j
    BY <1>2, Innermost
  <2>2. PICK c : c = Top(conditions)
    OBVIOUS
  <2>3. Mode(c, j, i)
    BY <2>1, <2>2 DEF Modes, Top
  <2>4. Enabled <=> c.enabled /\ c.upper
    BY <1>2, <2>2 DEF Enabled
  <2>5. Reached(j, i) /\ Chosen(j, Branch(j, i)) <=> AllChosen(i)
    <3>1. \A m \in Open(i) : m < j \/ m = j
      BY <2>1, OpenFacts
    <3>2. \A m \in Open(i) : m < j => m \in Open(i)
      OBVIOUS
    <3>3. QED
      BY <3>1 DEF Reached, AllChosen
  <2>6. QED
    BY <2>3, <2>4, <2>5 DEF Mode
<1>3. QED
  BY <1>1, <1>2

\* A line that is in no branch list changes nothing for the conditionals it leaves open.
LEMMA ModeKept ==
    ASSUME Sourced, NEW i \in Lines, NEW c, NEW j \in Open(i), Mode(c, j, i),
           \A m \in Open(i) : m <= j => i \notin Branches(m),
           \A m \in Lines : m < j => (m \in Open(i + 1) <=> m \in Open(i))
    PROVE  Mode(c, j, i + 1)
<1>1. \A m \in Open(i) : m \in Lines /\ m \in Nat /\ j \in Nat
  BY OpenFacts
<1>2. \A m \in Open(i) : m <= j => Branch(m, i + 1) = Branch(m, i)
  BY <1>1, BranchKept
<1>3. Branch(j, i + 1) = Branch(j, i) /\ (Held(j, i + 1) <=> Held(j, i))
  BY <1>1, BranchKept
<1>4. \A m : m \in Open(i + 1) => m \in Lines
  BY DEF Open
<1>5. Reached(j, i + 1) <=> Reached(j, i)
  <2>1. ASSUME NEW m, m < j PROVE m \in Open(i + 1) <=> m \in Open(i)
    BY <1>1, <1>4, <2>1
  <2>2. ASSUME NEW m \in Open(i), m < j PROVE Branch(m, i + 1) = Branch(m, i)
    <3>1. m <= j
      BY <1>1, <2>2
    <3>2. QED
      BY <1>2, <3>1
  <2>3. QED
    BY <2>1, <2>2 DEF Reached
<1>6. QED
  BY <1>3, <1>5 DEF Mode

\* An instruction.
LEMMA PlainLine ==
    ASSUME Sourced, NEW i \in Lines, NEW conds, Len(conds) \in Nat, Nesting(conds, i),
           source[i].op \notin {"if", "endif"}
    PROVE  /\ Open(i + 1) = Open(i)
           /\ \A j \in Open(i) : Balance(j, (i + 1) - 1) = Balance(j, i - 1)
           /\ \A j \in Open(i) : Place(conds, j, i + 1) = Place(conds, j, i)
           /\ Nesting(conds, i + 1)
<1>1. \A j \in Open(i) : j \in Int /\ j <= i /\ i \in Int
  BY OpenFacts
<1>2. (i + 1) - 1 = i
  BY OpenFacts
<1>3. \A j \in Open(i) : Balance(j, i) = Balance(j, i - 1) /\ Balance(j, i) > 0
  <2>1. ASSUME NEW j \in Open(i) PROVE Balance(j, i) = Balance(j, i - 1) /\ Balance(j, i) > 0
    <3>1. Balance(j, i) = Balance(j, i - 1)
      BY <1>1, BalanceNext
    <3>2. Balance(j, i - 1) \in 1 .. Len(conds)
      BY DEF Nesting
    <3>3. QED
      BY <3>1, <3>2
  <2>2. QED
    BY <2>1
<1>4. Open(i + 1) = Open(i)
  BY <1>3, OpenNext
<1>5. \A j \in Open(i) : Balance(j, (i + 1) - 1) = Balance(j, i - 1)
  BY <1>2, <1>3
<1>6. Nesting(conds, i + 1)
  BY <1>4, <1>5 DEF Nesting
<1>7. QED
  BY <1>4, <1>5, <1>6 DEF Place

LEMMA InsnConds ==
    ASSUME Sourced, NEW i \in Lines, NEW conds, Len(conds) \in Nat, Nesting(conds, i),
           Modes(conds, i), source[i].op = "insn"
    PROVE  Nesting(conds, i + 1) /\ Modes(conds, i + 1)
<1>1. /\ Open(i + 1) = Open(i) /\ Nesting(conds, i + 1)
      /\ \A j \in Open(i) : Place(conds, j, i + 1) = Place(conds, j, i)
  BY PlainLine
<1>2. \A m \in Open(i) : i \notin Branches(m)
  BY BranchAt
<1>3. ASSUME NEW j \in Open(i) PROVE Mode(conds[Place(conds, j, i)], j, i + 1)
  <2>1. PICK c : c = conds[Place(conds, j, i)]
    OBVIOUS
  <2>2. Mode(c, j, i)
    BY <2>1 DEF Modes
  <2>3. QED
    BY <1>1, <1>2, <2>1, <2>2, ModeKept
<1>4. QED
  BY <1>1, <1>3 DEF Modes

\* if
LEMMA IfConds ==
    ASSUME Sourced, NEW i \in Lines, NEW conds, Len(conds) \in Nat, Nesting(conds, i),
           Modes(conds, i), source[i].op = "if",
           NEW new, Len(new) = Len(conds) + 1, \A n \in 1 .. Len(conds) : new[n] = conds[n],
           NEW c, new[Len(conds) + 1] = c,
           c.upper <=> AllChosen(i),
           c.before <=> AllChosen(i) /\ source[i].value,
           c.enabled <=> AllChosen(i) /\ source[i].value
    PROVE  Nesting(new, i + 1) /\ Modes(new, i + 1)
<1>1. /\ i \in Nat /\ (i + 1) - 1 = i
      /\ \A j \in Open(i) : j \in Int /\ j < i /\ j <= i /\ j \in Lines
  BY OpenFacts
<1>2. ASSUME NEW j \in Open(i)
      PROVE  Balance(j, i) = Balance(j, i - 1) + 1 /\ Balance(j, i - 1) \in 1 .. Len(conds)
  <2>1. Balance(j, i) = Balance(j, i - 1) + 1
    <3>1. j \in Int /\ i \in Int /\ j <= i
      BY <1>1
    <3>2. QED
      BY <3>1, BalanceNext, Zenon
  <2>2. QED
    BY <2>1 DEF Nesting
<1>3. Balance(i, i) = 1
  <2>1. Balance(i, i - 1) = 0
    BY <1>1, BalanceOfNothing
  <2>2. Balance(i, i) = Balance(i, i - 1) + 1
    <3>1. i \in Int /\ i <= i
      BY <1>1
    <3>2. QED
      BY <3>1, BalanceNext, Zenon
  <2>3. QED
    BY <2>1, <2>2
<1>4. Open(i + 1) = Open(i) \cup {i} /\ i \notin Open(i)
  <2>1. \A j \in Open(i) : Balance(j, i) > 0
    BY <1>2
  <2>2. i \notin Open(i)
    BY <1>1
  <2>3. QED
    BY <2>1, <2>2, OpenNext
<1>5. Nesting(new, i + 1)
  <2>1. \A j \in Open(i + 1) : Balance(j, i) \in 1 .. Len(new)
    BY <1>2, <1>3, <1>4
  <2>2. ASSUME NEW n \in 1 .. Len(new) PROVE \E j \in Open(i + 1) : Balance(j, i) = n
    <3>1. CASE n = 1
      BY <1>3, <1>4, <3>1
    <3>2. CASE n # 1
      <4>1. n - 1 \in 1 .. Len(conds)
        BY <3>2
      <4>2. PICK j \in Open(i) : Balance(j, i - 1) = n - 1
        BY <4>1 DEF Nesting
      <4>3. Balance(j, i) = n
        BY <1>2, <4>2
      <4>4. QED
        BY <1>4, <4>3
    <3>3. QED
      BY <3>1, <3>2
  <2>3. ASSUME NEW j \in Open(i + 1), NEW k \in Open(i + 1), j < k
        PROVE  Balance(k, i) < Balance(j, i)
    <3>1. j \in Open(i)
      BY <1>1, <1>4, <2>3
    <3>2. CASE k \in Open(i)
      <4>1. Balance(k, i - 1) < Balance(j, i - 1)
        BY <2>3, <3>1, <3>2 DEF Nesting
      <4>2. QED
        BY <1>2, <3>1, <3>2, <4>1
    <3>3. CASE k = i
      BY <1>2, <1>3, <3>1, <3>3
    <3>4. QED
      BY <1>4, <3>2, <3>3
  <2>4. QED
    BY <1>1, <2>1, <2>2, <2>3 DEF Nesting
<1>6. \A m \in Open(i) : i \notin Branches(m)
  BY BranchAt
<1>7. ASSUME NEW j \in Open(i) PROVE Mode(new[Place(new, j, i + 1)], j, i + 1)
  <2>1. Place(new, j, i + 1) = Place(conds, j, i) /\ Place(conds, j, i) \in 1 .. Len(conds)
    <3>1. Place(new, j, i + 1) = Place(conds, j, i)
      BY <1>1, <1>2 DEF Place
    <3>2. QED
      BY <1>1, <3>1, PlaceFacts
  <2>2. PICK d : d = conds[Place(conds, j, i)]
    OBVIOUS
  <2>3. Mode(d, j, i) /\ new[Place(new, j, i + 1)] = d
    BY <2>1, <2>2 DEF Modes
  <2>4. \A m \in Lines : m < j => (m \in Open(i + 1) <=> m \in Open(i))
    BY <1>1, <1>4
  <2>5. QED
    BY <1>6, <2>3, <2>4, ModeKept
<1>8. Mode(c, i, i + 1)
  <2>1. i \in Branches(i)
    BY BranchesAreLines
  <2>2. Branch(i, i + 1) = i /\ (Held(i, i + 1) <=> Held(i, i) \/ source[i].value)
    BY <2>1, BranchNew
  <2>3. ~Held(i, i)
    <3>1. \A k \in Branches(i) : ~(k < i)
      <4>1. \A k \in Lines : Encloses(i, k) => i < k
        BY <1>1, OpenFacts, EnclosesMeans
      <4>2. \A k \in Branches(i) : k = i \/ i < k
        BY <4>1 DEF Branches, Lines
      <4>3. QED
        BY <1>1, <4>2, BranchesAreLines
    <3>2. QED
      BY <3>1 DEF Held
  <2>4. Chosen(i, i) <=> source[i].value
    BY DEF Chosen
  <2>5. Reached(i, i + 1) <=> AllChosen(i)
    <3>1. \A m \in Open(i) : Branch(m, i + 1) = Branch(m, i)
      BY <1>1, <1>6, BranchKept
    <3>2. \A m \in Open(i + 1) : m < i <=> m \in Open(i)
      BY <1>1, <1>4
    <3>3. QED
      BY <1>4, <3>1, <3>2 DEF Reached, AllChosen
  <2>6. QED
    BY <2>2, <2>3, <2>4, <2>5 DEF Mode
<1>9. Place(new, i, i + 1) = Len(conds) + 1
  BY <1>1, <1>3 DEF Place
<1>10. QED
  BY <1>4, <1>5, <1>7, <1>8, <1>9 DEF Modes

\* elif and else change the mode of the innermost conditional.
LEMMA BranchConds ==
    ASSUME Sourced, NEW i \in Lines, NEW conds, Len(conds) \in Nat \ {0}, Nesting(conds, i),
           Modes(conds, i), source[i].op \in {"elif", "else"},
           NEW new, Len(new) = Len(conds), \A n \in 1 .. Len(conds) - 1 : new[n] = conds[n],
           NEW c, new[Len(conds)] = c, NEW d, conds[Len(conds)] = d,
           c.upper <=> d.upper,
           \A j \in Lines : i \in Branches(j) /\ d.upper /\ (d.before <=> Held(j, i)) =>
               /\ c.enabled <=> Chosen(j, i)
               /\ c.before <=> Held(j, i) \/ (source[i].op # "else" /\ source[i].value)
    PROVE  Nesting(new, i + 1) /\ Modes(new, i + 1)
<1>1. /\ i \in Nat
      /\ \A j \in Open(i) : j \in Int /\ j < i /\ j \in Lines
  BY OpenFacts
<1>2. /\ Open(i + 1) = Open(i) /\ Nesting(conds, i + 1)
      /\ \A j \in Open(i) : Place(conds, j, i + 1) = Place(conds, j, i)
  BY PlainLine
<1>3. Nesting(new, i + 1)
  BY <1>2 DEF Nesting
<1>4. \A j \in Open(i) : Place(new, j, i + 1) = Place(conds, j, i)
  BY <1>2 DEF Place
<1>5. PICK top \in Open(i) : Place(conds, top, i) = Len(conds) /\ \A m \in Open(i) : m <= top
  BY <1>1, Innermost
<1>6. i \in Branches(top)
  BY <1>5, BranchAt
<1>7. ASSUME NEW j \in Open(i), j # top PROVE i \notin Branches(j) /\ j < top
  <2>1. j < top
    BY <1>1, <1>5, <1>7
  <2>2. ~(top <= j)
    BY <1>1, <2>1
  <2>3. QED
    BY <2>1, <2>2, BranchAt
<1>8. ASSUME NEW j \in Open(i), j # top PROVE Mode(new[Place(new, j, i + 1)], j, i + 1)
  <2>1. Place(conds, j, i) \in 1 .. Len(conds) /\ Place(conds, j, i) # Len(conds)
    <3>1. ~(top <= j)
      BY <1>1, <1>7, <1>8
    <3>2. QED
      BY <1>1, <3>1, PlaceFacts
  <2>2. PICK e : e = conds[Place(conds, j, i)]
    OBVIOUS
  <2>3. Mode(e, j, i)
    BY <2>2 DEF Modes
  <2>4. new[Place(new, j, i + 1)] = e
    BY <1>4, <2>1, <2>2
  <2>5. \A m \in Open(i) : m <= j => i \notin Branches(m)
    <3>1. \A m \in Open(i) : m <= j => m # top
      BY <1>1, <1>7, <1>8
    <3>2. QED
      BY <1>7, <3>1
  <2>6. QED
    BY <1>2, <2>3, <2>4, <2>5, ModeKept
<1>9. Mode(c, top, i + 1)
  <2>1. Mode(d, top, i)
    BY <1>5 DEF Modes
  <2>2. Branch(top, i + 1) = i
        /\ (Held(top, i + 1) <=> Held(top, i) \/ (source[i].op # "else" /\ source[i].value))
    BY <1>1, <1>6, BranchNew
  <2>3. Reached(top, i + 1) <=> Reached(top, i)
    <3>1. \A m \in Open(i) : m < top => Branch(m, i + 1) = Branch(m, i)
      <4>1. \A m \in Open(i) : m < top => m # top /\ m \in Lines
        BY <1>1
      <4>2. QED
        BY <1>7, <4>1, BranchKept
    <3>2. QED
      BY <1>2, <3>1 DEF Reached
  <2>4. top \in Lines
    BY <1>1
  <2>5. d.upper => d.before <=> Held(top, i)
    BY <2>1 DEF Mode
  <2>6. d.upper => /\ c.enabled <=> Chosen(top, i)
                   /\ c.before <=> Held(top, i) \/ (source[i].op # "else" /\ source[i].value)
    BY <1>6, <2>4, <2>5
  <2>7. c.upper <=> Reached(top, i + 1)
    BY <2>1, <2>3 DEF Mode
  <2>8. c.upper => /\ c.before <=> Held(top, i + 1)
                   /\ c.enabled <=> Chosen(top, Branch(top, i + 1))
    BY <2>2, <2>6
  <2>9. QED
    BY <2>7, <2>8 DEF Mode
<1>10. new[Place(new, top, i + 1)] = c
  BY <1>4, <1>5
<1>11. QED
  BY <1>2, <1>3, <1>8, <1>9, <1>10 DEF Modes

\* endif
LEMMA EndifConds ==
    ASSUME Sourced, NEW i \in Lines, NEW conds, Len(conds) \in Nat \ {0}, Nesting(conds, i),
           Modes(conds, i), source[i].op = "endif",
           NEW new, Len(new) = Len(conds) - 1, \A n \in 1 .. Len(conds) - 1 : new[n] = conds[n]
    PROVE  Nesting(new, i + 1) /\ Modes(new, i + 1)
<1>1. /\ i \in Nat /\ (i + 1) - 1 = i
      /\ \A j \in Open(i) : j \in Int /\ j < i /\ j <= i /\ j \in Lines
  BY OpenFacts
<1>2. ASSUME NEW j \in Open(i)
      PROVE  Balance(j, i) = Balance(j, i - 1) - 1 /\ Balance(j, i - 1) \in 1 .. Len(conds)
  <2>1. Balance(j, i) = Balance(j, i - 1) - 1
    <3>1. j \in Int /\ i \in Int /\ j <= i
      BY <1>1
    <3>2. QED
      BY <3>1, BalanceNext, Zenon
  <2>2. QED
    BY <2>1 DEF Nesting
<1>3. Open(i + 1) = {j \in Open(i) : Balance(j, i) > 0}
  BY OpenNext
<1>4. Nesting(new, i + 1)
  <2>1. ASSUME NEW j \in Open(i + 1) PROVE Balance(j, i) \in 1 .. Len(new)
    BY <1>2, <1>3
  <2>2. ASSUME NEW n \in 1 .. Len(new) PROVE \E j \in Open(i + 1) : Balance(j, i) = n
    <3>1. n + 1 \in 1 .. Len(conds)
      OBVIOUS
    <3>2. PICK j \in Open(i) : Balance(j, i - 1) = n + 1
      BY <3>1 DEF Nesting
    <3>3. Balance(j, i) = n /\ n > 0
      BY <1>2, <3>2
    <3>4. QED
      BY <1>3, <3>3
  <2>3. ASSUME NEW j \in Open(i + 1), NEW k \in Open(i + 1), j < k
        PROVE  Balance(k, i) < Balance(j, i)
    <3>1. j \in Open(i) /\ k \in Open(i)
      BY <1>3
    <3>2. Balance(k, i - 1) < Balance(j, i - 1)
      BY <2>3, <3>1 DEF Nesting
    <3>3. QED
      BY <1>2, <3>1, <3>2
  <2>4. QED
    BY <1>1, <2>1, <2>2, <2>3 DEF Nesting
<1>5. \A m \in Open(i) : i \notin Branches(m)
  BY BranchAt
<1>6. ASSUME NEW j \in Open(i + 1) PROVE Mode(new[Place(new, j, i + 1)], j, i + 1)
  <2>1. j \in Open(i) /\ Balance(j, i) > 0
    BY <1>3
  <2>2. Place(new, j, i + 1) = Place(conds, j, i)
    BY <1>1, <1>2, <2>1 DEF Place
  <2>3. Place(conds, j, i) \in 1 .. Len(conds) - 1
    BY <1>2, <2>1 DEF Place
  <2>4. PICK d : d = conds[Place(conds, j, i)]
    OBVIOUS
  <2>5. Mode(d, j, i) /\ new[Place(new, j, i + 1)] = d
    BY <2>1, <2>2, <2>3, <2>4 DEF Modes
  <2>6. ASSUME NEW m \in Lines, m < j PROVE m \in Open(i + 1) <=> m \in Open(i)
    <3>1. SUFFICES ASSUME m \in Open(i) PROVE Balance(m, i) > 0
      BY <1>3
    <3>2. Balance(j, i - 1) < Balance(m, i - 1)
      BY <2>1, <2>6, <3>1 DEF Nesting
    <3>3. QED
      BY <1>2, <2>1, <3>1, <3>2
  <2>7. QED
    BY <1>5, <2>1, <2>5, <2>6, ModeKept
<1>7. QED
  BY <1>4, <1>6 DEF Modes

(***************************************************************************)
(* The state of an assembly of a program of conditionals.                  *)
(***************************************************************************)
LEMMA WellFormedFacts ==
    ASSUME IInv, WellFormed, ConditionalsOK
    PROVE  /\ Sourced /\ Len(source) \in Nat /\ Lines = 1 .. Len(source)
           /\ stack[1].at \in Nat /\ Top(stack) = stack[1] /\ Here(Top(stack)) = stack[1].at
           /\ AtEnd(Top(stack)) <=> stack[1].at > Len(source)
           /\ ~AtEnd(Top(stack)) => stack[1].at \in Lines
           /\ Len(Advanced) = 1 /\ Advanced[1].at = stack[1].at + 1
           /\ Top(stack).kind = "file"
           /\ Len(conditions) \in Nat /\ conditions = << >> <=> Len(conditions) = 0
           /\ Enabled <=> AllChosen(stack[1].at)
           /\ ~InDefinition
<1>1. TextOK /\ StackOK(stack)
  BY DEF IInv, TextOK
<1>2. Sourced /\ Len(source) \in Nat /\ Lines = 1 .. Len(source)
  <2>1. Sourced
    BY <1>1, AssemblerAssumption DEF TextOK, Sourced
  <2>2. QED
    BY <2>1 DEF Sourced, Lines
<1>3. Len(stack) = 1 /\ stack[1].at \in 1 .. Len(source) + 1 /\ ~InDefinition
  BY DEF ConditionalsOK, InDefinition
<1>4. Top(stack) = stack[1] /\ 1 \in DOMAIN stack
  BY <1>1, <1>3, Stacks DEF Top
<1>5. stack[1].kind = "file"
  BY <1>1, <1>4, Stacks
<1>6. Here(Top(stack)) = stack[1].at /\ (AtEnd(Top(stack)) <=> stack[1].at > Len(source))
  BY <1>4, <1>5 DEF Here, AtEnd
<1>7. Len(Advanced) = 1 /\ Advanced[1].at = stack[1].at + 1
  <2>1. stack[1] \in Contexts(Cells(stack)) /\ stack \in Seq(Contexts(Cells(stack)))
    BY <1>1, <1>4, Stacks DEF StackOK
  <2>2. stack[1] = [stack[1] EXCEPT !.at = @] /\ "at" \in DOMAIN stack[1]
    BY <2>1 DEF Contexts
  <2>3. Advanced = [stack EXCEPT ![1].at = @ + 1]
    BY <1>3 DEF Advanced
  <2>4. Len(Advanced) = 1
    BY <1>1, <1>3, Advances
  <2>5. QED
    BY <1>4, <2>2, <2>3, <2>4
<1>8. Len(conditions) \in Nat /\ (conditions = << >> <=> Len(conditions) = 0)
  <2>1. PICK A : conditions \in Seq(A)
    BY DEF ConditionalsOK, ModesTyped
  <2>2. QED
    BY <2>1
<1>9. Nesting(conditions, stack[1].at) /\ Modes(conditions, stack[1].at)
  BY DEF ConditionalsOK
<1>10. Enabled <=> AllChosen(stack[1].at)
  <2>1. stack[1].at \in Int
    BY <1>3
  <2>2. QED
    BY <1>2, <1>8, <1>9, <2>1, AsmEnabled
<1>11. QED
  BY <1>2, <1>3, <1>4, <1>5, <1>6, <1>7, <1>8, <1>10

LEMMA SelectedNext ==
    ASSUME Sourced, NEW i \in Lines
    PROVE  Selected(i + 1) = IF source[i].op = "insn" /\ AllChosen(i) THEN Selected(i) \cup {i}
                             ELSE Selected(i)
<1>1. i \in Nat \ {0} /\ (i + 1) - 1 = i
  BY OpenFacts
<1>2. 1 .. i = (1 .. i - 1) \cup {i}
  BY <1>1
<1>3. Selected(i + 1) = {l \in 1 .. i : source[l].op = "insn" /\ AllChosen(l)}
  BY <1>1 DEF Selected, AllChosen
<1>4. Selected(i) = {l \in 1 .. i - 1 : source[l].op = "insn" /\ AllChosen(l)}
  BY DEF Selected, AllChosen
<1>5. QED
  BY <1>2, <1>3, <1>4

\* Before the first line nothing is open.
LEMMA AtFirst ==
    ASSUME Sourced
    PROVE  /\ Selected(1) = {} /\ Open(1) = {}
           /\ Nesting(<< >>, 1) /\ Modes(<< >>, 1) /\ ModesTyped(<< >>)
<1>1. 1 .. 1 - 1 = {}
  OBVIOUS
<1>2. Selected(1) = {}
  BY <1>1 DEF Selected
<1>3. Open(1) = {}
  <2>1. \A j \in Open(1) : j \in Lines /\ j < 1 /\ Lines = 1 .. Len(source)
    BY OpenFacts
  <2>2. QED
    BY <2>1
<1>4. 1 .. Len(<< >>) = {}
  OBVIOUS
<1>5. Nesting(<< >>, 1) /\ Modes(<< >>, 1)
  BY <1>3, <1>4 DEF Nesting, Modes
<1>6. ModesTyped(<< >>)
  BY DEF ModesTyped
<1>7. QED
  BY <1>2, <1>3, <1>5, <1>6

\* Each line moves the assembly on.
LEMMA ToNextLine ==
    ASSUME IInv, WellFormed, ConditionalsOK, ~AtEnd(Top(stack)), pc = "lines",
           UNCHANGED <<source, pass, pc, definition>>, stack' = Advanced,
           NEW conds, conditions' = conds, ModesTyped(conds),
           Nesting(conds, stack[1].at + 1), Modes(conds, stack[1].at + 1),
           ~errors',
           pass = 2 => {emitted[n].line : n \in DOMAIN emitted}' = Selected(stack[1].at + 1)
    PROVE  ConditionalsOK'
<1> DEFINE i == stack[1].at
<1>1. /\ Len(stack)' = 1 /\ i' = i + 1 /\ i \in Lines /\ Lines = 1 .. Len(source)
      /\ Len(source) \in Nat
  BY WellFormedFacts
<1>2. i' \in (1 .. Len(source) + 1)'
  BY <1>1
<1> HIDE DEF i
<1>3. PICK k : k = i + 1
  OBVIOUS
<1>4. Nesting(conds, k)' /\ Modes(conds, k)' /\ Selected(k)' = Selected(k)
  BY <1>3, SameText DEF i
<1>5. Nesting(conditions, i)' /\ Modes(conditions, i)' /\ Selected(i)' = Selected(k)
  BY <1>1, <1>3, <1>4
<1>6. ModesTyped(conditions)'
  BY DEF ModesTyped
<1>7. definition' = "none"
  BY DEF ConditionalsOK
<1>8. pass' = 2 => {emitted[n].line : n \in DOMAIN emitted}' = Selected(i)'
  BY <1>3, <1>5 DEF i
<1>9. QED
  BY <1>1, <1>2, <1>5, <1>6, <1>7, <1>8 DEF ConditionalsOK, i

LEMMA LinesOfPrograms ==
    ASSUME IInv, WellFormed, ConditionalsOK, NEW i \in Lines
    PROVE  /\ source[i].op \in {"insn", "if", "elif", "else", "endif"}
           /\ "var" \notin DOMAIN source[i]
           /\ source[i].op \in {"if", "elif"} =>
                 source[i].value \in BOOLEAN /\ "value" \in DOMAIN source[i]
           /\ source[i].op \in {"elif", "else"} => \E j \in Open(i) : i \in Branches(j)
           /\ source[i].op = "endif" => Open(i) # {}
<1>1. Sourced /\ Len(source) \in Nat /\ Lines = 1 .. Len(source) /\ i \in DOMAIN source
  BY WellFormedFacts DEF Lines
<1>2. PICK l : l = source[i]
  OBVIOUS
<1>3. l \in Line
  BY <1>1, <1>2 DEF Sourced
<1>4. l.op \in {"insn", "if", "elif", "else", "endif"} /\ "var" \notin DOMAIN l
  BY <1>1, <1>2 DEF WellFormed, Kinds
<1>5. l.op \in {"if", "elif"} => l.value \in BOOLEAN /\ "value" \in DOMAIN l
  <2>1. SUFFICES ASSUME l.op \in {"if", "elif"} PROVE l.value \in BOOLEAN /\ "value" \in DOMAIN l
    OBVIOUS
  <2>2. l \notin [op : {"insn", "else", "endif", "endm", "exitm", "endw"}]
    BY <2>1
  <2>3. l \notin [op : {"label", "goto", "local", "ifdef"}, label : Labels]
    BY <2>1
  <2>4. l \notin [op : {"if", "elif", "while"}, var : Labels, below : Nat]
    BY <1>4
  <2>5. l \notin [op : {"set"}, label : Labels, more : BOOLEAN, n : Nat]
    BY <2>1
  <2>6. l \notin [op : {"macro", "call"}, macro : Macros]
    BY <2>1
  <2>7. l \in [op : {"if", "elif", "while"}, value : BOOLEAN]
    BY <1>3, <2>2, <2>3, <2>4, <2>5, <2>6 DEF Line
  <2>8. QED
    BY <2>7
<1>6. ASSUME source[i].op \in {"elif", "else"} PROVE \E j \in Open(i) : i \in Branches(j)
  <2>1. PICK j \in 1 .. i - 1 : i \in Branches(j)
    BY <1>1, <1>6 DEF WellFormed
  <2>2. j \in Lines /\ i # j
    BY <1>1
  <2>3. Encloses(j, i)
    BY <2>1, <2>2 DEF Branches
  <2>4. QED
    BY <2>1, <2>2, <2>3 DEF Open
<1>7. ASSUME source[i].op = "endif" PROVE Open(i) # {}
  BY <1>1, <1>7 DEF WellFormed, Open, Lines
<1>8. QED
  BY <1>2, <1>4, <1>5, <1>6, <1>7

\* A conditional is open where its branches begin and where it ends.
LEMMA TopFacts ==
    ASSUME IInv, WellFormed, ConditionalsOK, Open(stack[1].at) # {}
    PROVE  Len(conditions) \in Nat \ {0} /\ conditions # << >>
<1>1. PICK j : j \in Open(stack[1].at)
  OBVIOUS
<1>2. Len(conditions) \in Nat /\ (conditions = << >> <=> Len(conditions) = 0)
  BY WellFormedFacts
<1>3. Balance(j, stack[1].at - 1) \in 1 .. Len(conditions)
  BY <1>1 DEF ConditionalsOK, Nesting
<1>4. Len(conditions) # 0
  BY <1>2, <1>3
<1>5. QED
  BY <1>2, <1>4

LEMMA ModesOfTheirCells ==
    ASSUME NEW cells, NEW conds \in Seq(Amode(cells))
    PROVE  ModesTyped(conds)
<1>1. ASSUME NEW n \in DOMAIN conds PROVE conds[n] \in Amode({conds[m].cell : m \in DOMAIN conds})
  <2>1. conds[n] \in Amode(cells)
    OBVIOUS
  <2>2. conds[n].cell \in {conds[m].cell : m \in DOMAIN conds}
    OBVIOUS
  <2>3. QED
    BY <2>1, <2>2 DEF Amode
<1>2. QED
  BY <1>1, InSeq DEF ModesTyped

\* The innermost conditional changes its mode.
Becomes(new, mode, e, b) == new = [mode EXCEPT !.enabled = e, !.before = b]

SameBelow(new, conds, n) == Len(new) = n /\ \A m \in 1 .. n - 1 : new[m] = conds[m]

Replaces(new, conds, n, mode) == new = [conds EXCEPT ![n] = mode]

LEMMA ModeChanged ==
    ASSUME ModesTyped(conditions), NEW n, n = Len(conditions), n \in Nat \ {0},
           NEW e \in BOOLEAN, NEW b \in BOOLEAN,
           NEW d, d = conditions[n], NEW mode, Becomes(mode, d, e, b),
           NEW new, Replaces(new, conditions, n, mode)
    PROVE  /\ ModesTyped(new) /\ new[n] = mode /\ SameBelow(new, conditions, n)
           /\ mode.enabled = e /\ mode.before = b /\ mode.upper = d.upper
<1>1. PICK cells : cells = {conditions[m].cell : m \in DOMAIN conditions}
  OBVIOUS
<1>2. conditions \in Seq(Amode(cells))
  BY <1>1 DEF ModesTyped
<1>3. DOMAIN conditions = 1 .. n /\ n \in DOMAIN conditions
  BY <1>2
<1>4. d \in Amode(cells)
  BY <1>2, <1>3
<1>5. PICK half : half = [d EXCEPT !.enabled = e]
  OBVIOUS
<1>6. half \in Amode(cells) /\ half.enabled = e /\ half.upper = d.upper
  BY <1>4, <1>5 DEF Amode
<1>7. PICK c : c = [half EXCEPT !.before = b]
  OBVIOUS
<1>8. c \in Amode(cells) /\ c.enabled = e /\ c.before = b /\ c.upper = d.upper
  BY <1>6, <1>7 DEF Amode
<1>9. mode = c
  BY <1>5, <1>7 DEF Becomes
<1>10. new \in Seq(Amode(cells)) /\ Len(new) = n
  BY <1>2, <1>3, <1>8, <1>9, Changed DEF Replaces
<1>11. new[n] = mode /\ \A m \in 1 .. n - 1 : new[m] = conditions[m]
  <2>1. \A m \in 1 .. n - 1 : m \in 1 .. n /\ m # n
    OBVIOUS
  <2>2. \A m \in DOMAIN conditions : new[m] = IF m = n THEN mode ELSE conditions[m]
    BY Zenon DEF Replaces
  <2>3. QED
    BY <1>3, <2>1, <2>2, Zenon
<1>12. ModesTyped(new)
  BY <1>10, ModesOfTheirCells
<1>13. SameBelow(new, conditions, n)
  BY <1>10, <1>11 DEF SameBelow
<1>14. QED
  BY <1>8, <1>9, <1>11, <1>12, <1>13

LEMMA Popped ==
    ASSUME NEW A, NEW s \in Seq(A), NEW n \in Nat \ {0}, n = Len(s)
    PROVE  /\ Without(s) \in Seq(A) /\ Len(Without(s)) = n - 1
           /\ \A m \in 1 .. n - 1 : Without(s)[m] = s[m]
<1> DEFINE new == Without(s)
<1>1. DOMAIN s = 1 .. n
  OBVIOUS
<1>2. /\ new \in Seq(A) /\ DOMAIN new = 1 .. n - 1
      /\ \A k \in 1 .. n - 1 : new[k] = s[k]
  BY <1>1 DEF Without
<1> HIDE DEF new
<1>3. Len(new) = n - 1
  BY <1>2
<1>4. QED
  BY <1>2, <1>3 DEF new

\* Pass 2 has an instruction for each line that is selected.
LEMMA EmitsSelected ==
    ASSUME Sourced, NEW i \in Lines, emitted \in Seq(Words), pass = 2,
           {emitted[n].line : n \in DOMAIN emitted} = Selected(i),
           NEW word, word.line = i, emitted' = Append(emitted, word),
           source[i].op = "insn", AllChosen(i)
    PROVE  {emitted[n].line : n \in DOMAIN emitted}' = Selected(i + 1)
<1>1. PICK new : new = Append(emitted, word)
  OBVIOUS
<1>2. PICK k : k = Len(emitted)
  OBVIOUS
<1>3. /\ k \in Nat /\ DOMAIN emitted = 1 .. k /\ DOMAIN new = 1 .. k + 1
      /\ \A n \in 1 .. k : new[n] = emitted[n]
      /\ new[k + 1] = word
  BY <1>1, <1>2
<1>4. 1 .. k + 1 = (1 .. k) \cup {k + 1}
  BY <1>3
<1>5. {new[n].line : n \in DOMAIN new} = {emitted[n].line : n \in DOMAIN emitted} \cup {i}
  BY <1>3, <1>4
<1>6. Selected(i + 1) = Selected(i) \cup {i}
  BY SelectedNext
<1>7. QED
  BY <1>1, <1>5, <1>6

(***************************************************************************)
(* The steps of an assembly of a program of conditionals.                  *)
(***************************************************************************)
LEMMA InsnStep ==
    ASSUME IInv, WellFormed, ConditionalsOK, Insn
    PROVE  ConditionalsOK'
<1> DEFINE i == stack[1].at
<1>1. /\ pc = "lines" /\ ~AtEnd(Top(stack)) /\ line.op = "insn" /\ Enabled
      /\ UNCHANGED <<source, pass, pc, definition>> /\ stack' = Advanced
      /\ conditions' = conditions /\ errors' = errors
  BY DEF Insn, Does, Reads, Stays, line, messages
<1>2. Sourced /\ i \in Lines /\ AllChosen(i) /\ Here(Top(stack)) = i
  BY <1>1, WellFormedFacts
<1>3. source[i].op = "insn"
  BY <1>1, <1>2 DEF line
<1>4. PICK conds : conds = conditions
  OBVIOUS
<1>5. Nesting(conds, i + 1) /\ Modes(conds, i + 1)
  <2>1. Len(conds) \in Nat /\ Nesting(conds, i) /\ Modes(conds, i)
    BY <1>4, WellFormedFacts DEF ConditionalsOK
  <2>2. QED
    BY <1>2, <1>3, <2>1, InsnConds
<1>6. ModesTyped(conds) /\ ~errors /\ (pass = 2 => {emitted[n].line : n \in DOMAIN emitted} = Selected(i))
  BY <1>4 DEF ConditionalsOK
<1>7. ASSUME pass = 2 PROVE {emitted[n].line : n \in DOMAIN emitted}' = Selected(i + 1)
  <2>1. PICK word : /\ word = [line |-> Here(Top(stack)), table |-> 0, label |-> "", value |-> NoValue]
                    /\ emitted' = Append(emitted, word)
    BY <1>7 DEF Insn, Emit
  <2>2. word.line = i
    BY <1>2, <2>1
  <2>3. emitted \in Seq(Words)
    BY DEF IInv, OutputOK
  <2>4. QED
    BY <1>2, <1>3, <1>6, <1>7, <2>1, <2>2, <2>3, EmitsSelected
<1> HIDE DEF i
<1>8. QED
  BY <1>1, <1>4, <1>5, <1>6, <1>7, ToNextLine DEF i

\* A line that emits nothing is not selected.
LEMMA QuietStep ==
    ASSUME IInv, WellFormed, ConditionalsOK, ~AtEnd(Top(stack)), pc = "lines",
           UNCHANGED <<source, pass, pc, definition, emitted>>, stack' = Advanced,
           NEW conds, conditions' = conds, ModesTyped(conds),
           Nesting(conds, stack[1].at + 1), Modes(conds, stack[1].at + 1),
           ~errors', ~(line.op = "insn" /\ Enabled)
    PROVE  ConditionalsOK'
<1> DEFINE i == stack[1].at
<1>1. Sourced /\ i \in Lines /\ Here(Top(stack)) = i /\ (Enabled <=> AllChosen(i))
  BY WellFormedFacts
<1>2. ~(source[i].op = "insn" /\ AllChosen(i))
  BY <1>1 DEF line
<1>3. Selected(i + 1) = Selected(i)
  BY <1>1, <1>2, SelectedNext
<1>4. ASSUME pass = 2 PROVE {emitted[n].line : n \in DOMAIN emitted}' = Selected(i + 1)
  <2>1. {emitted[n].line : n \in DOMAIN emitted} = Selected(i)
    BY <1>4 DEF ConditionalsOK
  <2>2. QED
    BY <1>3, <2>1
<1> HIDE DEF i
<1>5. QED
  BY <1>4, ToNextLine DEF i

LEMMA SkipStep ==
    ASSUME IInv, WellFormed, ConditionalsOK, Skip
    PROVE  ConditionalsOK'
<1> DEFINE i == stack[1].at
<1>1. /\ pc = "lines" /\ ~AtEnd(Top(stack)) /\ ~Enabled
      /\ line.op \notin {"if", "ifdef", "elif", "else", "endif"}
      /\ UNCHANGED <<source, pass, pc, definition, emitted>> /\ stack' = Advanced
      /\ conditions' = conditions /\ errors' = errors
  BY DEF Skip, messages, output
<1>2. Sourced /\ i \in Lines /\ Here(Top(stack)) = i
  BY <1>1, WellFormedFacts
<1>3. source[i].op = "insn"
  BY <1>1, <1>2, LinesOfPrograms DEF line
<1>4. PICK conds : conds = conditions
  OBVIOUS
<1>5. Nesting(conds, i + 1) /\ Modes(conds, i + 1)
  <2>1. Len(conds) \in Nat /\ Nesting(conds, i) /\ Modes(conds, i)
    BY <1>4, WellFormedFacts DEF ConditionalsOK
  <2>2. QED
    BY <1>2, <1>3, <2>1, InsnConds
<1>6. ModesTyped(conds) /\ ~errors
  BY <1>4 DEF ConditionalsOK
<1> HIDE DEF i
<1>7. QED
  BY <1>1, <1>4, <1>5, <1>6, QuietStep DEF i

\* The condition of a line and what it reports.
LEMMA Conditions ==
    ASSUME IInv, WellFormed, ConditionalsOK, ~AtEnd(Top(stack))
    PROVE  /\ stack[1].at \in Lines /\ line = source[stack[1].at]
           /\ ~Fails(line)
           /\ line.op \in {"if", "elif"} => Holds(line) \in BOOLEAN /\ (Holds(line) <=> line.value)
           /\ \A e : ~e /\ Report(e) => ~errors'
<1>1. stack[1].at \in Lines /\ Here(Top(stack)) = stack[1].at
  BY WellFormedFacts
<1>2. line = source[stack[1].at]
  BY <1>1 DEF line
<1>3. PICK l : l = line
  OBVIOUS
<1>4. "var" \notin DOMAIN l
      /\ (l.op \in {"if", "elif"} => l.value \in BOOLEAN /\ "value" \in DOMAIN l)
  BY <1>1, <1>2, <1>3, LinesOfPrograms
<1>5. ~Fails(l)
  BY <1>4 DEF Fails
<1>6. l.op \in {"if", "elif"} => Holds(l) = l.value
  BY <1>4 DEF Holds
<1>7. ~errors
  BY DEF ConditionalsOK
<1>8. QED
  BY <1>1, <1>2, <1>3, <1>4, <1>5, <1>6, <1>7 DEF Report

LEMMA IfStep ==
    ASSUME IInv, WellFormed, ConditionalsOK, If
    PROVE  ConditionalsOK'
<1> DEFINE i == stack[1].at
<1>1. /\ pc = "lines" /\ ~AtEnd(Top(stack)) /\ line.op = "if"
      /\ UNCHANGED <<source, pass, pc, definition, emitted>> /\ stack' = Advanced
      /\ Report(UpperEnabled /\ Fails(line))
  BY DEF If, Reads, Enter, Stays, line, output
<1>2. Sourced /\ i \in Lines /\ (Enabled <=> AllChosen(i)) /\ line = source[i] /\ Len(conditions) \in Nat
      /\ ~errors' /\ Holds(line) \in BOOLEAN /\ (Holds(line) <=> source[i].value)
  <2>1. ~(UpperEnabled /\ Fails(line))
    BY <1>1, Conditions
  <2>2. ~errors'
    BY <1>1, <2>1, Conditions
  <2>3. i \in Lines /\ line = source[i] /\ Holds(line) \in BOOLEAN /\ (Holds(line) <=> line.value)
    BY <1>1, Conditions
  <2>4. Sourced /\ (Enabled <=> AllChosen(i)) /\ Len(conditions) \in Nat
    BY WellFormedFacts
  <2>5. QED
    BY <2>2, <2>3, <2>4
<1>3. PICK cell, c, new :
         /\ c = [cell |-> cell, upper |-> UpperEnabled, enabled |-> UpperEnabled /\ Holds(line),
                 before |-> UpperEnabled /\ Holds(line)]
         /\ new = Append(conditions, c) /\ conditions' = new
  BY DEF If, Enter
<1>4. /\ c.upper <=> AllChosen(i)
      /\ c.before <=> AllChosen(i) /\ source[i].value
      /\ c.enabled <=> AllChosen(i) /\ source[i].value
  <2>1. c.upper = UpperEnabled /\ c.before = (UpperEnabled /\ Holds(line))
        /\ c.enabled = (UpperEnabled /\ Holds(line))
    BY <1>3
  <2>2. QED
    BY <1>2, <2>1, Zenon DEF UpperEnabled
<1>5. Enabled \in BOOLEAN
  BY DEF Enabled
<1>6. ModesTyped(new) /\ Len(new) = Len(conditions) + 1 /\ new[Len(conditions) + 1] = c
      /\ \A n \in 1 .. Len(conditions) : new[n] = conditions[n]
  <2>1. PICK cells : cells = {conditions[m].cell : m \in DOMAIN conditions}
    OBVIOUS
  <2>2. conditions \in Seq(Amode(cells))
    BY <2>1 DEF ConditionalsOK, ModesTyped
  <2>3. Amode(cells) \subseteq Amode(cells \cup {cell})
    BY DEF Amode
  <2>4. c \in Amode(cells \cup {cell})
    <3>1. PICK u, h : u = UpperEnabled /\ h = (UpperEnabled /\ Holds(line))
      OBVIOUS
    <3>2. u \in BOOLEAN /\ h \in BOOLEAN
      BY <1>5, <3>1, Zenon DEF UpperEnabled
    <3>3. c = [cell |-> cell, upper |-> u, enabled |-> h, before |-> h]
      BY <1>3, <3>1
    <3>4. QED
      BY <3>2, <3>3 DEF Amode
  <2>5. PICK A : A = Amode(cells \cup {cell})
    OBVIOUS
  <2>6. conditions \in Seq(A)
    <3>1. PICK B : B = Amode(cells) /\ B \subseteq A
      BY <2>3, <2>5
    <3>2. conditions \in Seq(B)
      BY <2>2, <3>1
    <3>3. QED
      BY <3>1, <3>2
  <2>7. c \in A
    BY <2>4, <2>5
  <2>8. new \in Seq(A) /\ Len(new) = Len(conditions) + 1 /\ new[Len(conditions) + 1] = c
        /\ \A n \in 1 .. Len(conditions) : new[n] = conditions[n]
    BY <1>3, <2>6, <2>7
  <2>9. QED
    BY <2>5, <2>8, ModesOfTheirCells
<1>7. Nesting(conditions, i) /\ Modes(conditions, i)
  BY DEF ConditionalsOK
<1>8. Nesting(new, i + 1) /\ Modes(new, i + 1)
  <2>1. source[i].op = "if"
    BY <1>1, <1>2
  <2>2. QED
    BY <1>2, <1>4, <1>6, <1>7, <2>1, IfConds
<1> HIDE DEF i
<1>9. QED
  BY <1>1, <1>2, <1>3, <1>6, <1>8, QuietStep DEF i

LEMMA ElifStep ==
    ASSUME IInv, WellFormed, ConditionalsOK, Elif
    PROVE  ConditionalsOK'
<1> DEFINE i == stack[1].at  n == Len(conditions)
<1>1. pc = "lines" /\ ~AtEnd(Top(stack)) /\ line.op = "elif"
  BY DEF Elif, Reads, line
<1>2. Sourced /\ i \in Lines /\ line = source[i]
  BY <1>1, WellFormedFacts, Conditions
<1>3. n \in Nat \ {0} /\ conditions # << >>
  <2>1. Open(i) # {}
    BY <1>1, <1>2, LinesOfPrograms
  <2>2. QED
    BY <2>1, TopFacts
<1>4. /\ UNCHANGED <<source, pass, pc, definition, emitted>> /\ stack' = Advanced
      /\ Report(Top(conditions).upper /\ Fails(line))
      /\ conditions' = IF ~Top(conditions).upper THEN conditions
                       ELSE [conditions EXCEPT ![n].enabled = Holds(line),
                                               ![n].before  = @ \/ Holds(line)]
  BY <1>3 DEF Elif, output
<1>5. ~errors'
  <2>1. ~(Top(conditions).upper /\ Fails(line))
    BY <1>1, Conditions
  <2>2. QED
    BY <1>1, <1>4, <2>1, Conditions
<1>6. PICK h : h = Holds(line)
  OBVIOUS
<1>7. h \in BOOLEAN /\ (h <=> source[i].value)
  BY <1>1, <1>2, <1>6, Conditions
<1>8. PICK d : d = conditions[n]
  OBVIOUS
<1>9. ModesTyped(conditions) /\ Nesting(conditions, i) /\ Modes(conditions, i)
  BY DEF ConditionalsOK
<1>10. d.upper \in BOOLEAN /\ d.before \in BOOLEAN /\ n \in DOMAIN conditions /\ "before" \in DOMAIN d
       /\ "enabled" \in DOMAIN d
  <2>1. PICK cells : conditions \in Seq(Amode(cells))
    BY <1>9 DEF ModesTyped
  <2>2. d \in Amode(cells) /\ n \in DOMAIN conditions
    BY <1>3, <1>8, <2>1
  <2>3. QED
    BY <2>2 DEF Amode
<1>11. source[i].op = "elif"
  BY <1>1, <1>2
<1>12. PICK new : new = conditions'
  OBVIOUS
<1>13. ModesTyped(new) /\ Nesting(new, i + 1) /\ Modes(new, i + 1)
  <2>1. CASE d.upper
    <3>1. PICK b : b = (d.before \/ h)
      OBVIOUS
    <3>2. b \in BOOLEAN /\ (b <=> d.before \/ source[i].value)
      BY <1>7, <1>10, <3>1, Zenon
    <3>3. PICK c : c = [conditions[n] EXCEPT !.enabled = h, !.before = b]
      OBVIOUS
    <3>4. new = [conditions EXCEPT ![n] = c]
      <4>1. new = [conditions EXCEPT ![n].enabled = h, ![n].before = @ \/ h]
        BY <1>4, <1>6, <1>8, <1>12, <2>1 DEF Top
      <4>2. PICK half : half = [conditions EXCEPT ![n].enabled = h]
        OBVIOUS
      <4>3. half[n] = [d EXCEPT !.enabled = h] /\ half[n].before = d.before
        BY <1>8, <1>10, <4>2
      <4>4. new = [half EXCEPT ![n].before = b]
        BY <3>1, <4>1, <4>2, <4>3
      <4>5. QED
        BY <1>8, <1>10, <3>3, <4>2, <4>3, <4>4
    <3>5. /\ ModesTyped(new) /\ Len(new) = n /\ new[n] = c
          /\ \A m \in 1 .. n - 1 : new[m] = conditions[m]
          /\ c.enabled = h /\ c.before = b /\ c.upper = d.upper
      <4>1. ModesTyped(conditions) /\ n \in Nat \ {0} /\ h \in BOOLEAN /\ b \in BOOLEAN
        BY <1>3, <1>7, <1>9, <3>2
      <4>2. Becomes(c, d, h, b) /\ Replaces(new, conditions, n, c)
        BY <1>8, <3>3, <3>4 DEF Becomes, Replaces
      <4>3. n = Len(conditions) /\ d = conditions[n]
        BY <1>8
      <4> HIDE DEF n
      <4>4. ModesTyped(new) /\ new[n] = c /\ SameBelow(new, conditions, n)
            /\ c.enabled = h /\ c.before = b /\ c.upper = d.upper
        BY <4>1, <4>2, <4>3, ModeChanged
      <4>5. QED
        BY <4>3, <4>4 DEF SameBelow
    <3>6. ASSUME NEW j \in Lines, d.before <=> Held(j, i)
          PROVE  /\ c.enabled <=> Chosen(j, i)
                 /\ c.before <=> Held(j, i) \/ (source[i].op # "else" /\ source[i].value)
      <4>1. Chosen(j, i) <=> source[i].value
        BY <1>11 DEF Chosen
      <4>2. source[i].op # "else"
        BY <1>11
      <4>3. QED
        BY <1>7, <3>2, <3>5, <3>6, <4>1, <4>2
    <3>7. QED
      BY <1>2, <1>3, <1>8, <1>9, <1>11, <3>5, <3>6, BranchConds
  <2>2. CASE ~d.upper
    <3>1. new = conditions
      BY <1>4, <1>8, <1>12, <2>2 DEF Top
    <3>2. Nesting(conditions, i + 1) /\ Modes(conditions, i + 1)
      BY <1>2, <1>3, <1>8, <1>9, <1>11, <2>2, BranchConds
    <3>3. QED
      BY <1>9, <3>1, <3>2
  <2>3. QED
    BY <1>10, <2>1, <2>2
<1>14. line.op # "insn"
  BY <1>1
<1> HIDE DEF i, n
<1>15. QED
  BY <1>1, <1>4, <1>5, <1>12, <1>13, <1>14, QuietStep DEF i

\* An else is the last branch.
LEMMA ElseIsLast ==
    ASSUME IInv, WellFormed, ConditionalsOK, NEW i \in Lines, source[i].op = "else",
           NEW j \in Lines, i \in Branches(j)
    PROVE  Chosen(j, i) <=> ~Held(j, i)
<1>1. Sourced /\ Len(source) \in Nat /\ Lines = 1 .. Len(source) /\ i \in DOMAIN source /\ j \in DOMAIN source
  BY WellFormedFacts DEF Lines
<1>2. \A k \in DOMAIN source : source[k].op = "else" /\ k \in Branches(j) => k = Max(Branches(j))
  BY <1>1 DEF WellFormed
<1>3. Branches(j) \subseteq 1 .. Len(source)
  BY <1>1, BranchesAreLines
<1>4. \A b \in Branches(j) : b <= i
  <2>1. PICK B : B = Branches(j)
    OBVIOUS
  <2>2. PICK x \in B : \A y \in B : y <= x
    BY <1>1, <1>3, <2>1, GreatestOf
  <2>3. \A y \in B : y \in Int
    BY <1>3, <2>1
  <2>4. \A y \in B : x >= y
    BY <2>2, <2>3
  <2>5. Max(B) \in B /\ \A y \in B : Max(B) >= y
    BY <2>2, <2>4 DEF Max
  <2>6. Max(B) = i
    BY <1>1, <1>2, <2>1
  <2>7. QED
    BY <2>1, <2>3, <2>5, <2>6
<1>5. \A b \in Branches(j) : b # i <=> b < i
  BY <1>1, <1>3, <1>4
<1>6. \A b \in Branches(j) : b < i => source[b].op # "else"
  <2>1. ASSUME NEW b \in Branches(j), b < i, source[b].op = "else" PROVE FALSE
    <3>1. b \in DOMAIN source /\ b # i
      BY <1>1, <1>3, <2>1 DEF Lines
    <3>2. QED
      BY <1>1, <1>2, <2>1, <3>1
  <2>2. QED
    BY <2>1
<1>7. Chosen(j, i) <=> \A b \in Branches(j) \ {i} : ~source[b].value
  BY DEF Chosen
<1>8. QED
  BY <1>5, <1>6, <1>7 DEF Held

LEMMA ElseStep ==
    ASSUME IInv, WellFormed, ConditionalsOK, Else
    PROVE  ConditionalsOK'
<1> DEFINE i == stack[1].at  n == Len(conditions)
<1>1. pc = "lines" /\ ~AtEnd(Top(stack)) /\ line.op = "else"
  BY DEF Else, Reads, line
<1>2. Sourced /\ i \in Lines /\ line = source[i]
  BY <1>1, WellFormedFacts, Conditions
<1>3. n \in Nat \ {0} /\ conditions # << >>
  <2>1. Open(i) # {}
    BY <1>1, <1>2, LinesOfPrograms
  <2>2. QED
    BY <2>1, TopFacts
<1>4. /\ UNCHANGED <<source, pass, pc, definition, emitted>> /\ stack' = Advanced
      /\ Report(FALSE)
      /\ conditions' = [conditions EXCEPT ![n].enabled = ~Top(conditions).before]
  BY <1>3 DEF Else, Stays, output
<1>5. ~errors'
  BY <1>1, <1>4, Conditions
<1>6. PICK d : d = conditions[n]
  OBVIOUS
<1>7. ModesTyped(conditions) /\ Nesting(conditions, i) /\ Modes(conditions, i)
  BY DEF ConditionalsOK
<1>8. d.before \in BOOLEAN /\ n \in DOMAIN conditions /\ d = [d EXCEPT !.before = d.before]
      /\ "enabled" \in DOMAIN d
  <2>1. PICK cells : conditions \in Seq(Amode(cells))
    BY <1>7 DEF ModesTyped
  <2>2. d \in Amode(cells) /\ n \in DOMAIN conditions
    BY <1>3, <1>6, <2>1
  <2>3. QED
    BY <2>2 DEF Amode
<1>9. source[i].op = "else"
  BY <1>1, <1>2
<1>10. PICK e : e = (~d.before)
  OBVIOUS
<1>11. e \in BOOLEAN
  BY <1>10
<1>12. PICK c, new : /\ c = [conditions[n] EXCEPT !.enabled = e, !.before = d.before]
                     /\ new = [conditions EXCEPT ![n] = c]
  OBVIOUS
<1>13. conditions' = new
  <2>1. c = [d EXCEPT !.enabled = e]
    BY <1>6, <1>8, <1>12
  <2>2. conditions' = [conditions EXCEPT ![n] = [d EXCEPT !.enabled = e]]
    BY <1>4, <1>6, <1>8, <1>10 DEF Top
  <2>3. QED
    BY <1>12, <2>1, <2>2
<1>14. /\ ModesTyped(new) /\ Len(new) = n /\ new[n] = c
       /\ \A m \in 1 .. n - 1 : new[m] = conditions[m]
       /\ c.enabled = e /\ c.before = d.before /\ c.upper = d.upper
  <2>1. ModesTyped(conditions) /\ n \in Nat \ {0} /\ e \in BOOLEAN /\ d.before \in BOOLEAN
    BY <1>3, <1>7, <1>8, <1>11
  <2>2. PICK b : b = d.before
    OBVIOUS
  <2>3. Becomes(c, d, e, b) /\ Replaces(new, conditions, n, c) /\ b \in BOOLEAN
    BY <1>6, <1>12, <2>1, <2>2 DEF Becomes, Replaces
  <2>4. n = Len(conditions) /\ d = conditions[n]
    BY <1>6
  <2> HIDE DEF n
  <2>5. ModesTyped(new) /\ new[n] = c /\ SameBelow(new, conditions, n)
        /\ c.enabled = e /\ c.before = b /\ c.upper = d.upper
    BY <2>1, <2>3, <2>4, ModeChanged
  <2>6. QED
    BY <2>2, <2>4, <2>5 DEF SameBelow
<1>15. ASSUME NEW j \in Lines, i \in Branches(j), d.before <=> Held(j, i)
       PROVE  /\ c.enabled <=> Chosen(j, i)
              /\ c.before <=> Held(j, i) \/ (source[i].op # "else" /\ source[i].value)
  <2>1. Chosen(j, i) <=> ~Held(j, i)
    BY <1>2, <1>9, <1>15, ElseIsLast
  <2>2. QED
    BY <1>9, <1>10, <1>14, <1>15, <2>1
<1>16. Nesting(new, i + 1) /\ Modes(new, i + 1)
  BY <1>2, <1>3, <1>6, <1>7, <1>9, <1>14, <1>15, BranchConds
<1>17. line.op # "insn"
  BY <1>1
<1> HIDE DEF i, n
<1>18. QED
  BY <1>1, <1>4, <1>5, <1>13, <1>14, <1>16, <1>17, QuietStep DEF i

LEMMA EndifStep ==
    ASSUME IInv, WellFormed, ConditionalsOK, Endif
    PROVE  ConditionalsOK'
<1> DEFINE i == stack[1].at  n == Len(conditions)
<1>1. pc = "lines" /\ ~AtEnd(Top(stack)) /\ line.op = "endif"
  BY DEF Endif, Reads, line
<1>2. Sourced /\ i \in Lines /\ line = source[i]
  BY <1>1, WellFormedFacts, Conditions
<1>3. n \in Nat \ {0} /\ conditions # << >>
  <2>1. Open(i) # {}
    BY <1>1, <1>2, LinesOfPrograms
  <2>2. QED
    BY <2>1, TopFacts
<1>4. /\ UNCHANGED <<source, pass, pc, definition, emitted>> /\ stack' = Advanced
      /\ Report(FALSE)
      /\ conditions' = Without(conditions)
  BY <1>3 DEF Endif, Stays, output
<1>5. ~errors'
  BY <1>1, <1>4, Conditions
<1>6. ModesTyped(conditions) /\ Nesting(conditions, i) /\ Modes(conditions, i)
  BY DEF ConditionalsOK
<1>7. PICK new : new = Without(conditions)
  OBVIOUS
<1>8. ModesTyped(new) /\ Len(new) = n - 1 /\ \A m \in 1 .. n - 1 : new[m] = conditions[m]
  <2>1. PICK cells : conditions \in Seq(Amode(cells))
    BY <1>6 DEF ModesTyped
  <2>2. PICK A : A = Amode(cells)
    OBVIOUS
  <2>3. conditions \in Seq(A)
    BY <2>1, <2>2
  <2>4. new \in Seq(A) /\ Len(new) = n - 1 /\ \A m \in 1 .. n - 1 : new[m] = conditions[m]
    BY <1>3, <1>7, <2>3, Popped
  <2>5. QED
    BY <2>2, <2>4, ModesOfTheirCells
<1>9. Nesting(new, i + 1) /\ Modes(new, i + 1)
  <2>1. source[i].op = "endif"
    BY <1>1, <1>2
  <2>2. QED
    BY <1>2, <1>3, <1>6, <1>8, <2>1, EndifConds
<1>10. line.op # "insn"
  BY <1>1
<1> HIDE DEF i, n
<1>11. QED
  BY <1>1, <1>4, <1>5, <1>7, <1>8, <1>9, <1>10, QuietStep DEF i

LEMMA EndPass1Step ==
    ASSUME IInv, WellFormed, ConditionalsOK, EndPass1
    PROVE  ConditionalsOK'
<1>1. /\ pc = "lines" /\ pass = 1 /\ source' = source /\ pass' = 2 /\ pc' = pc /\ definition' = "none"
      /\ conditions' = << >> /\ emitted' = emitted /\ errors' = errors
      /\ stack' = <<Context("file", << >>, 0)>>
  BY DEF EndPass1, Ends, messages
<1>2. Len(stack)' = 1 /\ stack[1].at' = 1
  <2>1. PICK ctx : ctx = Context("file", << >>, 0)
    OBVIOUS
  <2>2. ctx.at = 1
    BY <2>1 DEF Context
  <2>3. QED
    BY <1>1, <2>1, <2>2
<1>3. Sourced /\ Len(source) \in Nat
  BY WellFormedFacts
<1>4. Selected(1) = {} /\ Nesting(<< >>, 1) /\ Modes(<< >>, 1) /\ ModesTyped(<< >>)
  BY <1>3, AtFirst
<1>5. /\ Nesting(<< >>, 1)' /\ Modes(<< >>, 1)' /\ Selected(1)' = {}
  BY <1>1, <1>4, SameText
<1>6. Nesting(conditions, stack[1].at)' /\ Modes(conditions, stack[1].at)' /\ Selected(stack[1].at)' = {}
  BY <1>1, <1>2, <1>5
<1>7. ModesTyped(conditions)'
  BY <1>1, <1>4 DEF ModesTyped
<1>8. stack[1].at' \in (1 .. Len(source) + 1)'
  BY <1>1, <1>2, <1>3
<1>9. ~errors' /\ {emitted[n].line : n \in DOMAIN emitted}' = {}
  <2>1. ~errors /\ emitted = << >>
    BY <1>1 DEF ConditionalsOK, IInv, OutputOK, FirstPassOnly
  <2>2. DOMAIN emitted' = {}
    BY <1>1, <2>1
  <2>3. QED
    BY <1>1, <2>1, <2>2
<1>10. QED
  BY <1>1, <1>2, <1>6, <1>7, <1>8, <1>9 DEF ConditionalsOK

LEMMA EndPass2Step ==
    ASSUME IInv, WellFormed, ConditionalsOK, EndPass2
    PROVE  ConditionalsOK'
<1> DEFINE i == stack[1].at
<1>1. /\ pass = 2 /\ AtEnd(Top(stack)) /\ pc' = "done"
      /\ Report(InDefinition \/ ~Enabled)
      /\ UNCHANGED <<source, pass, stack, conditions, definition, emitted>>
  BY DEF EndPass2, Ends, text, output
<1>2. Sourced /\ Len(source) \in Nat /\ i \in 1 .. Len(source) + 1 /\ ~InDefinition
      /\ (Enabled <=> AllChosen(i))
  BY WellFormedFacts DEF ConditionalsOK
<1>3. i = Len(source) + 1
  <2>1. i > Len(source)
    BY <1>1, WellFormedFacts
  <2>2. QED
    BY <1>2, <2>1
<1>4. Open(i) = {}
  BY <1>3 DEF WellFormed, Open, Lines
<1>5. Enabled
  BY <1>2, <1>4 DEF AllChosen
<1>6. ~errors'
  BY <1>1, <1>2, <1>5 DEF Report, ConditionalsOK
<1>7. PICK k, conds : k = i /\ conds = conditions
  OBVIOUS
<1>8. Nesting(conds, k)' /\ Modes(conds, k)' /\ Selected(k)' = Selected(k)
  BY <1>1, <1>7, SameText DEF ConditionalsOK
<1>9. i' = i
  BY <1>1
<1>10. Nesting(conditions, i)' /\ Modes(conditions, i)' /\ Selected(i)' = Selected(i)
  BY <1>1, <1>7, <1>8, <1>9
<1>11. ModesTyped(conditions)'
  BY <1>1 DEF ConditionalsOK, ModesTyped
<1>12. /\ Len(stack)' = 1 /\ definition' = "none" /\ i' \in (1 .. Len(source) + 1)' /\ pass' = 2
       /\ i' = (Len(source) + 1)'
       /\ {emitted[n].line : n \in DOMAIN emitted}' = Selected(i)
  BY <1>1, <1>2, <1>3 DEF ConditionalsOK
<1> HIDE DEF i
<1>13. QED
  BY <1>6, <1>10, <1>11, <1>12 DEF ConditionalsOK, i

\* No other operation takes part.
LEMMA OnlyConditionals ==
    ASSUME IInv, WellFormed, ConditionalsOK, Next
    PROVE  Skip \/ Insn \/ If \/ Elif \/ Else \/ Endif \/ EndPass1 \/ EndPass2
<1>1. ASSUME NEW op, Reads(op) PROVE op \in {"insn", "if", "elif", "else", "endif"}
  <2>1. ~AtEnd(Top(stack)) /\ line.op = op
    BY <1>1 DEF Reads, line
  <2>2. stack[1].at \in Lines /\ line = source[stack[1].at]
    BY <2>1, Conditions
  <2>3. QED
    BY <2>1, <2>2, LinesOfPrograms
<1>2. ~InDefinition /\ Top(stack).kind = "file"
  BY WellFormedFacts
<1>3. ~AppendLine /\ ~EndOfBody
  BY <1>2 DEF AppendLine, EndOfBody
<1>4. /\ ~Reads("goto") /\ ~Reads("label") /\ ~Reads("set") /\ ~Reads("local") /\ ~Reads("macro")
      /\ ~Reads("call") /\ ~Reads("exitm") /\ ~Reads("while")
      /\ ~Reads("ifdef") /\ ~Reads("endm") /\ ~Reads("endw")
  BY <1>1
<1>5. ~Goto /\ ~Label /\ ~Set /\ ~Local
  BY <1>4, Zenon DEF Goto, Label, Set, Local, Does
<1>6. ~Macro /\ ~Call /\ ~Exitm /\ ~While
  BY <1>4, Zenon DEF Macro, Call, Exitm, While, Does
<1>7. ~Ifdef /\ ~Endm /\ ~Endw
  BY <1>4, Zenon DEF Ifdef, Endm, Endw
<1>8. QED
  BY <1>3, <1>5, <1>6, <1>7, Zenon DEF Next

LEMMA ConditionalsStep ==
    ASSUME IInv, [Next]_vars, BInv
    PROVE  BInv'
<1>1. source' = source
  <2>1. UNCHANGED vars => source' = source
    BY DEF vars
  <2>2. Next => source' = source
    BY DEF Next, AppendLine, Skip, Insn, Goto, Label, Set, Local, If, Ifdef, Elif, Else, Endif, Macro,
           Endm, Call, Exitm, While, Endw, EndOfBody, EndPass1, EndPass2, Enter, Stays
  <2>3. QED
    BY <2>1, <2>2
<1>2. WellFormed' <=> WellFormed
  BY <1>1, SameText
<1>3. SUFFICES ASSUME WellFormed, ConditionalsOK PROVE ConditionalsOK'
  BY <1>2 DEF BInv
<1>4. CASE Next
  BY <1>3, <1>4, OnlyConditionals, SkipStep, InsnStep, IfStep, ElifStep, ElseStep, EndifStep,
     EndPass1Step, EndPass2Step
<1>5. CASE UNCHANGED vars
  <2>1. UNCHANGED <<source, pass, pc, stack, conditions, definition, emitted, errors>>
    BY <1>5 DEF vars, text, output, messages
  <2>2. PICK k, conds : k = stack[1].at /\ conds = conditions
    OBVIOUS
  <2>3. Nesting(conds, k)' /\ Modes(conds, k)' /\ Selected(k)' = Selected(k)
    BY <1>3, <2>1, <2>2, SameText DEF ConditionalsOK
  <2>4. stack[1].at' = k
    BY <2>1, <2>2
  <2>5. Nesting(conditions, stack[1].at)' /\ Modes(conditions, stack[1].at)'
        /\ Selected(stack[1].at)' = Selected(k)
    BY <2>1, <2>2, <2>3, <2>4
  <2>6. ModesTyped(conditions)'
    BY <1>3, <2>1 DEF ConditionalsOK, ModesTyped
  <2>7. /\ Len(stack)' = 1 /\ definition' = "none" /\ stack[1].at' \in (1 .. Len(source) + 1)'
        /\ ~errors'
        /\ (pass = 2)' => {emitted[n].line : n \in DOMAIN emitted}' = Selected(k)
        /\ (pc = "done")' => (pass = 2)' /\ stack[1].at' = (Len(source) + 1)'
    BY <1>3, <2>1, <2>2 DEF ConditionalsOK
  <2>8. QED
    BY <2>5, <2>6, <2>7 DEF ConditionalsOK
<1>6. QED
  BY <1>4, <1>5

LEMMA ConditionalsInit == Init => BInv
<1> SUFFICES ASSUME Init PROVE ConditionalsOK
  BY DEF BInv
<1>1. Sourced /\ Len(source) \in Nat
  BY AssemblerAssumption DEF Init, Sourced
<1>2. Len(stack) = 1 /\ stack[1].at = 1
  <2>1. PICK ctx : ctx = Context("file", << >>, 0)
    OBVIOUS
  <2>2. ctx.at = 1
    BY <2>1 DEF Context
  <2>3. QED
    BY <2>1, <2>2 DEF Init
<1>3. definition = "none" /\ conditions = << >> /\ pass = 1 /\ pc = "lines" /\ ~errors
  BY DEF Init
<1>4. Nesting(<< >>, 1) /\ Modes(<< >>, 1) /\ ModesTyped(<< >>)
  BY <1>1, AtFirst
<1>5. QED
  BY <1>1, <1>2, <1>3, <1>4 DEF ConditionalsOK

\* Pass 2 assembles the lines whose enclosing conditionals choose their branch, and
\* no others, and reports nothing (_enter_if, _do_elif, _do_else, _do_endif).
THEOREM BranchesFollowText == Spec => []BranchesAreChosen
<1>1. ASSUME IInv, BInv PROVE BranchesAreChosen
  <2>1. SUFFICES ASSUME pc = "done", WellFormed
        PROVE  /\ ~errors
               /\ {emitted[n].line : n \in DOMAIN emitted} =
                     {i \in DOMAIN source :
                         /\ source[i].op = "insn"
                         /\ \A j \in DOMAIN source : Encloses(j, i) =>
                               Chosen(j, Max({k \in Branches(j) : k < i}))}
    BY Zenon DEF BranchesAreChosen
  <2>2. ConditionalsOK
    BY <1>1, <2>1 DEF BInv
  <2>3. Len(source) \in Nat /\ DOMAIN source = 1 .. Len(source)
    BY <1>1, <2>1, <2>2, WellFormedFacts DEF Lines
  <2>4. ~errors /\ {emitted[n].line : n \in DOMAIN emitted} = Selected(Len(source) + 1)
    BY <2>1, <2>2 DEF ConditionalsOK
  <2>5. 1 .. (Len(source) + 1) - 1 = DOMAIN source
    BY <2>3
  <2>6. \A l : AllChosen(l) <=> \A j \in DOMAIN source : Encloses(j, l) =>
                                    Chosen(j, Max({k \in Branches(j) : k < l}))
    BY DEF AllChosen, Open, Lines, Branch
  <2>7. Selected(Len(source) + 1) = {l \in DOMAIN source : source[l].op = "insn" /\ AllChosen(l)}
    BY <2>5 DEF Selected, AllChosen
  <2>8. QED
    BY <2>4, <2>6, <2>7
<1>2. IInv /\ BInv /\ [Next]_vars => BInv'
  BY ConditionalsStep
<1>3. Init => BInv
  BY ConditionalsInit
<1>4. QED
  BY <1>1, <1>2, <1>3, Invariance, PTL DEF Spec
=============================================================================
