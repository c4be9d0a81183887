----------------------------- MODULE SymbolQueue -----------------------------
(***************************************************************************)
(* How gpasm numbers the symbols of an object file, coff.c and             *)
(* symbol_list.c.  Relocations are made in pass 2 while the symbols they   *)
(* refer to may still follow, so they keep a number that set_global gave   *)
(* out in pass 1.  The symbols themselves wait in a queue that pass 1      *)
(* fills and pass 2 empties bit by bit, up to a marker with the name of    *)
(* what it adds itself: a section, the end of a file, a directive.  At the *)
(* end relocations are led to the symbols that have their numbers.         *)
(*                                                                         *)
(* Pass 1 takes lines from the user and pass 2 reads the same lines.  An   *)
(* expansion of a macro is a scope for local labels.                       *)
(***************************************************************************)
EXTENDS Integers, FiniteSets, SequencesExt

CONSTANTS
    Labels,      \* names of labels
    Sections,    \* names of sections, which may be names of labels too
    Overlays,    \* those of overlaid sections
    AuxOf,       \* the directives that make a symbol -> its auxiliary symbols
    Expansions,  \* the expansions of macros
    Lines,       \* the lines the user may write
    MaxLines,    \* bound on the length of the source
    MaxDepth     \* bound on the files that are open at once

Directives == DOMAIN AuxOf

ASSUME QueueAssumption ==
    /\ AuxOf \in [Directives -> Nat]
    /\ Overlays \subseteq Sections
    /\ 0 \notin Expansions
    /\ {".file", ".eof"} \cap (Labels \cup Sections \cup Directives) = {}
    /\ Directives \cap (Labels \cup Sections) = {}

\* Scope 0 is stGlobal, the others are the tables of expansions.
Symbol == [name : Labels, scope : {0} \cup Expansions]

\* Conditionals may see different values in the passes, so a label may be
\* defined in one of them only.  A label outside of sections is external.
Line ==
    [op : {"label"}, symbol : Symbol, passes : {{1}, {2}, {1, 2}}]
        \cup [op : {"use"}, symbol : Symbol]
        \cup [op : {"section"}, name : Sections]
        \cup [op : {"directive"}, name : Directives]
        \cup [op : {"include"}] \cup [op : {"close"}]

ASSUME LinesAssumption == Lines \subseteq Line

VARIABLES
    source,     \* the lines
    pass, pc, at, depth,
    symbolNum,  \* state.obj.symbol_num
    number,     \* the symbols with a variable -> coff_symbol_num
    fifo, curr, \* state.obj.symbol_fifo, the node that is flushed next
    object,     \* its symbols and num_symbols
    section,    \* state.obj.section: the line of the directive, 0 for none
    relocs,     \* the relocations: what they refer to and the symbol number
    errors

position == <<source, pass, pc, at, depth>>
vars == <<position, symbolNum, number, fifo, curr, object, section, relocs, errors>>

NoSymbol == [name |-> "", scope |-> 0]

Empty == [list |-> << >>, size |-> 0]

-----------------------------------------------------------------------------
(***************************************************************************)
(* The queue                                                               *)
(***************************************************************************)
\* gp_coffgen_add_symbol and gp_coffgen_add_aux: a symbol is numbered by its place.
Added(obj, name, symbol, aux) ==
    [list |-> Append(obj.list, [name    |-> name,     number  |-> obj.size,
                                symbol  |-> symbol,   section |-> section]),
     size |-> obj.size + 1 + aux]

\* gp_coffgen_find_symbol does not see sections.
Found(obj, name) ==
    \E i \in DOMAIN obj.list : obj.list[i].symbol # NoSymbol /\ obj.list[i].name = name

\* Mutant of CoffName: a label of an expansion keeps its name.
PlainName(obj, s) == <<0, s.name>>

\* coff_local_name: "_1x", "_2x" and so on unless there is a global of the name.
CoffName(obj, s) ==
    IF \E g \in DOMAIN number : g.name = s.name /\ g.scope = 0 THEN <<0, s.name>>
    ELSE <<CHOOSE k \in 1 .. Len(obj.list) + 1 :
              /\ ~Found(obj, <<k, s.name>>)
              /\ \A j \in 1 .. k - 1 : Found(obj, <<j, s.name>>), s.name>>

\* symbol_list_flush_symbols for a node, with coff_add_sym.
AddQueued(acc, node) ==
    LET name == CoffName(acc.object, node.symbol) IN
    CASE node.symbol = NoSymbol    -> acc
      [] Found(acc.object, name)   -> [acc EXCEPT !.errors = TRUE]
      [] OTHER -> [acc EXCEPT !.object = Added(acc.object, name, node.symbol, 0)]

\* Mutant of EndNode: a section does not flush.
EndNodeInFile(name) == IF name \in Sections THEN curr - 1 ELSE Len(fifo)

\* The node with the name, or else the last one.
EndNode(name) ==
    LET named == {i \in curr .. Len(fifo) : fifo[i].name = name}
    IN  IF named = {} THEN Len(fifo) ELSE CHOOSE i \in named : \A j \in named : i <= j

\* What symbol_list_flush_symbols makes of the object.
Flushed(name) ==
    FoldLeft(AddQueued, [object |-> object, errors |-> errors],
             SubSeq(fifo, curr, EndNode(name)))

Flush(name) == curr' = EndNode(name) + 1

Queue(name, symbol) == fifo' = Append(fifo, [name |-> name, symbol |-> symbol])

\* Mutant of AddAfterFlush: the symbols that wait come behind the new one.
AddBeforeFlush(name, aux) ==
    LET added   == Added(object, <<0, name>>, NoSymbol, aux)
        flushed == FoldLeft(AddQueued, [object |-> added, errors |-> errors],
                            SubSeq(fifo, curr, EndNode(name)))
    IN  object' = flushed.object /\ errors' = flushed.errors

\* The symbols that wait, then a section, an end of file or a directive.
AddAfterFlush(name, aux) ==
    LET flushed == Flushed(name) IN
    /\ object' = Added(flushed.object, <<0, name>>, NoSymbol, aux)
    /\ errors' = flushed.errors

-----------------------------------------------------------------------------
(***************************************************************************)
(* Lines.  state.obj.enabled is FALSE in pass 1 and TRUE in pass 2.        *)
(***************************************************************************)
Read(l) ==
    /\ pc = "lines"
    /\ IF pass = 1
       THEN Len(source) < MaxLines /\ source' = Append(source, l)
       ELSE at <= Len(source) /\ source[at] = l /\ UNCHANGED source
    /\ at' = at + 1
    /\ UNCHANGED <<pass, pc>>

\* coff_add_file_sym: a symbol with an auxiliary one; nothing is flushed.
AddFile ==
    /\ symbolNum' = symbolNum + 2
    /\ depth' = depth + 1
    /\ IF pass = 1 THEN Queue(".file", NoSymbol) /\ UNCHANGED object
                   ELSE object' = Added(object, <<0, ".file">>, NoSymbol, 1) /\ UNCHANGED fifo
    /\ UNCHANGED <<number, curr, section, relocs, errors>>

OpenSource ==
    /\ pc = "open"
    /\ pc' = "lines"
    /\ AddFile
    /\ UNCHANGED <<source, pass, at>>

Include(l) ==
    /\ l.op = "include" /\ depth < MaxDepth
    /\ Read(l)
    /\ AddFile

\* coff_new_section: the line of a section that cannot be is left out.
NewSection(l) ==
    /\ l.op = "section"
    /\ Read(l)
    /\ symbolNum' = symbolNum + 2
    /\ IF pass = 1
       THEN Queue(l.name, NoSymbol) /\ UNCHANGED <<curr, object, section, errors>>
       ELSE /\ Flush(l.name)
            /\ UNCHANGED fifo
            /\ IF (\E i \in 1 .. at - 1 : source[i].op = "section" /\ source[i].name = l.name)
                    /\ l.name \notin Overlays
               THEN object' = Flushed(l.name).object /\ errors' = TRUE /\ UNCHANGED section
               ELSE AddAfterFlush(l.name, 1) /\ section' = at
    /\ UNCHANGED <<depth, number, relocs>>

\* coff_add_list_sym, coff_add_nolist_sym, coff_add_direct_sym, coff_add_ident_sym.
AddDirective(l) ==
    /\ l.op = "directive"
    /\ Read(l)
    /\ symbolNum' = symbolNum + 1 + AuxOf[l.name]
    /\ IF pass = 1
       THEN Queue(l.name, NoSymbol) /\ UNCHANGED <<curr, object, errors>>
       ELSE Flush(l.name) /\ AddAfterFlush(l.name, AuxOf[l.name]) /\ UNCHANGED fifo
    /\ UNCHANGED <<depth, number, section, relocs>>

\* set_global: a new symbol gets the next number, and waits if this is pass 1.  The
\* second label of a name has another address, which pass 2 reports.
Label(l) ==
    /\ l.op = "label"
    /\ Read(l)
    /\ IF pass \in l.passes /\ l.symbol \notin DOMAIN number
       THEN /\ number' = [s \in DOMAIN number \cup {l.symbol} |->
                             IF s = l.symbol THEN symbolNum ELSE number[s]]
            /\ symbolNum' = symbolNum + 1
            /\ IF pass = 1 THEN Queue(l.symbol.name, l.symbol) ELSE UNCHANGED fifo
       ELSE UNCHANGED <<number, symbolNum, fifo>>
    /\ errors' = (errors \/
           (/\ pass = 2 /\ pass \in l.passes
            /\ \E i \in 1 .. at - 1 : source[i].op = "label" /\ source[i].symbol = l.symbol))
    /\ UNCHANGED <<depth, curr, object, section, relocs>>

\* An instruction with the address of a label, _add_reloc and coff_add_reloc.
Use(l) ==
    /\ l.op = "use"
    /\ Read(l)
    /\ LET known == l.symbol \in DOMAIN number IN
       /\ errors' = (errors \/ (pass = 2 /\ ~known))
       /\ relocs' = IF pass = 2 /\ known /\ section # 0
                    THEN relocs \cup {[to |-> l.symbol, number |-> number[l.symbol]]}
                    ELSE relocs
    /\ UNCHANGED <<depth, symbolNum, number, fifo, curr, object, section>>

\* coff_add_eof_sym.
AddEof ==
    /\ symbolNum' = symbolNum + 1
    /\ depth' = depth - 1
    /\ IF pass = 1
       THEN Queue(".eof", NoSymbol) /\ UNCHANGED <<curr, object, errors>>
       ELSE Flush(".eof") /\ AddAfterFlush(".eof", 0) /\ UNCHANGED fifo
    /\ UNCHANGED <<number, section, relocs>>

\* The end of an included file.
Close(l) ==
    /\ l.op = "close" /\ depth > 1
    /\ Read(l)
    /\ AddEof

\* The end of the source, or END, which closes all files.
End ==
    /\ pc = "lines"
    /\ pass = 2 => at > Len(source)
    /\ pc' = IF depth > 1 THEN "close" ELSE "end"
    /\ UNCHANGED <<source, pass, at, depth>>
    /\ UNCHANGED <<symbolNum, number, fifo, curr, object, section, relocs, errors>>

CloseAll ==
    /\ pc = "close"
    /\ AddEof
    /\ pc' = IF depth > 2 THEN "close" ELSE "end"
    /\ UNCHANGED <<source, pass, at>>

\* assemble between the passes: the symbols and their numbers stay.
EndPass1 ==
    /\ pc = "end" /\ pass = 1
    /\ Queue(".eof", NoSymbol)
    /\ pass' = 2 /\ pc' = "open" /\ at' = 1 /\ depth' = 0
    /\ symbolNum' = 0 /\ section' = 0 /\ curr' = 1
    /\ UNCHANGED <<source, number, object, relocs, errors>>

\* The symbols of an object with their numbers, as _update_reloc_ptr finds them.
Numbered(obj, n) == {i \in DOMAIN obj.list : obj.list[i].number = n}

\* coff_cleanup_before_eof: the rest of the queue, then the relocations; one whose
\* number no symbol has ends the program.  The last .eof comes behind.
EndPass2 ==
    /\ pc = "end" /\ pass = 2
    /\ LET flushed == Flushed("") IN
       /\ object' = Added(flushed.object, <<0, ".eof">>, NoSymbol, 0)
       /\ errors' = flushed.errors
       /\ pc' = IF \E r \in relocs : Numbered(flushed.object, r.number) = {}
                THEN "failed" ELSE "done"
    /\ curr' = Len(fifo) + 1 /\ symbolNum' = symbolNum + 1 /\ depth' = 0
    /\ UNCHANGED <<source, pass, at, number, fifo, section, relocs>>

Init ==
    /\ source = << >>
    /\ pass = 1 /\ pc = "open" /\ at = 1 /\ depth = 0
    /\ symbolNum = 0 /\ number = [s \in {} |-> 0]
    /\ fifo = << >> /\ curr = 1
    /\ object = Empty /\ section = 0 /\ relocs = {} /\ errors = FALSE

Step(l) == Include(l) \/ NewSection(l) \/ AddDirective(l) \/ Label(l) \/ Use(l) \/ Close(l)

Next ==
    \/ OpenSource
    \/ \E l \in Lines : Step(l)
    \/ End \/ CloseAll \/ EndPass1 \/ EndPass2

Spec == Init /\ [][Next]_vars

-----------------------------------------------------------------------------
(***************************************************************************)
(* Properties                                                              *)
(***************************************************************************)
\* The variables keep their shape, and the queue is never read beyond its end.
TypeOK ==
    /\ source \in Seq(Lines) /\ Len(source) <= MaxLines
    /\ pass \in {1, 2} /\ pc \in {"open", "lines", "close", "end", "done", "failed"}
    /\ at \in 1 .. Len(source) + 1 /\ depth \in 0 .. MaxDepth
    /\ DOMAIN number \subseteq Symbol
    /\ \A s \in DOMAIN number : number[s] \in Nat
    /\ curr \in 1 .. Len(fifo) + 1
    /\ object.size \in Nat /\ symbolNum \in Nat
    /\ section \in {0} \cup {i \in DOMAIN source : source[i].op = "section"}
    /\ \A r \in relocs : r.to \in Symbol /\ r.number \in Nat
    /\ errors \in BOOLEAN

LinesOf(op) == {i \in DOMAIN source : source[i].op = op}

\* Pass 2 defines no label that pass 1 does not.
SameLabels == \A i \in LinesOf("label") : 1 \in source[i].passes

\* No label waits in the queue when a file is included.
NothingWaits ==
    \A i \in LinesOf("include") : \A j \in LinesOf("label") : j < i =>
        \E k \in j .. i : source[k].op \in {"section", "directive", "close"}

OwnNames ==
    \A i \in LinesOf("label"), j \in LinesOf("section") : source[i].symbol.name # source[j].name

Ended == pc \in {"done", "failed"}

\* Every relocation has the number of the symbol it was made for.
AllFound ==
    pc = "done" /\ \A r \in relocs : \E i \in Numbered(object, r.number) : object.list[i].symbol = r.to

\* Numbers given out in pass 1 are the places of the symbols in the object that
\* pass 2 makes, whatever sections, files, directives and expansions are between.
RelocationsFindSymbols ==
    (Ended /\ ~errors /\ SameLabels /\ NothingWaits /\ OwnNames) => AllFound

\* "The symbol index is stored in relocations instead of a pointer to the symbol.
\* Before the coff is written the symbol pointer is updated", coff.c:363.
RelocationsAlwaysFindSymbols == (Ended /\ ~errors /\ SameLabels) => AllFound

\* The section that pass 1 defined a label in.
Home(s) ==
    LET here   == {i \in LinesOf("label") : source[i].symbol = s /\ 1 \in source[i].passes}
        first  == CHOOSE i \in here : \A j \in here : i <= j
        before == {i \in LinesOf("section") : i < first}
    IN  IF before = {} THEN 0 ELSE CHOOSE i \in before : \A j \in before : j <= i

\* A label leaves the queue while the section it was defined in is still open,
\* for coff_add_sym takes the section of the moment.
LabelsInTheirSection ==
    TypeOK /\ (pc = "done" /\ ~errors /\ OwnNames =>
        \A i \in DOMAIN object.list :
            object.list[i].symbol # NoSymbol => object.list[i].section = Home(object.list[i].symbol))

\* What the user may write: names are defined once, in both passes if they are
\* used, and no local label has the name of a global one.
Legal ==
    /\ \A i, j \in LinesOf("label") : i # j => source[i].symbol # source[j].symbol
    /\ \A i, j \in LinesOf("section") :
           (i # j /\ source[i].name = source[j].name) => source[i].name \in Overlays
    /\ \A i \in LinesOf("use") :
           \E j \in LinesOf("label") : source[j].symbol = source[i].symbol /\ 1 \in source[j].passes
    /\ \A i, j \in LinesOf("label") :
           (source[i].symbol.name = source[j].symbol.name /\ source[i].symbol.scope = 0)
               => source[j].symbol.scope = 0

\* A legal source is assembled without errors, and each label of pass 1 is one
\* symbol of the object, with a name that no other one has.
LegalSourcesAssemble ==
    (Ended /\ Legal) =>
        /\ ~errors
        /\ \A i \in LinesOf("label") : 1 \in source[i].passes =>
               \E k \in DOMAIN object.list :
                   /\ object.list[k].symbol = source[i].symbol
                   /\ \A m \in DOMAIN object.list \ {k} :
                          object.list[m].symbol # NoSymbol =>
                              /\ object.list[m].symbol # source[i].symbol
                              /\ object.list[m].name # object.list[k].name
=============================================================================
