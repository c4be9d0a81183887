---------------------------- MODULE CodeOptimizer ----------------------------
(***************************************************************************)
(* gp_coffopt_remove_unnecessary_pagesel and ..._banksel: the relocations  *)
(* of a section pass through a window of four (reloc_pipe); when the       *)
(* window shows a selection that is not needed, its instruction is deleted *)
(* from the code, and everything behind it moves down.                     *)
(*                                                                         *)
(* Addresses count words.  A word holds the number of the instruction it   *)
(* belongs to, so that one can see what was deleted.  A register is its    *)
(* bank.  Line numbers move like relocations and are left out.             *)
(***************************************************************************)
EXTENDS Integers, Sequences, FiniteSets, SequencesExt

CONSTANTS
    Input,      \* the objects explored
    PageSize    \* words in a page of program memory

\* A branch or a pagesel leads "to" a label, a file instruction or a banksel
\* to a bank; the other instructions have no relocation.
Branches  == {"call", "goto", "bra"}
PageInsns == Branches \cup {"pagesel"}
BankInsns == {"banksel", "file"}
Insn == [op : PageInsns \cup BankInsns \cup {"return", "nop"}, to : Nat, size : Nat \ {0}]

\* A label stands before an instruction of a section.
ObjectType == [start : Seq(Nat), code : Seq(Seq(Insn)),
               labels : Seq([section : Nat, insn : Nat]),
               pagesel : BOOLEAN]   \* state.optimize.pagesel

\* The words of the first n instructions.
SizeTo(insns, n) ==
    LET size[k \in 0 .. Len(insns)] == IF k = 0 THEN 0 ELSE size[k - 1] + insns[k].size
    IN  size[n]

Size(insns) == SizeTo(insns, Len(insns))
Page(addr)  == addr \div PageSize

ASSUME InputAssumption ==
    /\ PageSize \in Nat \ {0}
    /\ Input \subseteq ObjectType
    /\ \A obj \in Input :
        /\ DOMAIN obj.start = DOMAIN obj.code
        /\ \A l \in DOMAIN obj.labels :
              /\ obj.labels[l].section \in DOMAIN obj.code
              /\ obj.labels[l].insn \in DOMAIN obj.code[obj.labels[l].section]
        /\ \A s \in DOMAIN obj.code :
              /\ obj.code[s] # <<>>
              /\ \A k \in DOMAIN obj.code[s] :
                    obj.code[s][k].op \in PageInsns => obj.code[s][k].to \in DOMAIN obj.labels
              \* the placement leaves a section on one page, and none over another
              /\ Page(obj.start[s] + Size(obj.code[s]) - 1) = Page(obj.start[s])
              /\ \A t \in DOMAIN obj.code :
                    t = s \/ obj.start[s] + Size(obj.code[s]) <= obj.start[t]
                          \/ obj.start[t] + Size(obj.code[t]) <= obj.start[s]

VARIABLES
    object,     \* the placed object
    pass,       \* the optimisation that runs
    section,    \* the section it looks at
    current,    \* the instruction of reloc_curr
    step,       \* within one turn of the loop over the relocations
    address,    \* section -> address
    words,      \* section -> data
    reloc,      \* section -> instruction -> address of its relocation
    value,      \* label -> value
    count,      \* label -> reloc_count_all_section
    moved,      \* labels with OPT_FLAGS_GPCOFFOPT_MODULE
    array,      \* section -> label_array
    pipe,       \* reloc_pipe
    saturation,
    first       \* first_banksel

where == <<pass, section, current, step, pipe, saturation, first>>
image == <<address, words, reloc, value, count, moved, array>>
vars  == <<object, where, image>>

Sections == DOMAIN object.code
Labels   == DOMAIN object.labels
Code(s)  == object.code[s]
I(k)     == object.code[section][k]

Relocated(insns) == {k \in DOMAIN insns : insns[k].op \in PageInsns \cup BankInsns}

\* The number of relocations of a set of sections to a label.
References(obj, S, l) ==
    LET in(s) == {k \in DOMAIN obj.code[s] : obj.code[s][k].op \in PageInsns /\ obj.code[s][k].to = l}
    IN  Cardinality(UNION {{s} \X in(s) : s \in S})

\* An entry of the window.  The states COPT_..._CURR_PAGE and
\* COPT_..._OTHER_PAGE are an operation and whether its target is on the page;
\* "target" is a page or a bank.
None  == [insn |-> 0, op |-> "null", same |-> FALSE, protected |-> FALSE,
          target |-> 0, addr |-> 0, len |-> 0]
Empty == [i \in 0 .. 3 |-> None]

Forward  == [i \in 0 .. 3 |-> IF i = 0 THEN None ELSE pipe[i - 1]]
Backward(p) == [i \in 0 .. 3 |-> IF i = 3 THEN None ELSE p[i + 1]]

-----------------------------------------------------------------------------
Init ==
    /\ object \in Input
    /\ pass = IF object.pagesel THEN "pagesel" ELSE "banksel"
    /\ section = 0
    /\ current = 0
    /\ step = "enter"
    /\ address = object.start
    /\ words = [s \in Sections |-> [p \in 1 .. Size(Code(s)) |->
                    CHOOSE k \in DOMAIN Code(s) :
                        SizeTo(Code(s), k - 1) < p /\ p <= SizeTo(Code(s), k)]]
    /\ reloc = [s \in Sections |->
                    [k \in Relocated(Code(s)) |-> SizeTo(Code(s), k - 1)]]
    /\ value = [l \in Labels |->
                    LET at == object.labels[l]
                    IN  address[at.section] + SizeTo(Code(at.section), at.insn - 1)]
    \* DeadSections!CountsAreKnown: the relocations of some sections are counted twice
    /\ \E again \in SUBSET Sections :
          count = [l \in Labels |-> References(object, Sections, l) + References(object, again, l)]
    /\ moved = {}
    /\ array = [s \in Sections |-> <<>>]
    /\ pipe = Empty
    /\ saturation = 0
    /\ first = FALSE

OnPage(s) == {t \in Sections : Page(address[t]) = Page(address[s])}

\* gp_symbol_make_label_array: the labels whose values lie in the section,
\* sorted by value; qsort leaves the order of equal ones open.
LabelsIn(s) == {l \in Labels : address[s] <= value[l] /\ value[l] < address[s] + Len(words[s])}

LabelArrays(s) ==
    {labels \in SetToSeqs(LabelsIn(s)) :
        \A i, j \in DOMAIN labels : i < j => value[labels[i]] <= value[labels[j]]}

\* gp_symbol_find_by_value: a binary search, which may find any one of equal
\* values, and may miss one in an array whose order was lost.
FindByValue(addr) ==
    LET labels  == array[section]
        equal   == {l \in ToSet(labels) : value[l] = addr}
        ordered == \A i, j \in DOMAIN labels : i < j => value[labels[i]] <= value[labels[j]]
    IN  IF equal # {} /\ ordered THEN equal ELSE equal \cup {0}

\* The relocations after reloc_curr.
Later == {k \in DOMAIN reloc[section] : k > current}

Advance ==
    IF Later = {} THEN step' = "enter" /\ UNCHANGED current
    ELSE /\ step' = "analyze"
         /\ current' = CHOOSE k \in Later : \A j \in Later : k <= j

\* The loop over the sections; pagesel skips those without labels.
EnterSection ==
    /\ step = "enter"
    /\ pass # "done"
    /\ section < Len(object.code)
    /\ section' = section + 1
    /\ LET arrays == [t \in Sections |->
                         IF t \in OnPage(section + 1) THEN LabelArrays(t) ELSE {<<>>}]
       IN  array' \in {a \in [Sections -> UNION Range(arrays)] : \A t \in Sections : a[t] \in arrays[t]}
    /\ LET relocs == DOMAIN reloc[section + 1]
       IN  IF relocs = {} \/ (pass = "pagesel" /\ LabelsIn(section + 1) = {})
           THEN UNCHANGED <<step, current>>
           ELSE /\ step' = "analyze"
                /\ current' = CHOOSE k \in relocs : \A j \in relocs : k <= j
    /\ pipe' = Empty
    /\ saturation' = 0
    /\ first' = FALSE
    /\ UNCHANGED <<object, pass, address, words, reloc, value, count, moved>>

\* gp_coffopt_remove_unnecessary_banksel does nothing without registers.
EndPass ==
    /\ step = "enter"
    /\ pass # "done"
    /\ section = Len(object.code)
    /\ pass' = IF pass = "pagesel"
                  /\ \E s \in Sections : \E k \in DOMAIN Code(s) : Code(s)[k].op \in BankInsns
               THEN "banksel" ELSE "done"
    /\ section' = 0
    /\ array' = [s \in Sections |-> <<>>]
    /\ UNCHANGED <<object, current, step, address, words, reloc, value, count, moved,
                   pipe, saturation, first>>

-----------------------------------------------------------------------------
(***************************************************************************)
(* _destroy_insn_and_update_addr                                           *)
(***************************************************************************)
\* Mutant of Moves: the relocation right behind a first instruction stays.
MovesFar(k, len) == reloc[section][k] > len

Moves(k, len) == reloc[section][k] >= len

\* Mutant of SectionsBehind: other pages too.
SectionsAbove == {t \in Sections : address[t] > address[section]}

SectionsBehind == {t \in OnPage(section) : address[t] > address[section]}

\* Mutant of Unmoved: no look at the flag.
UnmovedOrNot(S, flagged) == S

\* Prevents the multiple modifications of symbol.
Unmoved(S, flagged) == S \ flagged

\* The newer entries move down, the older ones move up in the window.
PipeWithout(i) ==
    [j \in 0 .. 3 |-> IF j < i THEN [pipe[j] EXCEPT !.addr = @ - pipe[i].len]
                               ELSE Backward(pipe)[j]]

Destroy(i) ==
    \E deleted \in FindByValue(pipe[i].addr) :
    LET gone     == pipe[i].insn
        len      == pipe[i].len
        offset   == pipe[i].addr - address[section]
        labels   == RemoveFirst(array[section], deleted)
        flagged  == moved \ UNION {ToSet(IF t = section THEN labels ELSE array[t]) : t \in Sections}
        bySection == Unmoved({l \in UNION {ToSet(array[t]) : t \in SectionsBehind} :
                                 \E t \in SectionsBehind :
                                     l \in ToSet(array[t]) /\ value[l] >= address[t]}, flagged)
        behind   == {k \in DOMAIN reloc[section] : k > gone /\ Moves(k, len)}
        byReloc  == Unmoved({l \in {I(k).to : k \in {j \in behind : I(j).op \in PageInsns}} :
                                 Page(value[l]) = Page(pipe[i].addr)}, flagged \cup bySection)
    IN  /\ words' = [words EXCEPT ![section] =
                        SubSeq(@, 1, offset) \o SubSeq(@, offset + len + 1, Len(@))]
        /\ array' = [array EXCEPT ![section] = labels]
        /\ address' = [t \in Sections |->
                          IF t \in SectionsBehind THEN address[t] - len ELSE address[t]]
        /\ value' = [l \in Labels |->
                        value[l] - (IF l \in bySection THEN len ELSE 0)
                                 - (IF l \in byReloc THEN len ELSE 0)]
        /\ moved' = flagged \cup bySection \cup byReloc
        /\ reloc' = [reloc EXCEPT ![section] =
                        [k \in DOMAIN @ \ {gone} |-> IF k \in behind THEN @[k] - len ELSE @[k]]]
        /\ count' = [l \in Labels |->
                        IF I(gone).op = "pagesel" /\ I(gone).to = l /\ count[l] > 0
                        THEN count[l] - 1 ELSE count[l]]

-----------------------------------------------------------------------------
(***************************************************************************)
(* gp_coffopt_remove_unnecessary_pagesel                                   *)
(***************************************************************************)
\* Mutant of IsProtected: two references are few.
IsProtectedFromTwo(l) == l # 0 /\ count[l] > 2

IsProtected(l) == l # 0 /\ count[l] > 1

\* Mutant of Adjoins: instructions between two relocations do not matter.
AdjoinsAlways(addr) == pipe[1].op # "null"

\* The entry before is of interest, and no instruction lies between.
Adjoins(addr) == pipe[1].op # "null" /\ pipe[1].addr + pipe[1].len = addr

\* _pagesel_reloc_analyze; relocations for banks have the state COPT_NULL.
AnalyzePagesel ==
    /\ pass = "pagesel"
    /\ step = "analyze"
    /\ LET addr == address[section] + reloc[section][current]
           page == Page(value[I(current).to])
           old  == IF Adjoins(addr) THEN pipe ELSE Empty
           seen == I(current).op \in PageInsns
       IN  /\ \E l \in FindByValue(addr) :
                 pipe' = [old EXCEPT ![0] =
                            [insn |-> current,
                             op |-> IF seen THEN I(current).op ELSE "null",
                             same |-> seen /\ page = Page(addr),
                             protected |-> IsProtected(l),
                             target |-> IF seen THEN page ELSE 0,
                             addr |-> addr,
                             len |-> IF seen THEN I(current).size ELSE 0]]
           /\ saturation' = Cardinality({i \in 0 .. 3 : i = 0 \/ old[i].insn # 0})
    /\ step' = "last"
    /\ UNCHANGED <<object, pass, section, current, first, image>>

Is(i, op, same)  == pipe[i].op = op /\ pipe[i].same = same
MayGo(i, op, same) == Is(i, op, same) /\ ~pipe[i].protected

\* _insn_isReturn
IsReturn(addr) ==
    LET p == addr - address[section] + 1
    IN  p \in DOMAIN words[section] /\ I(words[section][p]).op = "return"

\* A selection of this page before a return, as the last relocation.
UselessAtEnd ==
    {i \in {0} : Later = {} /\ MayGo(0, "pagesel", TRUE) /\ IsReturn(pipe[0].addr + pipe[0].len)}

\* The rules for two, three and four entries; each finds one at most.
UselessOfTwo ==
    {i \in {0, 1} : /\ saturation >= 2
                    /\ \/ i = 0 /\ Is(1, "call", TRUE) /\ MayGo(0, "pagesel", TRUE)
                       \/ i = 1 /\ MayGo(1, "pagesel", TRUE) /\ Is(0, "pagesel", FALSE)
                       \/ i = 1 /\ MayGo(1, "pagesel", TRUE)
                                /\ pipe[0].op \in {"goto", "call"} /\ pipe[0].same
                       \/ i = 1 /\ pipe[1].op = "pagesel" /\ ~pipe[1].protected
                                /\ pipe[0].op = "bra"}

\* Two selections of this page after a call of another: the second one stays.
Doubled ==
    saturation >= 3 /\ Is(2, "call", FALSE) /\ Is(1, "pagesel", TRUE) /\ Is(0, "pagesel", TRUE)

UselessOfThree ==
    {i \in {1} : /\ saturation >= 3
                 /\ \/ /\ Is(2, "call", FALSE) /\ MayGo(1, "pagesel", FALSE) /\ Is(0, "call", FALSE)
                       /\ pipe[2].target = pipe[1].target /\ pipe[1].target = pipe[0].target
                    \/ /\ Is(2, "call", TRUE) /\ MayGo(1, "pagesel", TRUE)
                       /\ pipe[0].op \in {"pagesel", "call"} /\ pipe[0].same}

UselessOfFour ==
    {i \in {2} : /\ saturation = 4
                 /\ Is(3, "call", FALSE) /\ MayGo(2, "pagesel", TRUE)
                 /\ \/ Is(1, "pagesel", TRUE) /\ Is(0, "call", TRUE)
                    \/ Is(1, "pagesel", FALSE) /\ Is(0, "call", FALSE)}

\* One rule of _pagesel_remove: delete what it found, or nothing.
Rule(found, next) ==
    /\ \/ \E i \in found : Destroy(i) /\ pipe' = PipeWithout(i)
       \/ found = {} /\ UNCHANGED <<image, pipe>>
    /\ step' = next
    /\ UNCHANGED <<object, pass, section, current, saturation, first>>

\* The last relocation; the function returns after a removal.
RuleAtEnd ==
    /\ step = "last"
    /\ \/ /\ \E i \in UselessAtEnd : Destroy(i) /\ pipe' = Backward(PipeWithout(i))
          /\ step' = "shift"
       \/ /\ UselessAtEnd = {}
          /\ step' = "two"
          /\ UNCHANGED <<image, pipe>>
    /\ UNCHANGED <<object, pass, section, current, saturation, first>>

RuleOfTwo   == step = "two" /\ Rule(UselessOfTwo, "three")
RuleOfThree == step = "three" /\ ~Doubled /\ Rule(UselessOfThree, "four")
RuleOfFour  == step = "four" /\ Rule(UselessOfFour, "shift")

ProtectSecond ==
    /\ step = "three"
    /\ Doubled
    /\ pipe' = [pipe EXCEPT ![1].protected = FALSE, ![0].protected = TRUE]
    /\ step' = "four"
    /\ UNCHANGED <<object, pass, section, current, saturation, first, image>>

\* _reloc_pipe_shift, and on to the next relocation.
Shift ==
    /\ step = "shift"
    /\ pipe' = Forward
    /\ Advance
    /\ UNCHANGED <<object, pass, section, saturation, first, image>>

-----------------------------------------------------------------------------
(***************************************************************************)
(* gp_coffopt_remove_unnecessary_banksel                                   *)
(***************************************************************************)
\* _banksel_reloc_analyze; a branch empties the window.
AnalyzeBanksel ==
    /\ pass = "banksel"
    /\ step = "analyze"
    /\ LET addr == address[section] + reloc[section][current]
       IN  \/ /\ I(current).op \in Branches
              /\ pipe' = Empty
              /\ Advance
              /\ UNCHANGED <<saturation, first>>
           \/ /\ I(current).op = "banksel"
              /\ \E l \in FindByValue(addr) :
                    pipe' = [Forward EXCEPT ![0] =
                               [insn |-> current, op |-> "banksel", same |-> FALSE,
                                protected |-> IsProtected(l) \/ ~first,
                                target |-> I(current).to, addr |-> addr,
                                len |-> I(current).size]]
              /\ saturation' = Cardinality({i \in 0 .. 2 : pipe[i].insn # 0}) + 1
              /\ first' = TRUE
              /\ step' = "remove"
              /\ UNCHANGED current
           \/ /\ I(current).op \notin Branches \cup {"banksel"}
              /\ Advance
              /\ UNCHANGED <<pipe, saturation, first>>
    /\ UNCHANGED <<object, pass, section, image>>

\* The older one of two selections of a bank, or else the newer one.
UselessBanksel ==
    {i \in {0, 1} : /\ saturation >= 2
                    /\ pipe[1].op = "banksel" /\ pipe[0].op = "banksel"
                    /\ pipe[1].target = pipe[0].target
                    /\ ~pipe[i].protected
                    /\ i = 1 \/ pipe[1].protected}

RemoveBanksel ==
    /\ step = "remove"
    /\ \/ \E i \in UselessBanksel : Destroy(i) /\ pipe' = PipeWithout(i)
       \/ UselessBanksel = {} /\ UNCHANGED <<image, pipe>>
    /\ Advance
    /\ UNCHANGED <<object, pass, section, saturation, first>>

Next ==
    \/ EnterSection \/ EndPass
    \/ AnalyzePagesel \/ RuleAtEnd \/ RuleOfTwo \/ RuleOfThree \/ ProtectSecond \/ RuleOfFour
    \/ Shift
    \/ AnalyzeBanksel \/ RemoveBanksel

Spec == Init /\ [][Next]_vars /\ WF_vars(Next)

-----------------------------------------------------------------------------
Entry == [insn : Nat, op : {"null", "pagesel", "banksel"} \cup Branches, same : BOOLEAN,
          protected : BOOLEAN, target : Int, addr : Int, len : Nat]

\* Every variable has its shape; the window lies in the section.
TypeOK ==
    /\ pass \in {"pagesel", "banksel", "done"}
    /\ section \in 0 .. Len(object.code)
    /\ current \in Nat
    /\ step \in {"enter", "analyze", "last", "two", "three", "four", "remove", "shift"}
    /\ address \in [Sections -> Nat]
    /\ words \in [Sections -> Seq(Nat \ {0})]
    /\ value \in [Labels -> Int]
    /\ count \in [Labels -> Nat]
    /\ moved \subseteq Labels
    /\ array \in [Sections -> Seq(Labels)]
    /\ pipe \in [0 .. 3 -> Entry]
    /\ saturation \in 0 .. 4
    /\ first \in BOOLEAN

\* The place of an instruction in the data of a section, from 0.
Offset(s, k) == CHOOSE p \in DOMAIN words[s] :
                    words[s][p] = k /\ \A q \in 1 .. p - 1 : words[s][q] # k

\* However many instructions were deleted, and in whatever order the window
\* chose them, a relocation that is left points to the first word of its
\* instruction; gp_cofflink_patch would write its address elsewhere.
RelocationsFollow ==
    \A s \in Sections : \A k \in DOMAIN reloc[s] :
        k \in ToSet(words[s]) /\ reloc[s][k] = Offset(s, k) - 1

\* What is deleted are whole selections: the addresses that the window keeps
\* of older relocations are still right when it deletes there.
OnlySelectionsGo ==
    \A s \in Sections :
        LET left(k) == Code(s)[k].op \notin {"pagesel", "banksel"} \/ k \in DOMAIN reloc[s]
        IN  /\ \A p, q \in DOMAIN words[s] : p < q => words[s][p] <= words[s][q]
            /\ \A k \in DOMAIN Code(s) :
                  Cardinality({p \in DOMAIN words[s] : words[s][p] = k}) =
                      IF left(k) THEN Code(s)[k].size ELSE 0

\* Code and relocations stay in step while instructions are deleted under them
\* (_destroy_insn_and_update_addr).
CodeAndRelocationsAgree == RelocationsFollow /\ OnlySelectionsGo

\* The window shows the code as it is now: its entries are relocations of the
\* section, at their addresses, and for pagesel with nothing in between.
WindowIsCurrent ==
    step \in {"last", "two", "three", "four", "remove"} =>
        /\ \A i \in {j \in 0 .. 3 : pipe[j].insn # 0} :
              /\ pipe[i].insn \in DOMAIN reloc[section]
              /\ pipe[i].addr = address[section] + reloc[section][pipe[i].insn]
        /\ pass = "pagesel" =>
              \A i \in 0 .. 2 : pipe[i + 1].insn # 0 => pipe[i + 1].addr + pipe[i + 1].len = pipe[i].addr

\* Sections move together towards lower addresses but never meet, change
\* their order, or leave their page.
SectionsStayApart ==
    TypeOK /\ \A s \in Sections :
        /\ Page(address[s]) = Page(object.start[s])
        /\ Page(address[s] + Len(words[s]) - 1) = Page(object.start[s])
        /\ \A t \in Sections :
              object.start[s] < object.start[t] => address[s] + Len(words[s]) <= address[t]

\* A label inside a section that moves goes with it, once, although labels are
\* found by the arrays of sections and by relocations.
LabelsMoveWithSections ==
    [][\A s \in Sections : address'[s] # address[s] =>
          \A l \in ToSet(array[s]) :
              address[s] <= value[l] => value'[l] - address'[s] = value[l] - address[s]]_vars

\* The label is at the place that its instruction, or the next one that is
\* left, has now.
IsRight(l) ==
    LET s == object.labels[l].section
    IN  value[l] = address[s] + Cardinality({p \in DOMAIN words[s] :
                                                words[s][p] < object.labels[l].insn})

\* The page of a label, which no removal changes.
HomePage(l) == Page(object.start[object.labels[l].section])

\* The relocations to a label that are left.
Entering(l) == {r \in UNION {{s} \X DOMAIN reloc[s] : s \in Sections} :
                   Code(r[1])[r[2]].op \in PageInsns /\ Code(r[1])[r[2]].to = l}

\* The search finds one of the labels of an address, and may miss them all when
\* earlier removals have brought the array out of order.
IsFound(l) ==
    /\ \A m \in ToSet(array[section]) : value[m] = value[l] => count[m] > 1
    /\ \A i, j \in DOMAIN array[section] :
          i < j => value[array[section][i]] <= value[array[section][j]]

\* The selection behind is one of the same page.
SelectedBehind(k) ==
    \E j \in DOMAIN reloc[section] :
        /\ reloc[section][j] = reloc[section][k] + I(k).size
        /\ I(j).op = "pagesel"
        /\ HomePage(I(j).to) = HomePage(I(k).to)

\* A pagesel that two branches or more enter at is only deleted when the pagesel
\* that follows it selects the same page, however many instructions were deleted
\* before.  Not so where another label of the address has one branch, or where the
\* labels of the section have lost their order: gpcoffopt.c looks at one label only.
EntriesKeepSelection ==
    [][pass = "pagesel" /\ section # 0 =>
        \A k \in DOMAIN reloc[section] \ DOMAIN reloc'[section] : \A l \in Labels :
            (/\ object.labels[l] = [section |-> section, insn |-> k]
             /\ IsRight(l) /\ IsFound(l) /\ Cardinality(Entering(l)) > 1)
            => SelectedBehind(k)]_vars

-----------------------------------------------------------------------------
\* "updates all related addresses": at the end every label stands before its
\* instruction.
LabelsFollow == pass = "done" => \A l \in Labels : IsRight(l)
=============================================================================
