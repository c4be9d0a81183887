---------------------------- MODULE DeadSections ----------------------------
(***************************************************************************)
(* The dead section optimisation of gplink: gp_coffgen_check_relocations   *)
(* follows the relocations from the sections that must stay, depth first   *)
(* and with a limit of the depth, and counts them;                         *)
(* gp_coffopt_remove_dead_sections moves the others to a list of dead      *)
(* sections and checks again until none is moved.                          *)
(*                                                                         *)
(* One symbol stands for all symbols of a section.  The function that      *)
(* follows the relocations returns whether it has changed something, but   *)
(* it sets that to false and then only to what it returned itself: the     *)
(* "further rounds" of gp_coffgen_check_relocations never happen, and the  *)
(* model has none.                                                         *)
(***************************************************************************)
EXTENDS Integers, Sequences, FiniteSets

CONSTANTS
    Input,      \* the objects explored
    DepthMax    \* CHECK_RELOCATIONS_DEPTH_MAX, 100 in the code

\* A section and the sections whose symbols its relocations point to; 0 is a
\* symbol without section, like _cinit before its table is made.
Section == [keep : BOOLEAN,     \* STYP_ABS or STYP_DATA
            refs : Seq(Nat)]

ObjectType == [sections : Seq(Section), optimize : BOOLEAN]

ASSUME InputAssumption ==
    /\ Input \subseteq ObjectType
    /\ \A obj \in Input : \A s \in DOMAIN obj.sections :
          \A k \in DOMAIN obj.sections[s].refs :
              obj.sections[s].refs[k] \in {0} \cup DOMAIN obj.sections

ASSUME DepthAssumption == DepthMax \in Nat \ {0}

VARIABLES
    object,     \* the combined object
    live,       \* section_list, in the order of the numbers
    protected,  \* OPT_FLAGS_PROTECTED_SECTION
    all,        \* symbol -> reloc_count_all_section
    own,        \* symbol -> reloc_count_own_section
    other,      \* symbol -> reloc_count_other_section
    stack,      \* the calls of _check_section_relocations, the innermost last
    visit,      \* the last section that _check_object_relocations has called it for
    phase,
    removing,   \* within gp_coffopt_remove_dead_sections
    limited     \* warned that "Depth of relocations check reached the limit"

vars == <<object, live, protected, all, own, other, stack, visit, phase, removing, limited>>

Sections == DOMAIN object.sections
Refs(s)  == object.sections[s].refs
Roots    == {s \in Sections : object.sections[s].keep}

Last == stack[Len(stack)]

-----------------------------------------------------------------------------
Init ==
    /\ object \in Input
    /\ live = Sections
    /\ protected = {}
    /\ all = [s \in Sections |-> 0]
    /\ own = all
    /\ other = all
    /\ stack = <<>>
    /\ visit = 0
    /\ phase = "clear"
    /\ removing = FALSE
    /\ limited = FALSE

\* Mutant of ClearCounts: no section gets protection immediately.
ClearCountsOnly ==
    /\ phase = "clear"
    /\ protected' = protected \ live
    /\ all' = [s \in Sections |-> IF s \in live THEN 0 ELSE all[s]]
    /\ own' = [s \in Sections |-> IF s \in live THEN 0 ELSE own[s]]
    /\ other' = [s \in Sections |-> IF s \in live THEN 0 ELSE other[s]]
    /\ visit' = 0
    /\ phase' = "check"
    /\ UNCHANGED <<object, live, stack, removing, limited>>

\* _clear_relocation_counts, for what is still on the lists.
ClearCounts ==
    /\ phase = "clear"
    /\ protected' = (protected \ live) \cup (Roots \cap live)
    /\ all' = [s \in Sections |-> IF s \in live THEN 0 ELSE all[s]]
    /\ own' = [s \in Sections |-> IF s \in live THEN 0 ELSE own[s]]
    /\ other' = [s \in Sections |-> IF s \in live THEN 0 ELSE other[s]]
    /\ visit' = 0
    /\ phase' = "check"
    /\ UNCHANGED <<object, live, stack, removing, limited>>

\* Mutant of VisitSection: starts before the first relocation.
VisitBefore ==
    /\ phase = "check"
    /\ stack = <<>>
    /\ \E s \in live :
        /\ s > visit
        /\ \A r \in live : r > visit => s <= r
        /\ stack' = <<[section |-> s, next |-> 0]>>
        /\ visit' = s
    /\ UNCHANGED <<object, live, protected, all, own, other, phase, removing, limited>>

\* _check_object_relocations: the next section of the list, at level 0.
VisitSection ==
    /\ phase = "check"
    /\ stack = <<>>
    /\ \E s \in live :
        /\ s > visit
        /\ \A r \in live : r > visit => s <= r
        /\ stack' = <<[section |-> s, next |-> 1]>>
        /\ visit' = s
    /\ UNCHANGED <<object, live, protected, all, own, other, phase, removing, limited>>

\* Mutant of Count: a section is not counted again.
CountOnce(s, t) ==
    IF t = 0 \/ all[t] > 0 THEN UNCHANGED <<all, own, other>>
    ELSE /\ all' = [all EXCEPT ![t] = @ + 1]
         /\ own' = IF t = s THEN [own EXCEPT ![t] = @ + 1] ELSE own
         /\ other' = IF t # s THEN [other EXCEPT ![t] = @ + 1] ELSE other

\* A relocation of section s to a symbol of section t.
Count(s, t) ==
    IF t = 0 THEN UNCHANGED <<all, own, other>>
    ELSE /\ all' = [all EXCEPT ![t] = @ + 1]
         /\ own' = IF t = s THEN [own EXCEPT ![t] = @ + 1] ELSE own
         /\ other' = IF t # s THEN [other EXCEPT ![t] = @ + 1] ELSE other

\* Mutants of Newly: protection is not handed on by a section that got it
\* itself, or it is handed on by unprotected sections.
NewlyFromRoot(s, t) == t # 0 /\ t # s /\ s \in Roots /\ t \notin protected
NewlyFromAny(s, t)  == t # 0 /\ t # s /\ t \notin protected

\* The section of the symbol gets the protection of the section that refers to it.
Newly(s, t) == t # 0 /\ t # s /\ s \in protected /\ t \notin protected

\* The call for the next level would return at once.
AtLimit == Len(stack) >= DepthMax

\* One turn of the loop of _check_section_relocations.
FollowRelocation ==
    /\ phase = "check"
    /\ stack # <<>>
    /\ Last.next \in DOMAIN Refs(Last.section)
    /\ LET s     == Last.section
           t     == Refs(s)[Last.next]
           moved == [stack EXCEPT ![Len(stack)].next = @ + 1]
       IN  /\ Count(s, t)
           /\ protected' = IF Newly(s, t) THEN protected \cup {t} ELSE protected
           /\ limited' = (limited \/ (Newly(s, t) /\ AtLimit))
           /\ stack' = IF Newly(s, t) /\ ~AtLimit
                       THEN Append(moved, [section |-> t, next |-> 1])
                       ELSE moved
    /\ UNCHANGED <<object, live, visit, phase, removing>>

Return ==
    /\ phase = "check"
    /\ stack # <<>>
    /\ Last.next \notin DOMAIN Refs(Last.section)
    /\ stack' = SubSeq(stack, 1, Len(stack) - 1)
    /\ UNCHANGED <<object, live, protected, all, own, other, visit, phase, removing, limited>>

\* The end of the check: _linker makes one before the optimisation, which
\* makes its own.
EndCheck ==
    /\ phase = "check"
    /\ stack = <<>>
    /\ \A s \in live : s <= visit
    /\ phase' = IF removing THEN "remove" ELSE IF object.optimize THEN "clear" ELSE "done"
    /\ removing' = object.optimize
    /\ UNCHANGED <<object, live, protected, all, own, other, stack, visit, limited>>

\* The relocations of a set of sections that point to symbols of t.
Pointing(S, t) ==
    UNION {{<<s, k>> : k \in {j \in DOMAIN Refs(s) : Refs(s)[j] = t}} : s \in S}

References(S, t) == Cardinality(Pointing(S, t))

Minus(n, m) == IF n > m THEN n - m ELSE 0

\* Mutant of NoMore: the loop goes on when nothing is left to remove.
NeverNoMore(dead) == FALSE

\* The loop ends when it has removed no section.
NoMore(dead) == dead = {}

\* The loop of gp_coffopt_remove_dead_sections: unprotected sections and their
\* symbols go to the dead lists, and their relocations are counted off.
RemoveDeadSections ==
    /\ phase = "remove"
    /\ LET dead == live \ protected
       IN  /\ live' = live \ dead
           /\ all' = [t \in Sections |-> Minus(all[t], References(dead, t))]
           /\ own' = [t \in Sections |-> Minus(own[t], References(dead \cap {t}, t))]
           /\ other' = [t \in Sections |-> Minus(other[t], References(dead \ {t}, t))]
           /\ phase' = IF NoMore(dead) THEN "done" ELSE "clear"
    /\ UNCHANGED <<object, protected, stack, visit, removing, limited>>

Next ==
    \/ ClearCounts \/ VisitSection \/ FollowRelocation \/ Return
    \/ EndCheck \/ RemoveDeadSections

\* One sequential process that runs to its end.
Spec == Init /\ [][Next]_vars /\ WF_vars(Next)
-----------------------------------------------------------------------------
(***************************************************************************)
(* Properties                                                              *)
(***************************************************************************)
\* Every variable keeps its shape.
TypeOK ==
    /\ object \in ObjectType
    /\ live \subseteq Sections
    /\ protected \subseteq Sections
    /\ all \in [Sections -> Nat]
    /\ own \in [Sections -> Nat]
    /\ other \in [Sections -> Nat]
    /\ stack \in Seq([section : Sections, next : Nat \ {0}])
    /\ visit \in Nat
    /\ phase \in {"clear", "check", "remove", "done"}
    /\ removing \in BOOLEAN
    /\ limited \in BOOLEAN

\* No section that stays refers to one that was removed.
Intact == \A s \in live : \A k \in DOMAIN Refs(s) : Refs(s)[k] \in live \cup {0}

\* "A dead section is any section that doesn't have relocations pointing to its
\* symbols": no other is removed, as long as the limit of the depth is not reached.
NothingLiveRemoved == ~limited => Intact

\* What must stay, as the least set: every set of sections that has the
\* absolute and the initialised ones and all that its members refer to.
Keeps(S)  == Roots \subseteq S /\ \A s \in S : \A k \in DOMAIN Refs(s) : Refs(s)[k] \in S \cup {0}
Needed    == {s \in Sections : \A S \in SUBSET Sections : Keeps(S) => s \in S}

\* The optimisation removes all that need not stay, sections that refer only to
\* each other too.
OnlyNeededStays == (phase = "done" /\ object.optimize) => live \subseteq Needed

\* "This optimization will not remove any absolute sections", nor initialised
\* data: whatever the rounds before have removed.
RootsStay == Roots \subseteq live

\* The sections that the recursion was called for: it counts their relocations once
\* more than the list.
CalledAgain == protected \ Roots

\* How often the relocations of a set of sections to symbols of t are counted.
IsCountOf(n, S, t) ==
    LET twice == References(S, t) + References(S \cap CalledAgain, t)
    IN  n \in References(S, t) .. twice /\ (~limited => n = twice)

\* A counter is not always the "Number of relocation references" that gpcoff.h calls
\* it: references from absolute and initialised sections are counted once, those from
\* all others that were kept for the sake of these twice, unless the limit of the depth
\* was reached.  So zero means none, and one means one, what remove_weak and the
\* optimisers rely on; two and more may be half as many.
CountsAreKnown ==
    phase = "done" => \A t \in live :
        /\ all[t] = own[t] + other[t]
        /\ IsCountOf(own[t], {t}, t)
        /\ IsCountOf(other[t], live \ {t}, t)

\* Cycles of references and rounds of removal come to an end.
Terminates == <>(phase = "done")
=============================================================================
