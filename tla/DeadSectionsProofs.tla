-------------------------- MODULE DeadSectionsProofs --------------------------
(***************************************************************************)
(* The dead section optimisation removes what nothing that stays refers    *)
(* to, and only that, for every object: with the condition that the limit  *)
(* of the depth was not reached, as a longer chain of references can lose  *)
(* a live section.  Whatever the limit, one round removes everything, and  *)
(* it is known how often the counters have the relocations that are left.  *)
(***************************************************************************)
EXTENDS DeadSections, FiniteSetTheorems, SequenceTheorems, WellFoundedInduction, TLAPS

Frame == [section : Sections, next : Nat \ {0}]

(***************************************************************************)
(* The invariant.  A protected section has handed on its protection to all *)
(* that it refers to, or a call for it is still on the stack at or before  *)
(* that relocation, or the list has yet to come to it.                     *)
(***************************************************************************)
OnStack(s, k) == \E j \in DOMAIN stack : stack[j].section = s /\ stack[j].next <= k

HandsOn ==
    (phase = "check" /\ ~limited) =>
        \A s \in protected : \A k \in DOMAIN Refs(s) :
            \/ Refs(s)[k] \in protected \cup {0}
            \/ OnStack(s, k)
            \/ s \in live /\ s > visit

HandedOn ==
    (phase = "remove" /\ ~limited) =>
        \A s \in protected : \A k \in DOMAIN Refs(s) : Refs(s)[k] \in protected \cup {0}

RootsProtected == phase \in {"check", "remove"} => Roots \subseteq protected

IInv ==
    /\ TypeOK
    /\ object \in Input
    /\ protected \subseteq Needed
    /\ ~limited => protected \subseteq live
    /\ RootsProtected
    /\ RootsStay
    /\ HandsOn
    /\ HandedOn
    /\ NothingLiveRemoved
    /\ OnlyNeededStays

-----------------------------------------------------------------------------
LEMMA ObjectFacts ==
    ASSUME object \in ObjectType, object \in Input
    PROVE  /\ Sections = 1 .. Len(object.sections) /\ Len(object.sections) \in Nat
           /\ \A s \in Sections : Refs(s) \in Seq(Nat)
           /\ \A s \in Sections : \A k \in DOMAIN Refs(s) : k \in Nat \ {0} /\ Refs(s)[k] \in Sections \cup {0}
           /\ Roots \subseteq Sections
<1>1. object.sections \in Seq(Section)
  BY DEF ObjectType
<1>2. Sections = 1 .. Len(object.sections) /\ Len(object.sections) \in Nat
  BY <1>1 DEF Sections
<1>3. ASSUME NEW s \in Sections PROVE Refs(s) \in Seq(Nat)
  <2>1. object.sections[s] \in Section
    BY <1>1, <1>2, ElementOfSeq
  <2>2. QED
    BY <2>1 DEF Section, Refs
<1>4. ASSUME NEW s \in Sections, NEW k \in DOMAIN Refs(s)
      PROVE  k \in Nat \ {0} /\ Refs(s)[k] \in Sections \cup {0}
  <2>1. k \in Nat \ {0}
    BY <1>3
  <2>2. Refs(s)[k] \in {0} \cup DOMAIN object.sections
    BY InputAssumption DEF Refs, Sections
  <2>3. QED
    BY <2>1, <2>2 DEF Sections
<1>5. QED
  BY <1>2, <1>3, <1>4 DEF Roots

LEMMA ObjectFrame ==
    ASSUME object' = object
    PROVE  /\ Sections' = Sections /\ Roots' = Roots /\ Needed' = Needed
           /\ \A s : Refs(s)' = Refs(s)
BY DEF Sections, Roots, Needed, Keeps, Refs

(***************************************************************************)
(* The relocations that point to a section can be counted.                 *)
(***************************************************************************)
LEMMA PointingFacts ==
    ASSUME object \in ObjectType, object \in Input, NEW S \in SUBSET Sections, NEW t
    PROVE  /\ IsFiniteSet(Pointing(S, t))
           /\ \A p \in Pointing(S, t) :
                p = <<p[1], p[2]>> /\ p[1] \in S /\ p[2] \in DOMAIN Refs(p[1]) /\ Refs(p[1])[p[2]] = t
           /\ \A s \in S : \A k \in DOMAIN Refs(s) : Refs(s)[k] = t => <<s, k>> \in Pointing(S, t)
<1> DEFINE Places(s) == {j \in DOMAIN Refs(s) : Refs(s)[j] = t}
           From(s) == {<<s, k>> : k \in Places(s)}
<1>1. ASSUME NEW s \in S PROVE IsFiniteSet(From(s))
  <2>1. Refs(s) \in Seq(Nat)
    BY ObjectFacts
  <2>2. Places(s) \in SUBSET (1 .. Len(Refs(s))) /\ Len(Refs(s)) \in Int
    BY <2>1
  <2>3. IsFiniteSet(1 .. Len(Refs(s)))
    BY <2>2, FS_Interval
  <2>4. IsFiniteSet(Places(s))
    BY <2>2, <2>3, FS_Subset
  <2>5. [k \in Places(s) |-> <<s, k>>] \in Surjection(Places(s), From(s))
    BY DEF Surjection
  <2>6. QED
    BY <2>4, <2>5, FS_Surjection
<1>2. IsFiniteSet(S)
  <2>1. Sections = 1 .. Len(object.sections) /\ Len(object.sections) \in Int
    BY ObjectFacts
  <2>2. IsFiniteSet(Sections)
    BY <2>1, FS_Interval
  <2>3. QED
    BY <2>2, FS_Subset
<1>3. IsFiniteSet({From(s) : s \in S})
  <2>1. [s \in S |-> From(s)] \in Surjection(S, {From(s) : s \in S})
    BY DEF Surjection
  <2>2. QED
    BY <1>2, <2>1, FS_Surjection
<1>4. IsFiniteSet(UNION {From(s) : s \in S})
  <2>1. \A T \in {From(s) : s \in S} : IsFiniteSet(T)
    BY <1>1
  <2>2. QED
    BY <1>3, <2>1, FS_UNION
<1>5. Pointing(S, t) = UNION {From(s) : s \in S}
  BY DEF Pointing
<1>6. QED
  BY <1>4, <1>5

LEMMA ReferencesType ==
    ASSUME object \in ObjectType, object \in Input, NEW S \in SUBSET Sections, NEW t
    PROVE  References(S, t) \in Nat
BY PointingFacts, FS_CardinalityType DEF References

(***************************************************************************)
(* What a section refers to must stay when it must stay itself.            *)
(***************************************************************************)
LEMMA NeededFacts ==
    ASSUME object \in ObjectType, object \in Input
    PROVE  /\ Roots \subseteq Needed
           /\ \A s \in Needed : \A k \in DOMAIN Refs(s) : Refs(s)[k] \in Needed \cup {0}
<1>1. Roots \subseteq Needed
  BY DEF Needed, Keeps, Roots
<1>2. ASSUME NEW s \in Needed, NEW k \in DOMAIN Refs(s), Refs(s)[k] # 0
      PROVE  Refs(s)[k] \in Needed
  <2>1. s \in Sections
    BY DEF Needed
  <2>2. Refs(s)[k] \in Sections
    BY <1>2, <2>1, ObjectFacts
  <2>3. ASSUME NEW S \in SUBSET Sections, Keeps(S) PROVE Refs(s)[k] \in S
    <3>1. s \in S
      BY <2>3 DEF Needed
    <3>2. QED
      BY <1>2, <2>3, <3>1 DEF Keeps
  <2>4. QED
    BY <2>2, <2>3 DEF Needed
<1>3. QED
  BY <1>1, <1>2

-----------------------------------------------------------------------------
LEMMA InitIInv == Init => IInv
<1> SUFFICES ASSUME Init PROVE IInv
  OBVIOUS
<1>1. /\ object \in Input /\ live = Sections /\ protected = {} /\ stack = <<>> /\ visit = 0
      /\ phase = "clear" /\ removing = FALSE /\ limited = FALSE
      /\ all = [s \in Sections |-> 0] /\ own = all /\ other = all
  BY DEF Init
<1>2. object \in ObjectType
  BY <1>1, InputAssumption
<1>3. TypeOK
  <2>1. all \in [Sections -> Nat] /\ own \in [Sections -> Nat] /\ other \in [Sections -> Nat]
    BY <1>1
  <2>2. stack \in Seq([section : Sections, next : Nat \ {0}])
    BY <1>1
  <2>3. removing \in BOOLEAN /\ limited \in BOOLEAN /\ visit \in Nat
    BY <1>1
  <2>4. QED
    BY <1>1, <1>2, <2>1, <2>2, <2>3 DEF TypeOK
<1>4. Intact
  BY <1>1, <1>2, ObjectFacts DEF Intact
<1>5. RootsStay
  BY <1>1, <1>2, ObjectFacts DEF RootsStay
<1>6. QED
  BY <1>1, <1>3, <1>4, <1>5
     DEF IInv, RootsProtected, HandsOn, HandedOn, NothingLiveRemoved, OnlyNeededStays

LEMMA ClearCountsIInv == IInv /\ ClearCounts => IInv'
<1> SUFFICES ASSUME IInv, ClearCounts PROVE IInv'
  OBVIOUS
<1>1. TypeOK /\ object \in Input /\ object \in ObjectType
  BY DEF IInv, TypeOK
<1>2. /\ protected' = (protected \ live) \cup (Roots \cap live) /\ visit' = 0 /\ phase' = "check"
      /\ UNCHANGED <<object, live, stack, removing, limited>>
  BY DEF ClearCounts
<1>3. TypeOK'
  <2>1. /\ all' = [s \in Sections |-> IF s \in live THEN 0 ELSE all[s]]
        /\ own' = [s \in Sections |-> IF s \in live THEN 0 ELSE own[s]]
        /\ other' = [s \in Sections |-> IF s \in live THEN 0 ELSE other[s]]
    BY DEF ClearCounts
  <2>2. all \in [Sections -> Nat] /\ own \in [Sections -> Nat] /\ other \in [Sections -> Nat]
    BY <1>1 DEF TypeOK
  <2>3. all' \in [Sections -> Nat] /\ own' \in [Sections -> Nat] /\ other' \in [Sections -> Nat]
    BY <2>1, <2>2
  <2>4. protected' \subseteq Sections
    BY <1>1, <1>2, ObjectFacts DEF TypeOK
  <2>5. QED
    BY <1>1, <1>2, <2>3, <2>4, ObjectFrame DEF TypeOK
<1>4. protected' \subseteq Needed'
  BY <1>1, <1>2, NeededFacts, ObjectFrame DEF IInv
<1>5. ~limited => protected' = Roots /\ Roots \subseteq live
  BY <1>2 DEF IInv, RootsStay
<1>6. RootsProtected' /\ RootsStay'
  BY <1>2, ObjectFrame DEF IInv, RootsProtected, RootsStay
<1>7. HandsOn'
  <2>1. \A s \in Roots : s > 0
    BY <1>1, ObjectFacts
  <2>2. QED
    BY <1>2, <1>5, <2>1 DEF HandsOn
<1>8. HandedOn' /\ OnlyNeededStays'
  BY <1>2 DEF HandedOn, OnlyNeededStays
<1>9. NothingLiveRemoved'
  BY <1>2, ObjectFrame DEF IInv, NothingLiveRemoved, Intact
<1>10. QED
  BY <1>1, <1>2, <1>3, <1>4, <1>5, <1>6, <1>7, <1>8, <1>9 DEF IInv

LEMMA VisitSectionIInv == IInv /\ VisitSection => IInv'
<1> SUFFICES ASSUME IInv, VisitSection PROVE IInv'
  OBVIOUS
<1>1. TypeOK /\ object \in Input /\ object \in ObjectType /\ live \subseteq Sections
  BY DEF IInv, TypeOK
<1>2. PICK s \in live : /\ s > visit
                        /\ \A r \in live : r > visit => s <= r
                        /\ stack' = <<[section |-> s, next |-> 1]>>
                        /\ visit' = s
  BY DEF VisitSection
<1>3. /\ phase = "check" /\ stack = <<>>
      /\ UNCHANGED <<object, live, protected, all, own, other, phase, removing, limited>>
  BY DEF VisitSection
<1>4. s \in Sections /\ s \in Nat /\ \A r \in live : r \in Nat
  BY <1>1, ObjectFacts
<1>5. TypeOK'
  <2>1. stack' \in Seq([section : Sections, next : Nat \ {0}])
    BY <1>2, <1>4
  <2>2. visit' \in Nat
    BY <1>2, <1>4
  <2>3. QED
    BY <1>1, <1>3, <2>1, <2>2, ObjectFrame DEF TypeOK
<1>6. HandsOn'
  <2> SUFFICES ASSUME ~limited, NEW r \in protected, NEW k \in DOMAIN Refs(r)
               PROVE  \/ Refs(r)[k] \in protected \cup {0}
                      \/ OnStack(r, k)'
                      \/ r \in live /\ r > s
    BY <1>2, <1>3, ObjectFrame DEF HandsOn
  <2>1. ~OnStack(r, k)
    BY <1>3 DEF OnStack
  <2>2. Refs(r)[k] \in protected \cup {0} \/ (r \in live /\ r > visit)
    BY <1>3, <2>1 DEF IInv, HandsOn
  <2>3. CASE r \in live /\ r > visit /\ r = s
    <3>1. k >= 1
      BY <1>1, <1>4, <2>3, ObjectFacts
    <3>2. 1 \in DOMAIN stack' /\ stack'[1].section = r /\ stack'[1].next <= k
      BY <1>2, <2>3, <3>1
    <3>3. QED
      BY <3>2 DEF OnStack
  <2>4. CASE r \in live /\ r > visit /\ r # s
    BY <1>2, <1>4, <2>4
  <2>5. QED
    BY <2>2, <2>3, <2>4
<1>7. HandedOn' /\ OnlyNeededStays'
  BY <1>3 DEF HandedOn, OnlyNeededStays
<1>8. NothingLiveRemoved' /\ RootsProtected' /\ RootsStay' /\ (protected \subseteq Needed)'
      /\ (~limited => protected \subseteq live)'
  BY <1>3, ObjectFrame DEF IInv, NothingLiveRemoved, Intact, RootsProtected, RootsStay
<1>9. QED
  BY <1>1, <1>3, <1>5, <1>6, <1>7, <1>8 DEF IInv

(***************************************************************************)
(* The stack after a turn of the loop: the call moves on to its next       *)
(* relocation, and the call for a newly protected section comes on top.    *)
(***************************************************************************)
LEMMA MovedStack ==
    ASSUME TypeOK, stack # <<>>, NEW moved, moved = [stack EXCEPT ![Len(stack)].next = @ + 1]
    PROVE  /\ Len(stack) \in Nat \ {0} /\ Last \in Frame
           /\ moved \in Seq(Frame) /\ Len(moved) = Len(stack)
           /\ \A j \in DOMAIN stack : moved[j].section = stack[j].section
           /\ \A j \in DOMAIN stack : j # Len(stack) => moved[j].next = stack[j].next
           /\ moved[Len(stack)].next = Last.next + 1
<1>1. stack \in Seq(Frame)
  BY DEF TypeOK, Frame
<1>2. Len(stack) \in Nat \ {0} /\ DOMAIN stack = 1 .. Len(stack)
  BY <1>1
<1>3. \A j \in DOMAIN stack : stack[j] \in Frame
  BY <1>1, <1>2, ElementOfSeq
<1>4. Last \in Frame /\ Last.next \in Nat /\ Last = stack[Len(stack)]
  BY <1>2, <1>3 DEF Last, Frame
<1>5. \A j \in DOMAIN stack :
        moved[j] = IF j = Len(stack) THEN [stack[j] EXCEPT !.next = @ + 1] ELSE stack[j]
  BY <1>2
<1>6. DOMAIN moved = DOMAIN stack
  BY <1>2
<1>7. \A j \in DOMAIN stack : /\ moved[j] \in Frame
                              /\ moved[j].section = stack[j].section
                              /\ j # Len(stack) => moved[j].next = stack[j].next
                              /\ j = Len(stack) => moved[j].next = stack[j].next + 1
  BY <1>3, <1>5 DEF Frame
<1>8. moved \in [1 .. Len(stack) -> Frame]
  <2>1. moved = [j \in 1 .. Len(stack) |-> moved[j]]
    BY <1>1, <1>2
  <2>2. QED
    BY <1>2, <1>7, <2>1
<1>9. moved \in Seq(Frame) /\ Len(moved) = Len(stack)
  <2>1. moved \in Seq(Frame)
    BY <1>2, <1>8, SeqDef
  <2>2. DOMAIN moved = 1 .. Len(moved) /\ Len(moved) \in Nat
    BY <2>1
  <2>3. QED
    BY <1>2, <1>6, <2>1, <2>2
<1>10. QED
  BY <1>2, <1>4, <1>7, <1>9

LEMMA FollowRelocationIInv == IInv /\ FollowRelocation => IInv'
<1> SUFFICES ASSUME IInv, FollowRelocation PROVE IInv'
  OBVIOUS
<1> DEFINE s     == Last.section
           t     == Refs(s)[Last.next]
<1>0. PICK moved : moved = [stack EXCEPT ![Len(stack)].next = @ + 1]
  OBVIOUS
<1>1. TypeOK /\ object \in Input /\ object \in ObjectType /\ live \subseteq Sections
  BY DEF IInv, TypeOK
<1>2. /\ phase = "check" /\ stack # <<>> /\ Last.next \in DOMAIN Refs(s)
      /\ Count(s, t)
      /\ protected' = IF Newly(s, t) THEN protected \cup {t} ELSE protected
      /\ limited' = (limited \/ (Newly(s, t) /\ AtLimit))
      /\ stack' = IF Newly(s, t) /\ ~AtLimit THEN Append(moved, [section |-> t, next |-> 1]) ELSE moved
      /\ UNCHANGED <<object, live, visit, phase, removing>>
  BY <1>0 DEF FollowRelocation
<1>3. /\ Len(stack) \in Nat \ {0} /\ Last \in Frame /\ moved \in Seq(Frame) /\ Len(moved) = Len(stack)
      /\ \A j \in DOMAIN stack : moved[j].section = stack[j].section
      /\ \A j \in DOMAIN stack : j # Len(stack) => moved[j].next = stack[j].next
      /\ moved[Len(stack)].next = Last.next + 1
  BY <1>0, <1>1, <1>2, MovedStack
<1>4. s \in Sections /\ Last.next \in Nat \ {0} /\ t \in Sections \cup {0}
  <2>1. s \in Sections /\ Last.next \in Nat \ {0}
    BY <1>3 DEF Frame
  <2>2. QED
    BY <1>1, <1>2, <2>1, ObjectFacts
<1>5. Newly(s, t) => s \in protected /\ t \in Sections /\ [section |-> t, next |-> 1] \in Frame
  BY <1>4 DEF Newly, Frame
<1>6. stack \in Seq(Frame) /\ DOMAIN stack = 1 .. Len(stack)
  BY <1>1 DEF TypeOK, Frame
<1>7. /\ stack' \in Seq(Frame)
      /\ \A j \in DOMAIN stack : j \in DOMAIN stack' /\ stack'[j] = moved[j]
      /\ Len(stack') <= Len(stack) + 1
      /\ AtLimit => Len(stack') = Len(stack)
      /\ (Newly(s, t) /\ ~AtLimit) => /\ Len(stack) + 1 \in DOMAIN stack'
                                      /\ stack'[Len(stack) + 1] = [section |-> t, next |-> 1]
  <2>1. CASE Newly(s, t) /\ ~AtLimit
    <3>1. stack' = Append(moved, [section |-> t, next |-> 1])
      BY <1>2, <2>1
    <3>2. /\ stack' \in Seq(Frame) /\ Len(stack') = Len(stack) + 1
          /\ \A j \in 1 .. Len(stack) : stack'[j] = moved[j]
          /\ stack'[Len(stack) + 1] = [section |-> t, next |-> 1]
      BY <1>3, <1>5, <2>1, <3>1, AppendProperties
    <3>3. DOMAIN stack' = 1 .. (Len(stack) + 1)
      BY <3>2
    <3>4. QED
      BY <1>3, <1>6, <2>1, <3>2, <3>3
  <2>2. CASE ~(Newly(s, t) /\ ~AtLimit)
    <3>1. stack' = moved
      BY <1>2, <2>2
    <3>2. DOMAIN moved = 1 .. Len(stack)
      BY <1>3
    <3>3. QED
      BY <1>3, <1>6, <2>2, <3>1, <3>2
  <2>3. QED
    BY <2>1, <2>2
<1>8. TypeOK'
  <2>1. all \in [Sections -> Nat] /\ own \in [Sections -> Nat] /\ other \in [Sections -> Nat]
    BY <1>1 DEF TypeOK
  <2>2. all' \in [Sections -> Nat] /\ own' \in [Sections -> Nat] /\ other' \in [Sections -> Nat]
    <3>1. CASE t = 0
      BY <1>2, <2>1, <3>1 DEF Count
    <3>2. CASE t # 0
      <4>1. t \in Sections /\ all[t] + 1 \in Nat /\ own[t] + 1 \in Nat /\ other[t] + 1 \in Nat
        BY <1>4, <2>1, <3>2
      <4>2. /\ all' = [all EXCEPT ![t] = @ + 1]
            /\ own' = IF t = s THEN [own EXCEPT ![t] = @ + 1] ELSE own
            /\ other' = IF t # s THEN [other EXCEPT ![t] = @ + 1] ELSE other
        BY <1>2, <3>2 DEF Count
      <4>3. QED
        BY <2>1, <4>1, <4>2
    <3>3. QED
      BY <3>1, <3>2
  <2>3. protected' \subseteq Sections
    BY <1>1, <1>2, <1>5 DEF TypeOK
  <2>4. limited' \in BOOLEAN
    BY <1>1, <1>2 DEF TypeOK
  <2>5. stack' \in Seq([section : Sections, next : Nat \ {0}])
    BY <1>7 DEF Frame
  <2>6. QED
    BY <1>1, <1>2, <2>2, <2>3, <2>4, <2>5, ObjectFrame DEF TypeOK
<1>9. (protected \subseteq Needed)'
  <2>1. Newly(s, t) => t \in Needed
    <3>1. Newly(s, t) => s \in Needed /\ t # 0
      BY DEF Newly, IInv
    <3>2. QED
      BY <1>1, <1>2, <3>1, NeededFacts
  <2>2. QED
    BY <1>2, <2>1, ObjectFrame DEF IInv
<1>10. (~limited => protected \subseteq live)'
  <2> SUFFICES ASSUME ~limited' PROVE protected' \subseteq live
    BY <1>2
  <2>1. protected \subseteq live /\ Intact
    BY <1>2 DEF IInv, NothingLiveRemoved
  <2>2. Newly(s, t) => t \in live
    BY <1>2, <1>5, <2>1 DEF Intact, Newly
  <2>3. QED
    BY <1>2, <2>1, <2>2
<1>11. HandsOn'
  <2> SUFFICES ASSUME ~limited', NEW r \in protected', NEW k \in DOMAIN Refs(r)
               PROVE  \/ Refs(r)[k] \in protected' \cup {0}
                      \/ OnStack(r, k)'
                      \/ r \in live /\ r > visit
    BY <1>2, ObjectFrame DEF HandsOn
  <2>1. r \in Sections /\ k \in Nat \ {0}
    <3>1. r \in Sections
      BY <1>1, <1>2, <1>5 DEF TypeOK
    <3>2. QED
      BY <1>1, <3>1, ObjectFacts
  <2>2. CASE r \notin protected
    <3>1. Newly(s, t) /\ r = t /\ ~AtLimit
      BY <1>2, <2>2
    <3>2. /\ Len(stack) + 1 \in DOMAIN stack'
          /\ stack'[Len(stack) + 1].section = r /\ stack'[Len(stack) + 1].next <= k
      BY <1>7, <2>1, <3>1
    <3>3. QED
      BY <3>2 DEF OnStack
  <2>3. CASE r \in protected /\ OnStack(r, k)
    <3>1. PICK j \in DOMAIN stack : stack[j].section = r /\ stack[j].next <= k
      BY <2>3 DEF OnStack
    <3>2. CASE j # Len(stack)
      <4>1. j \in DOMAIN stack' /\ stack'[j].section = r /\ stack'[j].next <= k
        BY <1>3, <1>7, <3>1, <3>2
      <4>2. QED
        BY <4>1 DEF OnStack
    <3>3. CASE j = Len(stack) /\ k # Last.next
      <4>1. Last.next <= k /\ Last.next + 1 <= k
        BY <1>4, <2>1, <3>1, <3>3 DEF Last
      <4>2. j \in DOMAIN stack' /\ stack'[j].section = r /\ stack'[j].next <= k
        BY <1>3, <1>7, <3>1, <3>3, <4>1
      <4>3. QED
        BY <4>2 DEF OnStack
    <3>4. CASE j = Len(stack) /\ k = Last.next
      <4>1. r = s /\ Refs(r)[k] = t
        BY <3>1, <3>4 DEF Last
      <4>2. t = 0 \/ t = s \/ t \in protected \/ Newly(s, t)
        BY <2>3, <4>1 DEF Newly
      <4>3. QED
        BY <1>2, <2>3, <4>1, <4>2
    <3>5. QED
      BY <3>2, <3>3, <3>4
  <2>4. CASE r \in protected /\ ~OnStack(r, k)
    BY <1>2, <2>4 DEF IInv, HandsOn
  <2>5. QED
    BY <2>2, <2>3, <2>4
<1>12. RootsProtected' /\ RootsStay'
  BY <1>2, ObjectFrame DEF IInv, RootsProtected, RootsStay
<1>13. NothingLiveRemoved'
  BY <1>2, ObjectFrame DEF IInv, NothingLiveRemoved, Intact
<1>14. HandedOn' /\ OnlyNeededStays'
  BY <1>2 DEF HandedOn, OnlyNeededStays
<1>15. QED
  BY <1>1, <1>2, <1>8, <1>9, <1>10, <1>11, <1>12, <1>13, <1>14 DEF IInv

LEMMA ReturnIInv == IInv /\ Return => IInv'
<1> SUFFICES ASSUME IInv, Return PROVE IInv'
  OBVIOUS
<1>1. TypeOK /\ object \in Input /\ object \in ObjectType
  BY DEF IInv, TypeOK
<1>2. /\ phase = "check" /\ stack # <<>> /\ Last.next \notin DOMAIN Refs(Last.section)
      /\ stack' = SubSeq(stack, 1, Len(stack) - 1)
      /\ UNCHANGED <<object, live, protected, all, own, other, visit, phase, removing, limited>>
  BY DEF Return
<1>3. stack \in Seq(Frame) /\ Len(stack) \in Nat \ {0} /\ DOMAIN stack = 1 .. Len(stack)
  BY <1>1, <1>2 DEF TypeOK, Frame
<1>4. \A j \in DOMAIN stack : stack[j] \in Frame
  BY <1>3, ElementOfSeq
<1>5. /\ stack' \in Seq(Frame) /\ Len(stack') = Len(stack) - 1
      /\ \A j \in 1 .. (Len(stack) - 1) : stack'[j] = stack[j]
  <2>1. \A j \in 1 .. (Len(stack) - 1) : stack[j] \in Frame
    BY <1>3, <1>4
  <2>2. QED
    BY <1>2, <1>3, <2>1, SubSeqProperties
<1>6. TypeOK'
  <2>1. stack' \in Seq([section : Sections, next : Nat \ {0}])
    BY <1>5 DEF Frame
  <2>2. QED
    BY <1>1, <1>2, <2>1, ObjectFrame DEF TypeOK
<1>7. HandsOn'
  <2> SUFFICES ASSUME ~limited, NEW r \in protected, NEW k \in DOMAIN Refs(r), OnStack(r, k)
               PROVE  OnStack(r, k)'
    BY <1>2, ObjectFrame DEF IInv, HandsOn
  <2>1. PICK j \in DOMAIN stack : stack[j].section = r /\ stack[j].next <= k
    BY DEF OnStack
  <2>2. j # Len(stack)
    <3>1. SUFFICES ASSUME j = Len(stack) PROVE FALSE
      OBVIOUS
    <3>2. Last.section = r /\ Last.next <= k /\ Last.next \in Nat \ {0}
      BY <1>4, <2>1, <3>1 DEF Last, Frame
    <3>3. r \in Sections
      BY <1>1 DEF TypeOK
    <3>4. Refs(r) \in Seq(Nat)
      BY <1>1, <3>3, ObjectFacts
    <3>5. QED
      BY <1>2, <3>2, <3>4
  <2>3. j \in DOMAIN stack' /\ stack'[j] = stack[j]
    BY <1>3, <1>5, <2>2
  <2>4. QED
    BY <2>1, <2>3 DEF OnStack
<1>8. HandedOn' /\ OnlyNeededStays'
  BY <1>2 DEF HandedOn, OnlyNeededStays
<1>9. NothingLiveRemoved' /\ RootsProtected' /\ RootsStay' /\ (protected \subseteq Needed)'
       /\ (~limited => protected \subseteq live)'
  BY <1>2, ObjectFrame DEF IInv, NothingLiveRemoved, Intact, RootsProtected, RootsStay
<1>10. QED
  BY <1>1, <1>2, <1>6, <1>7, <1>8, <1>9 DEF IInv

(***************************************************************************)
(* When the list is at its end, what is protected is closed.               *)
(***************************************************************************)
LEMMA EndCheckIInv == IInv /\ EndCheck => IInv'
<1> SUFFICES ASSUME IInv, EndCheck PROVE IInv'
  OBVIOUS
<1>1. TypeOK /\ object \in Input /\ object \in ObjectType /\ live \subseteq Sections /\ visit \in Nat
  BY DEF IInv, TypeOK
<1>2. /\ phase = "check" /\ stack = <<>> /\ \A s \in live : s <= visit
      /\ phase' = IF removing THEN "remove" ELSE IF object.optimize THEN "clear" ELSE "done"
      /\ removing' = object.optimize
      /\ UNCHANGED <<object, live, protected, all, own, other, stack, visit, limited>>
  BY DEF EndCheck
<1>3. object.optimize \in BOOLEAN
  BY <1>1 DEF ObjectType
<1>4. TypeOK'
  BY <1>1, <1>2, <1>3, ObjectFrame DEF TypeOK
<1>5. HandedOn'
  <2> SUFFICES ASSUME ~limited, NEW r \in protected, NEW k \in DOMAIN Refs(r)
               PROVE  Refs(r)[k] \in protected \cup {0}
    BY <1>2, ObjectFrame DEF HandedOn
  <2>1. ~OnStack(r, k)
    BY <1>2 DEF OnStack
  <2>2. ~(r \in live /\ r > visit)
    <3>1. r \in live => r \in Nat /\ r <= visit
      BY <1>1, <1>2, ObjectFacts
    <3>2. QED
      BY <1>1, <3>1
  <2>3. QED
    BY <1>2, <2>1, <2>2 DEF IInv, HandsOn
<1>6. RootsProtected' /\ RootsStay'
  BY <1>2, ObjectFrame DEF IInv, RootsProtected, RootsStay
<1>7. HandsOn' /\ OnlyNeededStays'
  BY <1>2 DEF HandsOn, OnlyNeededStays
<1>8. NothingLiveRemoved' /\ (protected \subseteq Needed)'
      /\ (~limited => protected \subseteq live)'
  BY <1>2, ObjectFrame DEF IInv, NothingLiveRemoved, Intact
<1>9. QED
  BY <1>1, <1>2, <1>4, <1>5, <1>6, <1>7, <1>8 DEF IInv

LEMMA RemoveDeadSectionsIInv == IInv /\ RemoveDeadSections => IInv'
<1> SUFFICES ASSUME IInv, RemoveDeadSections PROVE IInv'
  OBVIOUS
<1> DEFINE dead == live \ protected
<1>1. TypeOK /\ object \in Input /\ object \in ObjectType /\ live \subseteq Sections
  BY DEF IInv, TypeOK
<1>2. /\ phase = "remove" /\ live' = live \ dead
      /\ phase' = IF NoMore(dead) THEN "done" ELSE "clear"
      /\ UNCHANGED <<object, protected, stack, visit, removing, limited>>
  BY DEF RemoveDeadSections
<1>3. TypeOK'
  <2>1. /\ all' = [t \in Sections |-> Minus(all[t], References(dead, t))]
        /\ own' = [t \in Sections |-> Minus(own[t], References(dead \cap {t}, t))]
        /\ other' = [t \in Sections |-> Minus(other[t], References(dead \ {t}, t))]
    BY DEF RemoveDeadSections
  <2>2. \A n, m \in Nat : Minus(n, m) \in Nat
    BY DEF Minus
  <2>3. all \in [Sections -> Nat] /\ own \in [Sections -> Nat] /\ other \in [Sections -> Nat]
    BY <1>1 DEF TypeOK
  <2>4. ASSUME NEW t \in Sections
        PROVE  /\ References(dead, t) \in Nat
               /\ References(dead \cap {t}, t) \in Nat
               /\ References(dead \ {t}, t) \in Nat
    <3>1. /\ dead \in SUBSET Sections /\ dead \cap {t} \in SUBSET Sections
          /\ dead \ {t} \in SUBSET Sections
      BY <1>1
    <3>2. QED
      BY <1>1, <3>1, ReferencesType
  <2>5. all' \in [Sections -> Nat] /\ own' \in [Sections -> Nat] /\ other' \in [Sections -> Nat]
    BY <2>1, <2>2, <2>3, <2>4
  <2>6. QED
    BY <1>1, <1>2, <2>5, ObjectFrame DEF TypeOK
<1>4. RootsProtected' /\ RootsStay'
  BY <1>2, ObjectFrame DEF IInv, RootsProtected, RootsStay
<1>5. NothingLiveRemoved'
  <2> SUFFICES ASSUME ~limited, NEW s \in live', NEW k \in DOMAIN Refs(s)
               PROVE  Refs(s)[k] \in live' \cup {0}
    BY <1>2, ObjectFrame DEF NothingLiveRemoved, Intact
  <2>1. s \in live /\ s \in protected
    BY <1>2
  <2>2. Refs(s)[k] \in live \cup {0}
    BY <2>1 DEF IInv, NothingLiveRemoved, Intact
  <2>3. Refs(s)[k] \in protected \cup {0}
    BY <1>2, <2>1 DEF IInv, HandedOn
  <2>4. QED
    BY <1>2, <2>2, <2>3
<1>6. (~limited => protected \subseteq live)'
  BY <1>2 DEF IInv
<1>7. OnlyNeededStays'
  BY <1>2, ObjectFrame DEF IInv, OnlyNeededStays
<1>8. HandsOn' /\ HandedOn'
  BY <1>2 DEF HandsOn, HandedOn
<1>9. (protected \subseteq Needed)'
  BY <1>2, ObjectFrame DEF IInv
<1>10. QED
  BY <1>1, <1>2, <1>3, <1>4, <1>5, <1>6, <1>7, <1>8, <1>9 DEF IInv

LEMMA StutterIInv == IInv /\ UNCHANGED vars => IInv'
<1> SUFFICES ASSUME IInv, UNCHANGED vars PROVE IInv'
  OBVIOUS
<1>1. UNCHANGED <<object, live, protected, all, own, other, stack, visit, phase, removing, limited>>
  BY DEF vars
<1>2. TypeOK'
  BY <1>1, ObjectFrame DEF IInv, TypeOK
<1>3. HandsOn' /\ HandedOn'
  BY <1>1, ObjectFrame DEF IInv, HandsOn, HandedOn, OnStack
<1>4. NothingLiveRemoved' /\ RootsProtected' /\ RootsStay' /\ OnlyNeededStays'
  BY <1>1, ObjectFrame
     DEF IInv, NothingLiveRemoved, Intact, RootsProtected, RootsStay, OnlyNeededStays
<1>5. QED
  BY <1>1, <1>2, <1>3, <1>4, ObjectFrame DEF IInv

THEOREM Invariance == Spec => []IInv
<1>1. Init => IInv
  BY InitIInv
<1>2. IInv /\ [Next]_vars => IInv'
  BY ClearCountsIInv, VisitSectionIInv, FollowRelocationIInv, ReturnIInv, EndCheckIInv,
     RemoveDeadSectionsIInv, StutterIInv DEF Next
<1>3. QED
  BY <1>1, <1>2, PTL DEF Spec

-----------------------------------------------------------------------------
(***************************************************************************)
(* The variables keep their shapes, the counters of relocations included.  *)
(***************************************************************************)
THEOREM TypeCorrect == Spec => []TypeOK
<1>1. IInv => TypeOK
  BY DEF IInv
<1>2. QED
  BY <1>1, Invariance, PTL

(***************************************************************************)
(* For every object: without the warning about the depth, no section that  *)
(* another one still refers to is removed.                                 *)
(***************************************************************************)
THEOREM LiveKept == Spec => []NothingLiveRemoved
<1>1. IInv => NothingLiveRemoved
  BY DEF IInv
<1>2. QED
  BY <1>1, Invariance, PTL

(***************************************************************************)
(* For every object: what is left in the end is needed, whatever the depth.*)
(***************************************************************************)
THEOREM DeadRemoved == Spec => []OnlyNeededStays
<1>1. IInv => OnlyNeededStays
  BY DEF IInv
<1>2. QED
  BY <1>1, Invariance, PTL

(***************************************************************************)
(* Absolute sections and initialised data are never removed.               *)
(***************************************************************************)
THEOREM RootsKept == Spec => []RootsStay
<1>1. IInv => RootsStay
  BY DEF IInv
<1>2. QED
  BY <1>1, Invariance, PTL

-----------------------------------------------------------------------------
(***************************************************************************)
(* The rounds of the removal.  After the first one a check does again,     *)
(* step by step, what the last check did, but for the visits of removed    *)
(* sections, which were not protected and handed on nothing: so it         *)
(* protects the same sections again, at any limit of the depth.            *)
(*                                                                         *)
(* A check is recorded as the list of its states.                          *)
(***************************************************************************)
State == [protected : SUBSET Sections, stack : Seq(Frame), visit : Nat]

Now   == [protected |-> protected, stack |-> stack, visit |-> visit]
Start == [protected |-> Roots, stack |-> <<>>, visit |-> 0]

Top(calls)   == calls[Len(calls)]
InList(calls) == Top(calls).next \in DOMAIN Refs(Top(calls).section)
Target(calls) == Refs(Top(calls).section)[Top(calls).next]

Protects(set, calls) ==
    /\ InList(calls)
    /\ Target(calls) # 0 /\ Target(calls) # Top(calls).section
    /\ Top(calls).section \in set /\ Target(calls) \notin set

NextProtected(set, calls) == IF Protects(set, calls) THEN set \cup {Target(calls)} ELSE set

NextStack(set, calls) ==
    IF ~InList(calls) THEN SubSeq(calls, 1, Len(calls) - 1)
    ELSE LET moved == [calls EXCEPT ![Len(calls)].next = @ + 1]
         IN  IF Protects(set, calls) /\ ~(Len(calls) >= DepthMax)
             THEN Append(moved, [section |-> Target(calls), next |-> 1])
             ELSE moved

Visits(x, y) ==
    /\ x.stack = <<>>
    /\ y.visit \in Sections
    /\ x.visit < y.visit
    /\ \A r \in Sections : x.visit < r => y.visit <= r
    /\ y.stack = <<[section |-> y.visit, next |-> 1]>>
    /\ y.protected = x.protected

Follows(x, y) ==
    /\ x.stack # <<>>
    /\ y.visit = x.visit
    /\ y.stack = NextStack(x.protected, x.stack)
    /\ y.protected = NextProtected(x.protected, x.stack)

IsCheck(tr, n) ==
    /\ tr[1] = Start
    /\ \A i \in 1 .. (n - 1) : Visits(tr[i], tr[i + 1]) \/ Follows(tr[i], tr[i + 1])

IsWhole(tr, n) ==
    /\ IsCheck(tr, n)
    /\ tr[n].stack = <<>>
    /\ \A s \in Sections : s <= tr[n].visit

\* The state of the check is state i of the recorded one, which may have visited
\* removed sections besides.
At(tr, i) ==
    /\ tr[i].protected = protected
    /\ tr[i].stack = stack
    /\ visit <= tr[i].visit
    /\ \A s \in live : ~(visit < s /\ s <= tr[i].visit)

IsRecorded == \E n \in Nat \ {0} : \E tr \in [1 .. n -> State] : IsCheck(tr, n) /\ tr[n] = Now

FirstRound ==
    /\ live = Sections
    /\ phase \in {"check", "remove"} => IsRecorded
    /\ phase = "remove" => \A s \in Sections : s <= visit

LaterRound ==
    \E n \in Nat \ {0} : \E tr \in [1 .. n -> State] :
        /\ IsWhole(tr, n)
        /\ live = tr[n].protected
        /\ IF phase = "check" THEN \E i \in 1 .. n : At(tr, i) ELSE protected = live

Replay ==
    /\ phase # "check" => stack = <<>>
    /\ FirstRound \/ LaterRound

LEMMA CheckFrame ==
    ASSUME object' = object
    PROVE  /\ State' = State
           /\ \A tr, n : IsCheck(tr, n)' <=> IsCheck(tr, n)
           /\ \A tr, n : IsWhole(tr, n)' <=> IsWhole(tr, n)
<1>1. Sections' = Sections /\ Roots' = Roots /\ \A s : Refs(s)' = Refs(s)
  BY ObjectFrame
<1>2. State' = State /\ Start' = Start
  BY <1>1 DEF State, Start, Frame
<1>3. \A calls : /\ InList(calls)' <=> InList(calls)
                 /\ Target(calls)' = Target(calls)
  BY <1>1 DEF InList, Target, Top
<1>4. \A set, calls : Protects(set, calls)' <=> Protects(set, calls)
  BY <1>3 DEF Protects, Top
<1>5. \A set, calls : NextProtected(set, calls)' = NextProtected(set, calls)
  BY <1>3, <1>4 DEF NextProtected
<1>6. \A set, calls : NextStack(set, calls)' = NextStack(set, calls)
  BY <1>3, <1>4 DEF NextStack
<1>7. \A x, y : (Visits(x, y)' <=> Visits(x, y)) /\ (Follows(x, y)' <=> Follows(x, y))
  BY <1>1, <1>5, <1>6 DEF Visits, Follows
<1>8. \A tr, n : IsCheck(tr, n)' <=> IsCheck(tr, n)
  BY <1>2, <1>7 DEF IsCheck
<1>9. QED
  BY <1>1, <1>2, <1>8 DEF IsWhole

(***************************************************************************)
(* The actions of a check are the steps of a recorded one.                 *)
(***************************************************************************)
LEMMA ActionFollows ==
    ASSUME TypeOK, FollowRelocation \/ Return
    PROVE  /\ phase = "check" /\ stack # <<>> /\ UNCHANGED <<object, live, visit, phase>>
           /\ stack' = NextStack(protected, stack)
           /\ protected' = NextProtected(protected, stack)
<1>1. Top(stack) = Last
  BY DEF Top, Last
<1>2. CASE Return
  <2>1. ~InList(stack)
    BY <1>1, <1>2 DEF Return, InList
  <2>2. QED
    BY <1>2, <2>1 DEF Return, NextStack, NextProtected, Protects
<1>3. CASE FollowRelocation
  <2>1. InList(stack)
    BY <1>1, <1>3 DEF FollowRelocation, InList
  <2>2. Target(stack) = Refs(Last.section)[Last.next]
    BY <1>1 DEF Target
  <2>3. Protects(protected, stack) <=> Newly(Last.section, Target(stack))
    BY <1>1, <2>1 DEF Protects, Newly
  <2>4. /\ phase = "check" /\ stack # <<>> /\ UNCHANGED <<object, live, visit, phase>>
        /\ protected' = IF Newly(Last.section, Target(stack)) THEN protected \cup {Target(stack)} ELSE protected
        /\ stack' = IF Newly(Last.section, Target(stack)) /\ ~AtLimit
                    THEN Append([stack EXCEPT ![Len(stack)].next = @ + 1], [section |-> Target(stack), next |-> 1])
                    ELSE [stack EXCEPT ![Len(stack)].next = @ + 1]
    BY <1>3, <2>2 DEF FollowRelocation
  <2>5. protected' = NextProtected(protected, stack)
    BY <2>3, <2>4 DEF NextProtected
  <2>6. stack' = NextStack(protected, stack)
    BY <2>1, <2>3, <2>4 DEF NextStack, AtLimit
  <2>7. QED
    BY <2>4, <2>5, <2>6
<1>4. QED
  BY <1>2, <1>3

LEMMA LeastElement ==
    ASSUME NEW S \in SUBSET Nat, S # {}
    PROVE  \E x \in S : \A y \in S : x <= y
<1>1. \A x, y \in Nat : <<y, x>> \in OpToRel(<, Nat) <=> y < x
  BY DEF OpToRel
<1>2. PICK x \in S : \A y \in S : ~(<<y, x>> \in OpToRel(<, Nat))
  BY NatLessThanWellFounded, WFMin
<1>3. ASSUME NEW y \in S PROVE x <= y
  <2>1. x \in Nat /\ y \in Nat
    OBVIOUS
  <2>2. ~(y < x)
    BY <1>1, <1>2, <2>1
  <2>3. QED
    BY <2>1, <2>2
<1>4. QED
  BY <1>3

\* In a recorded check protection and the place in the list only grow.
LEMMA RecordedStep ==
    ASSUME object \in ObjectType, object \in Input,
           NEW n \in Nat \ {0}, NEW tr \in [1 .. n -> State], IsCheck(tr, n),
           NEW i \in 1 .. n, i # n
    PROVE  /\ i + 1 \in 1 .. n /\ tr[i] \in State /\ tr[i + 1] \in State
           /\ Visits(tr[i], tr[i + 1]) \/ Follows(tr[i], tr[i + 1])
           /\ tr[i].protected \subseteq tr[i + 1].protected
           /\ tr[i].visit <= tr[i + 1].visit
<1>1. i \in 1 .. (n - 1) /\ i + 1 \in 1 .. n
  OBVIOUS
<1>2. Visits(tr[i], tr[i + 1]) \/ Follows(tr[i], tr[i + 1])
  BY <1>1 DEF IsCheck
<1>3. tr[i] \in State /\ tr[i + 1] \in State
  BY <1>1
<1>4. tr[i].visit \in Nat /\ tr[i + 1].visit \in Nat
  BY <1>3 DEF State
<1>5. tr[i].protected \subseteq tr[i + 1].protected
  BY <1>2 DEF Visits, Follows, NextProtected
<1>6. tr[i].visit <= tr[i + 1].visit
  BY <1>2, <1>4 DEF Visits, Follows
<1>7. QED
  BY <1>1, <1>2, <1>3, <1>5, <1>6

LEMMA RecordedGrows ==
    ASSUME object \in ObjectType, object \in Input,
           NEW n \in Nat \ {0}, NEW tr \in [1 .. n -> State], IsCheck(tr, n),
           NEW i \in 1 .. n, NEW j \in 1 .. n, i <= j
    PROVE  tr[i].protected \subseteq tr[j].protected /\ tr[i].visit <= tr[j].visit
<1> DEFINE Good(k) == tr[i].protected \subseteq tr[k].protected /\ tr[i].visit <= tr[k].visit
           Bad == {k \in i .. n : ~Good(k)}
<1>1. SUFFICES ASSUME ~Good(j) PROVE FALSE
  OBVIOUS
<1>2. PICK k \in Bad : \A h \in Bad : k <= h
  <2>1. Bad \in SUBSET Nat /\ j \in Bad
    BY <1>1
  <2>2. QED
    BY <2>1, LeastElement
<1>3. tr[i] \in State /\ tr[i].visit \in Nat
  BY DEF State
<1>4. Good(i)
  BY <1>3
<1>5. k # i /\ k - 1 \in i .. n /\ k - 1 \in 1 .. n /\ k - 1 # n /\ (k - 1) + 1 = k
  BY <1>2, <1>4
<1>6. Good(k - 1)
  <2>1. ~(k <= k - 1)
    BY <1>5
  <2>2. k - 1 \notin Bad
    BY <1>2, <2>1
  <2>3. QED
    BY <1>5, <2>2
<1>7. /\ tr[k - 1] \in State /\ tr[k] \in State
      /\ tr[k - 1].protected \subseteq tr[k].protected /\ tr[k - 1].visit <= tr[k].visit
  BY <1>5, RecordedStep
<1>8. tr[k - 1].visit \in Nat /\ tr[k].visit \in Nat
  BY <1>7 DEF State
<1>9. Good(k)
  BY <1>3, <1>6, <1>7, <1>8
<1>10. QED
  BY <1>2, <1>9

(***************************************************************************)
(* While a recorded check visits removed sections, it protects nothing.    *)
(***************************************************************************)
Idles(x, y) ==
    /\ y.protected = x.protected
    /\ y.stack # <<>> => Len(y.stack) = 1 /\ y.stack[1].section \notin live

LEMMA IdleStep ==
    ASSUME TypeOK, object \in Input, NEW x \in State, NEW y \in State,
           Visits(x, y) \/ Follows(x, y),
           x.protected \subseteq live,
           x.stack # <<>> => Len(x.stack) = 1 /\ x.stack[1].section \notin live,
           x.visit < y.visit => y.visit \notin live
    PROVE  Idles(x, y)
<1>1. x.stack \in Seq(Frame) /\ x.visit \in Nat /\ y.visit \in Nat
  BY DEF State
<1>2. CASE Visits(x, y)
  <2>1. y.protected = x.protected /\ y.visit \notin live /\ y.stack = <<[section |-> y.visit, next |-> 1]>>
    BY <1>2 DEF Visits
  <2>2. QED
    BY <2>1 DEF Idles
<1>3. CASE Follows(x, y)
  <2>1. /\ x.stack # <<>> /\ y.stack = NextStack(x.protected, x.stack)
        /\ y.protected = NextProtected(x.protected, x.stack)
    BY <1>3 DEF Follows
  <2>2. Len(x.stack) = 1 /\ x.stack[1].section \notin live /\ Top(x.stack) = x.stack[1]
    BY <2>1 DEF Top
  <2>3. ~Protects(x.protected, x.stack)
    BY <2>2 DEF Protects
  <2>4. y.protected = x.protected
    BY <2>1, <2>3 DEF NextProtected
  <2>5. CASE ~InList(x.stack)
    <3>1. y.stack = SubSeq(x.stack, 1, 0)
      BY <2>1, <2>2, <2>5 DEF NextStack
    <3>2. y.stack = <<>>
      BY <1>1, <3>1
    <3>3. QED
      BY <2>4, <3>2 DEF Idles
  <2>6. CASE InList(x.stack)
    <3>1. y.stack = [x.stack EXCEPT ![1].next = @ + 1]
      BY <2>1, <2>2, <2>3, <2>6 DEF NextStack
    <3>2. x.stack[1] \in Frame
      BY <1>1, <2>2, ElementOfSeq
    <3>3. DOMAIN y.stack = DOMAIN x.stack /\ DOMAIN x.stack = 1 .. 1
      BY <1>1, <2>2, <3>1
    <3>4. y.stack[1] = [x.stack[1] EXCEPT !.next = @ + 1]
      BY <3>1, <3>3
    <3>5. y.stack[1].section = x.stack[1].section
      BY <3>2, <3>4 DEF Frame
    <3>6. y.stack \in Seq(Frame)
      BY DEF State
    <3>7. Len(y.stack) = 1
      <4>1. DOMAIN y.stack = 1 .. Len(y.stack) /\ Len(y.stack) \in Nat
        BY <3>6
      <4>2. 1 .. Len(y.stack) = 1 .. 1
        BY <3>3, <4>1
      <4>3. 1 \in 1 .. Len(y.stack)
        BY <4>2
      <4>4. Len(y.stack) \in 1 .. Len(y.stack)
        BY <4>1, <4>3
      <4>5. Len(y.stack) \in 1 .. 1
        BY <4>2, <4>4, Zenon
      <4>6. QED
        BY <4>5
    <3>8. QED
      BY <2>2, <2>4, <3>5, <3>7 DEF Idles
  <2>7. QED
    BY <2>5, <2>6
<1>4. QED
  BY <1>2, <1>3

LEMMA IdleWhileSkipping ==
    ASSUME TypeOK, object \in Input,
           NEW n \in Nat \ {0}, NEW tr \in [1 .. n -> State], IsWhole(tr, n), live = tr[n].protected,
           NEW i \in 1 .. n, tr[i].stack = <<>>,
           NEW b \in Nat, \A s \in live : ~(tr[i].visit < s /\ s < b),
           NEW j \in i .. n, tr[j].visit < b
    PROVE  Idles(tr[i], tr[j])
<1> DEFINE Bad == {k \in i .. n : tr[k].visit < b /\ ~Idles(tr[i], tr[k])}
<1>1. SUFFICES ASSUME ~Idles(tr[i], tr[j]) PROVE FALSE
  OBVIOUS
<1>2. PICK k \in Bad : \A h \in Bad : k <= h
  <2>1. Bad \in SUBSET Nat /\ j \in Bad
    BY <1>1
  <2>2. QED
    BY <2>1, LeastElement
<1>3. Idles(tr[i], tr[i])
  BY DEF Idles
<1>4. k # i /\ k - 1 \in i .. n /\ k - 1 \in 1 .. n /\ k - 1 # n /\ (k - 1) + 1 = k
  BY <1>2, <1>3
<1>5. IsCheck(tr, n) /\ object \in ObjectType
  BY DEF IsWhole, TypeOK
<1>6. /\ tr[k - 1] \in State /\ tr[k] \in State
      /\ Visits(tr[k - 1], tr[k]) \/ Follows(tr[k - 1], tr[k])
      /\ tr[k - 1].visit <= tr[k].visit
  BY <1>4, <1>5, RecordedStep
<1>7. tr[i].visit <= tr[k - 1].visit /\ tr[k - 1].protected \subseteq live
  <2>1. i <= k - 1 /\ k - 1 <= n /\ n \in 1 .. n
    BY <1>4
  <2>2. QED
    BY <1>4, <1>5, <2>1, RecordedGrows
<1>8. tr[k - 1].visit \in Nat /\ tr[k].visit \in Nat /\ tr[i].visit \in Nat
  BY <1>6 DEF State
<1>9. Idles(tr[i], tr[k - 1])
  <2>1. ~(k <= k - 1)
    BY <1>4
  <2>2. k - 1 \notin Bad
    BY <1>2, <2>1
  <2>3. tr[k - 1].visit < b
    BY <1>2, <1>6, <1>8
  <2>4. QED
    BY <1>4, <2>2, <2>3
<1>10. tr[k - 1].visit < tr[k].visit => tr[k].visit \notin live
  BY <1>2, <1>7, <1>8
<1>11. Idles(tr[k - 1], tr[k])
  BY <1>6, <1>7, <1>9, <1>10, IdleStep DEF Idles
<1>12. Idles(tr[i], tr[k])
  BY <1>9, <1>11 DEF Idles
<1>13. QED
  BY <1>2, <1>12

LEMMA ReplayClear == IInv /\ Replay /\ ClearCounts => Replay'
<1> SUFFICES ASSUME IInv, Replay, ClearCounts PROVE Replay'
  OBVIOUS
<1>1. TypeOK /\ object \in ObjectType /\ object \in Input /\ Roots \subseteq live
  BY DEF IInv, TypeOK, RootsStay
<1>2. /\ phase = "clear" /\ phase' = "check" /\ visit' = 0
      /\ protected' = (protected \ live) \cup (Roots \cap live)
      /\ UNCHANGED <<object, live, stack>>
  BY DEF ClearCounts
<1>3. stack = <<>>
  BY <1>2 DEF Replay
<1>4. protected \subseteq live
  BY <1>1, <1>2 DEF Replay, FirstRound, LaterRound, TypeOK
<1>5. protected' = Roots
  BY <1>1, <1>2, <1>4
<1>6. Sections' = Sections /\ State' = State /\ \A tr, n : (IsCheck(tr, n)' <=> IsCheck(tr, n)) /\ (IsWhole(tr, n)' <=> IsWhole(tr, n))
  BY <1>2, CheckFrame, ObjectFrame
<1>7. CASE FirstRound
  <2>1. live' = Sections'
    BY <1>2, <1>6, <1>7 DEF FirstRound
  <2>2. Start \in State /\ Now' = Start
    <3>1. Roots \in SUBSET Sections /\ <<>> \in Seq(Frame) /\ 0 \in Nat
      BY <1>1, ObjectFacts
    <3>2. QED
      BY <1>2, <1>3, <1>5, <3>1 DEF Start, State, Now
  <2>3. PICK tr : tr = [i \in 1 .. 1 |-> Start]
    OBVIOUS
  <2>4. tr \in [1 .. 1 -> State] /\ tr[1] = Start
    BY <2>2, <2>3
  <2>5. IsCheck(tr, 1)
    BY <2>4 DEF IsCheck
  <2>6. 1 \in Nat \ {0} /\ tr \in [1 .. 1 -> State'] /\ IsCheck(tr, 1)' /\ tr[1] = Now'
    BY <1>6, <2>2, <2>4, <2>5
  <2>7. FirstRound'
    BY <1>2, <2>1, <2>6 DEF FirstRound, IsRecorded
  <2>8. QED
    BY <1>2, <2>7 DEF Replay
<1>8. CASE LaterRound
  <2>1. PICK n \in Nat \ {0} : \E tr \in [1 .. n -> State] : IsWhole(tr, n) /\ live = tr[n].protected
    BY <1>8 DEF LaterRound
  <2>2. PICK tr \in [1 .. n -> State] : IsWhole(tr, n) /\ live = tr[n].protected
    BY <2>1
  <2>3. tr[1] = Start /\ 1 \in 1 .. n
    BY <2>2 DEF IsWhole, IsCheck
  <2>4. At(tr, 1)'
    <3>1. tr[1].protected = Roots /\ tr[1].stack = <<>> /\ tr[1].visit = 0
      BY <2>3 DEF Start
    <3>2. \A s \in live : ~(0 < s /\ s <= 0)
      BY <1>1, ObjectFacts DEF TypeOK
    <3>3. QED
      BY <1>2, <1>3, <1>5, <3>1, <3>2 DEF At
  <2>5. LaterRound'
    BY <1>2, <1>6, <2>2, <2>3, <2>4 DEF LaterRound
  <2>6. QED
    BY <1>2, <2>5 DEF Replay
<1>9. QED
  BY <1>7, <1>8 DEF Replay

\* The state after one more step, at the end of a recorded check.
LEMMA Recorded ==
    ASSUME TypeOK, object \in Input, object' = object, Now' \in State,
           NEW n \in Nat \ {0}, NEW tr \in [1 .. n -> State], IsCheck(tr, n), tr[n] = Now,
           Visits(Now, Now') \/ Follows(Now, Now')
    PROVE  IsRecorded'
<1>0. PICK tt : tt = [i \in 1 .. (n + 1) |-> IF i = n + 1 THEN Now' ELSE tr[i]]
  OBVIOUS
<1>1. tt \in [1 .. (n + 1) -> State]
  <2>1. ASSUME NEW i \in 1 .. (n + 1) PROVE tt[i] \in State
    <3>1. i # n + 1 => i \in 1 .. n
      OBVIOUS
    <3>2. QED
      BY <1>0, <3>1
  <2>2. QED
    BY <1>0, <2>1
<1>2. tt[1] = tr[1] /\ tt[n + 1] = Now' /\ tt[n] = Now
  BY <1>0
<1>3. ASSUME NEW i \in 1 .. n PROVE Visits(tt[i], tt[i + 1]) \/ Follows(tt[i], tt[i + 1])
  <2>1. CASE i = n
    BY <1>2, <2>1
  <2>2. CASE i # n
    <3>1. i \in 1 .. (n - 1) /\ tt[i] = tr[i] /\ tt[i + 1] = tr[i + 1]
      BY <1>0, <2>2
    <3>2. QED
      BY <3>1 DEF IsCheck
  <2>3. QED
    BY <2>1, <2>2
<1>4. IsCheck(tt, n + 1)
  BY <1>2, <1>3 DEF IsCheck
<1>5. n + 1 \in Nat \ {0} /\ tt \in [1 .. (n + 1) -> State'] /\ IsCheck(tt, n + 1)' /\ tt[n + 1] = Now'
  <2>1. State' = State /\ (IsCheck(tt, n + 1)' <=> IsCheck(tt, n + 1))
    BY CheckFrame
  <2>2. QED
    BY <1>1, <1>2, <1>4, <2>1
<1>6. QED
  BY <1>5 DEF IsRecorded

LEMMA ReplayFollow == IInv /\ IInv' /\ Replay /\ (FollowRelocation \/ Return) => Replay'
<1> SUFFICES ASSUME IInv, IInv', Replay, FollowRelocation \/ Return PROVE Replay'
  OBVIOUS
<1>1. TypeOK /\ TypeOK' /\ object \in Input /\ object \in ObjectType
  BY DEF IInv, TypeOK
<1>2. /\ phase = "check" /\ phase' = "check" /\ stack # <<>> /\ UNCHANGED <<object, live, visit>>
      /\ stack' = NextStack(protected, stack)
      /\ protected' = NextProtected(protected, stack)
  BY <1>1, ActionFollows
<1>3. Sections' = Sections /\ State' = State /\ \A tr, n : IsWhole(tr, n)' <=> IsWhole(tr, n)
  BY <1>2, CheckFrame, ObjectFrame
<1>4. CASE FirstRound
  <2>1. PICK n \in Nat \ {0} : \E tr \in [1 .. n -> State] : IsCheck(tr, n) /\ tr[n] = Now
    BY <1>2, <1>4 DEF FirstRound, IsRecorded
  <2>2. PICK tr \in [1 .. n -> State] : IsCheck(tr, n) /\ tr[n] = Now
    BY <2>1
  <2>3. Now' \in State
    BY <1>1, <1>3 DEF TypeOK, Now, State, Frame
  <2>4. Follows(Now, Now')
    BY <1>2 DEF Now, Follows
  <2>5. FirstRound'
    BY <1>1, <1>2, <1>3, <1>4, <2>2, <2>3, <2>4, Recorded DEF FirstRound
  <2>6. QED
    BY <1>2, <2>5 DEF Replay
<1>5. CASE LaterRound
  <2>1. PICK n \in Nat \ {0} : \E tr \in [1 .. n -> State] :
           IsWhole(tr, n) /\ live = tr[n].protected /\ \E i \in 1 .. n : At(tr, i)
    BY <1>2, <1>5 DEF LaterRound
  <2>2. PICK tr \in [1 .. n -> State] :
           IsWhole(tr, n) /\ live = tr[n].protected /\ \E i \in 1 .. n : At(tr, i)
    BY <2>1
  <2>3. PICK i \in 1 .. n : At(tr, i)
    BY <2>2
  <2>4. i # n
    BY <1>2, <2>2, <2>3 DEF At, IsWhole
  <2>5. i + 1 \in 1 .. n /\ (Visits(tr[i], tr[i + 1]) \/ Follows(tr[i], tr[i + 1]))
    BY <1>1, <2>2, <2>4, RecordedStep DEF IsWhole
  <2>6. Follows(tr[i], tr[i + 1])
    BY <1>2, <2>3, <2>5 DEF At, Visits
  <2>7. At(tr, i + 1)'
    BY <1>2, <2>3, <2>6 DEF At, Follows
  <2>8. i + 1 \in 1 .. n
    BY <2>4
  <2>9. LaterRound'
    BY <1>2, <1>3, <2>2, <2>7, <2>8 DEF LaterRound
  <2>10. QED
    BY <1>2, <2>9 DEF Replay
<1>6. QED
  BY <1>4, <1>5 DEF Replay

\* The next section of the list is visited by the recorded check too, perhaps
\* after removed ones.
LEMMA SkipsToVisit ==
    ASSUME TypeOK, object \in Input,
           NEW n \in Nat \ {0}, NEW tr \in [1 .. n -> State], IsWhole(tr, n), live = tr[n].protected,
           NEW i \in 1 .. n, At(tr, i), stack = <<>>,
           NEW s \in live, visit < s, \A r \in live : visit < r => s <= r
    PROVE  \E m \in 1 .. n :
              /\ tr[m].protected = protected
              /\ tr[m].stack = <<[section |-> s, next |-> 1]>>
              /\ tr[m].visit = s
<1> DEFINE Late == {m \in i .. n : s <= tr[m].visit}
<1>1. /\ tr[i].protected = protected /\ tr[i].stack = <<>> /\ tr[i].visit \in Nat /\ visit <= tr[i].visit
      /\ \A r \in live : ~(visit < r /\ r <= tr[i].visit)
  BY DEF At, State
<1>2. s \in Sections /\ s \in Nat /\ live \subseteq Sections /\ visit \in Nat /\ \A r \in live : r \in Nat
  BY ObjectFacts DEF TypeOK
<1>3. tr[i].visit < s /\ \A r \in live : ~(tr[i].visit < r /\ r < s)
  BY <1>1, <1>2
<1>4. PICK m \in Late : \A h \in Late : m <= h
  <2>1. n \in Late
    BY <1>2 DEF IsWhole
  <2>2. Late \in SUBSET Nat
    OBVIOUS
  <2>3. QED
    BY <2>1, <2>2, LeastElement
<1>5. m # i /\ m - 1 \in i .. n /\ m - 1 \in 1 .. n /\ m - 1 # n /\ (m - 1) + 1 = m /\ m \in 1 .. n
  BY <1>1, <1>2, <1>3, <1>4
<1>6. tr[m - 1] \in State /\ tr[m] \in State /\ tr[m - 1].visit \in Nat /\ tr[m].visit \in Nat
  BY <1>5 DEF State
<1>7. tr[m - 1].visit < s
  <2>1. ~(m <= m - 1)
    BY <1>5
  <2>2. m - 1 \notin Late
    BY <1>4, <2>1
  <2>3. QED
    BY <1>2, <1>5, <1>6, <2>2
<1>8. tr[m - 1].protected = protected
  <2>1. Idles(tr[i], tr[m - 1])
    BY <1>1, <1>2, <1>3, <1>5, <1>7, IdleWhileSkipping
  <2>2. QED
    BY <1>1, <2>1 DEF Idles
<1>9. Visits(tr[m - 1], tr[m])
  <2>1. Visits(tr[m - 1], tr[m]) \/ Follows(tr[m - 1], tr[m])
    <3>1. IsCheck(tr, n) /\ object \in ObjectType
      BY DEF IsWhole, TypeOK
    <3>2. Visits(tr[m - 1], tr[(m - 1) + 1]) \/ Follows(tr[m - 1], tr[(m - 1) + 1])
      BY <1>5, <3>1, RecordedStep
    <3>3. QED
      BY <1>5, <3>2
  <2>2. s <= tr[m].visit
    BY <1>4
  <2>3. QED
    BY <1>2, <1>6, <1>7, <2>1, <2>2 DEF Follows
<1>10. tr[m].visit = s
  <2>1. s <= tr[m].visit /\ tr[m].visit <= s
    BY <1>2, <1>4, <1>7, <1>9 DEF Visits
  <2>2. QED
    BY <1>2, <1>6, <2>1
<1>11. tr[m].protected = protected /\ tr[m].stack = <<[section |-> s, next |-> 1]>>
  BY <1>8, <1>9, <1>10 DEF Visits
<1>12. QED
  BY <1>5, <1>10, <1>11

LEMMA ReplayVisit == IInv /\ IInv' /\ Replay /\ VisitSection => Replay'
<1> SUFFICES ASSUME IInv, IInv', Replay, VisitSection PROVE Replay'
  OBVIOUS
<1>1. TypeOK /\ TypeOK' /\ object \in Input /\ object \in ObjectType
  BY DEF IInv, TypeOK
<1>2. phase = "check" /\ phase' = "check" /\ stack = <<>> /\ UNCHANGED <<object, live, protected>>
  BY DEF VisitSection
<1>3. PICK s \in live : /\ s > visit
                        /\ \A r \in live : r > visit => s <= r
                        /\ stack' = <<[section |-> s, next |-> 1]>>
                        /\ visit' = s
  BY DEF VisitSection
<1>4. s \in Sections /\ visit \in Nat /\ s \in Nat /\ \A r \in live : r \in Nat
  BY <1>1, ObjectFacts DEF TypeOK
<1>5. visit < s /\ \A r \in live : visit < r => s <= r
  BY <1>3, <1>4
<1>6. Sections' = Sections /\ State' = State /\ \A tr, n : IsWhole(tr, n)' <=> IsWhole(tr, n)
  BY <1>2, CheckFrame, ObjectFrame
<1>7. CASE FirstRound
  <2>1. PICK n \in Nat \ {0} : \E tr \in [1 .. n -> State] : IsCheck(tr, n) /\ tr[n] = Now
    BY <1>2, <1>7 DEF FirstRound, IsRecorded
  <2>2. PICK tr \in [1 .. n -> State] : IsCheck(tr, n) /\ tr[n] = Now
    BY <2>1
  <2>3. Now' \in State
    BY <1>1, <1>6 DEF TypeOK, Now, State, Frame
  <2>4. Visits(Now, Now')
    <3>1. \A r \in Sections : visit < r => s <= r
      BY <1>5, <1>7 DEF FirstRound
    <3>2. QED
      BY <1>2, <1>3, <1>4, <1>5, <3>1 DEF Now, Visits
  <2>5. FirstRound'
    BY <1>1, <1>2, <1>6, <1>7, <2>2, <2>3, <2>4, Recorded DEF FirstRound
  <2>6. QED
    BY <1>2, <2>5 DEF Replay
<1>8. CASE LaterRound
  <2>1. PICK n \in Nat \ {0} : \E tr \in [1 .. n -> State] :
           IsWhole(tr, n) /\ live = tr[n].protected /\ \E i \in 1 .. n : At(tr, i)
    BY <1>2, <1>8 DEF LaterRound
  <2>2. PICK tr \in [1 .. n -> State] :
           IsWhole(tr, n) /\ live = tr[n].protected /\ \E i \in 1 .. n : At(tr, i)
    BY <2>1
  <2>3. PICK i \in 1 .. n : At(tr, i)
    BY <2>2
  <2>4. PICK m \in 1 .. n : /\ tr[m].protected = protected
                            /\ tr[m].stack = <<[section |-> s, next |-> 1]>>
                            /\ tr[m].visit = s
    BY <1>1, <1>2, <1>5, <2>2, <2>3, SkipsToVisit
  <2>5. At(tr, m)'
    <3>1. visit' <= tr[m].visit
      BY <1>3, <1>4, <2>4
    <3>2. \A r \in live : ~(visit' < r /\ r <= tr[m].visit)
      BY <1>3, <1>4, <2>4
    <3>3. tr[m].protected = protected' /\ tr[m].stack = stack' /\ live' = live
      BY <1>2, <1>3, <2>4
    <3>4. QED
      BY <3>1, <3>2, <3>3 DEF At
  <2>6. LaterRound'
    BY <1>2, <1>6, <2>2, <2>5 DEF LaterRound
  <2>7. QED
    BY <1>2, <2>6 DEF Replay
<1>9. QED
  BY <1>7, <1>8 DEF Replay

LEMMA ReplayEnd == IInv /\ Replay /\ EndCheck => Replay'
<1> SUFFICES ASSUME IInv, Replay, EndCheck PROVE Replay'
  OBVIOUS
<1>1. TypeOK /\ object \in Input /\ object \in ObjectType
  BY DEF IInv, TypeOK
<1>2. /\ phase = "check" /\ phase' \in {"remove", "clear", "done"} /\ stack = <<>>
      /\ \A s \in live : s <= visit
      /\ UNCHANGED <<object, live, protected, stack, visit>>
  BY DEF EndCheck
<1>3. Sections' = Sections /\ State' = State
      /\ \A tr, n : (IsWhole(tr, n)' <=> IsWhole(tr, n)) /\ (IsCheck(tr, n)' <=> IsCheck(tr, n))
  BY <1>2, CheckFrame, ObjectFrame
<1>4. CASE FirstRound
  <2>1. IsRecorded' <=> IsRecorded
    <3>1. Now' = Now
      BY <1>2 DEF Now
    <3>2. QED
      BY <1>3, <3>1 DEF IsRecorded
  <2>2. FirstRound'
    BY <1>2, <1>3, <1>4, <2>1 DEF FirstRound
  <2>3. QED
    BY <1>2, <2>2 DEF Replay
<1>5. CASE LaterRound
  <2>1. PICK n \in Nat \ {0} : \E tr \in [1 .. n -> State] :
           IsWhole(tr, n) /\ live = tr[n].protected /\ \E i \in 1 .. n : At(tr, i)
    BY <1>2, <1>5 DEF LaterRound
  <2>2. PICK tr \in [1 .. n -> State] :
           IsWhole(tr, n) /\ live = tr[n].protected /\ \E i \in 1 .. n : At(tr, i)
    BY <2>1
  <2>3. PICK i \in 1 .. n : At(tr, i)
    BY <2>2
  <2>4. /\ tr[i].protected = protected /\ tr[i].stack = <<>> /\ tr[i].visit \in Nat /\ tr[n].visit \in Nat
        /\ visit <= tr[i].visit /\ visit \in Nat /\ \A r \in live : r \in Nat
    BY <1>1, <1>2, <2>3, ObjectFacts DEF At, State, TypeOK
  <2>5. \A r \in live : ~(tr[i].visit < r /\ r < tr[n].visit + 1)
    BY <1>2, <2>4
  <2>6. n \in i .. n /\ tr[n].visit < tr[n].visit + 1 /\ tr[n].visit + 1 \in Nat
    BY <2>4
  <2>7. Idles(tr[i], tr[n])
    BY <1>1, <2>2, <2>4, <2>5, <2>6, IdleWhileSkipping
  <2>8. protected = live
    BY <2>2, <2>4, <2>7 DEF Idles
  <2>9. LaterRound'
    BY <1>2, <1>3, <2>2, <2>8 DEF LaterRound
  <2>10. QED
    BY <1>2, <2>9 DEF Replay
<1>6. QED
  BY <1>4, <1>5 DEF Replay

LEMMA ReplayRemove == IInv /\ Replay /\ RemoveDeadSections => Replay'
<1> SUFFICES ASSUME IInv, Replay, RemoveDeadSections PROVE Replay'
  OBVIOUS
<1>1. TypeOK /\ protected \subseteq Sections
  BY DEF IInv, TypeOK
<1>2. /\ phase = "remove" /\ phase' \in {"done", "clear"} /\ live' = live \ (live \ protected)
      /\ UNCHANGED <<object, protected, stack, visit>>
  BY DEF RemoveDeadSections
<1>3. State' = State /\ \A tr, n : IsWhole(tr, n)' <=> IsWhole(tr, n)
  BY <1>2, CheckFrame
<1>4. CASE FirstRound
  <2>1. live' = protected
    BY <1>1, <1>2, <1>4 DEF FirstRound
  <2>2. PICK n \in Nat \ {0} : \E tr \in [1 .. n -> State] : IsCheck(tr, n) /\ tr[n] = Now
    BY <1>2, <1>4 DEF FirstRound, IsRecorded
  <2>3. PICK tr \in [1 .. n -> State] : IsCheck(tr, n) /\ tr[n] = Now
    BY <2>2
  <2>4. IsWhole(tr, n) /\ tr[n].protected = protected
    <3>1. stack = <<>> /\ \A s \in Sections : s <= visit
      BY <1>2, <1>4 DEF FirstRound, Replay
    <3>2. QED
      BY <2>3, <3>1 DEF IsWhole, Now
  <2>5. LaterRound'
    BY <1>2, <1>3, <2>1, <2>4 DEF LaterRound
  <2>6. QED
    BY <1>2, <2>5 DEF Replay
<1>5. CASE LaterRound
  <2>1. protected = live
    BY <1>2, <1>5 DEF LaterRound
  <2>2. live' = live
    BY <1>2, <2>1
  <2>3. LaterRound'
    BY <1>2, <1>3, <1>5, <2>1, <2>2 DEF LaterRound
  <2>4. QED
    BY <1>2, <2>3 DEF Replay
<1>6. QED
  BY <1>4, <1>5 DEF Replay

LEMMA ReplayStutter == Replay /\ UNCHANGED vars => Replay'
<1> SUFFICES ASSUME Replay, UNCHANGED vars PROVE Replay'
  OBVIOUS
<1>1. UNCHANGED <<object, live, protected, stack, visit, phase>>
  BY DEF vars
<1>2. Sections' = Sections /\ State' = State /\ Now' = Now
      /\ \A tr, n : (IsWhole(tr, n)' <=> IsWhole(tr, n)) /\ (IsCheck(tr, n)' <=> IsCheck(tr, n))
  BY <1>1, CheckFrame, ObjectFrame DEF Now
<1>3. IsRecorded' <=> IsRecorded
  BY <1>2 DEF IsRecorded
<1>4. FirstRound' <=> FirstRound
  BY <1>1, <1>2, <1>3 DEF FirstRound
<1>5. \A tr, i : At(tr, i)' <=> At(tr, i)
  BY <1>1 DEF At
<1>6. LaterRound' <=> LaterRound
  BY <1>1, <1>2, <1>5 DEF LaterRound
<1>7. QED
  BY <1>1, <1>4, <1>6 DEF Replay

LEMMA Replayed == Spec => []Replay
<1>1. Init => Replay
  BY DEF Init, Replay, FirstRound
<1>2. IInv /\ IInv' /\ Replay /\ [Next]_vars => Replay'
  BY ReplayClear, ReplayVisit, ReplayFollow, ReplayEnd, ReplayRemove, ReplayStutter DEF Next
<1>3. QED
  BY <1>1, <1>2, Invariance, PTL DEF Spec

LEMMA ProtectedIsLive ==
    ASSUME IInv, Replay
    PROVE  protected \subseteq live
<1>1. TypeOK /\ object \in ObjectType /\ object \in Input
  BY DEF IInv, TypeOK
<1>2. CASE FirstRound
  BY <1>1, <1>2 DEF FirstRound, TypeOK
<1>3. CASE LaterRound /\ phase # "check"
  BY <1>3 DEF LaterRound
<1>4. CASE LaterRound /\ phase = "check"
  <2>1. PICK n \in Nat \ {0} : \E tr \in [1 .. n -> State] :
           IsWhole(tr, n) /\ live = tr[n].protected /\ \E i \in 1 .. n : At(tr, i)
    BY <1>4 DEF LaterRound
  <2>2. PICK tr \in [1 .. n -> State] :
           IsWhole(tr, n) /\ live = tr[n].protected /\ \E i \in 1 .. n : At(tr, i)
    BY <2>1
  <2>3. PICK i \in 1 .. n : At(tr, i)
    BY <2>2
  <2>4. tr[i].protected \subseteq tr[n].protected
    <3>1. i <= n /\ n \in 1 .. n
      OBVIOUS
    <3>2. QED
      BY <1>1, <2>2, <3>1, RecordedGrows DEF IsWhole
  <2>5. QED
    BY <2>2, <2>3, <2>4 DEF At
<1>5. QED
  BY <1>2, <1>3, <1>4 DEF Replay

(***************************************************************************)
(* For every object and limit: only the first round removes sections; the  *)
(* loop of gp_coffopt_remove_dead_sections makes another one and leaves.   *)
(***************************************************************************)
THEOREM OneRoundRemoves == Spec => [][live # Sections => live' = live]_vars
<1> DEFINE A == live # Sections => live' = live
<1>1. IInv /\ Replay /\ Next => A
  <2> SUFFICES ASSUME IInv, Replay, Next, live # Sections PROVE live' = live
    OBVIOUS
  <2>1. CASE RemoveDeadSections
    <3>1. protected = live
      BY <2>1 DEF Replay, FirstRound, LaterRound, RemoveDeadSections
    <3>2. QED
      BY <2>1, <3>1 DEF RemoveDeadSections
  <2>2. CASE ClearCounts \/ VisitSection \/ FollowRelocation \/ Return \/ EndCheck
    BY <2>2 DEF ClearCounts, VisitSection, FollowRelocation, Return, EndCheck
  <2>3. QED
    BY <2>1, <2>2 DEF Next
<1>2. QED
  BY <1>1, Invariance, Replayed, PTL DEF Spec

-----------------------------------------------------------------------------
(***************************************************************************)
(* The counters.  During a check a relocation is listed when the list has  *)
(* led to it, and called when a call has, for a section that was newly     *)
(* protected; a counter has at least all that are listed, and no more than *)
(* those and the called ones, each counted once.  It has them all as long  *)
(* as no section was protected without a call, at the limit of the depth.  *)
(***************************************************************************)
Frames ==
    /\ stack # <<>> => stack[1].section = visit /\ visit \in live
    /\ \A j \in DOMAIN stack : j # 1 => stack[j].section \in protected \ Roots
    /\ \A j, h \in DOMAIN stack :
          j # 1 /\ h # 1 /\ stack[j].section = stack[h].section => j = h

IsListed(s, k) ==
    /\ s \in live
    /\ \/ s < visit
       \/ s = visit /\ \A j \in DOMAIN stack : j = 1 => k < stack[j].next

IsCalled(s, k) ==
    /\ s \in protected \ Roots
    /\ \A j \in DOMAIN stack : j # 1 /\ stack[j].section = s => k < stack[j].next

Listed(S, t) == {p \in Pointing(S, t) : IsListed(p[1], p[2])}
Called(S, t) == {p \in Pointing(S, t) : IsCalled(p[1], p[2])}

Covered(c, S, t) ==
    /\ Cardinality(Listed(S, t)) <= c
    /\ c <= Cardinality(Listed(S, t)) + Cardinality(Called(S, t))
    /\ ~limited => c = Cardinality(Listed(S, t)) + Cardinality(Called(S, t))

Counting ==
    phase = "check" =>
        \A t \in live : /\ all[t] = own[t] + other[t]
                        /\ Covered(own[t], {t}, t)
                        /\ Covered(other[t], Sections \ {t}, t)

Counted ==
    phase \in {"remove", "done"} =>
        \A t \in live :
            /\ all[t] = own[t] + other[t]
            /\ IsCountOf(own[t], {t}, t)
            /\ IsCountOf(other[t], live \ {t}, t)

CInv == Frames /\ Counting /\ Counted

\* What is listed and called is finite and within what points to the section.
LEMMA CountFacts ==
    ASSUME object \in ObjectType, object \in Input, NEW S \in SUBSET Sections, NEW t
    PROVE  /\ IsFiniteSet(Listed(S, t)) /\ Cardinality(Listed(S, t)) \in Nat
           /\ IsFiniteSet(Called(S, t)) /\ Cardinality(Called(S, t)) \in Nat
           /\ References(S, t) \in Nat
<1>1. IsFiniteSet(Pointing(S, t))
  BY PointingFacts
<1>2. Listed(S, t) \subseteq Pointing(S, t) /\ Called(S, t) \subseteq Pointing(S, t)
  BY DEF Listed, Called
<1>3. IsFiniteSet(Listed(S, t)) /\ IsFiniteSet(Called(S, t))
  BY <1>1, <1>2, FS_Subset
<1>4. QED
  BY <1>1, <1>3, FS_CardinalityType DEF References

LEMMA ReferencesSum ==
    ASSUME object \in ObjectType, object \in Input,
           NEW A \in SUBSET Sections, NEW B \in SUBSET Sections, A \cap B = {}, NEW t
    PROVE  References(A \cup B, t) = References(A, t) + References(B, t)
<1>1. IsFiniteSet(Pointing(A, t)) /\ IsFiniteSet(Pointing(B, t))
  BY PointingFacts
<1>2. Pointing(A \cup B, t) = Pointing(A, t) \cup Pointing(B, t)
  BY DEF Pointing
<1>3. Pointing(A, t) \cap Pointing(B, t) = {}
  <2>1. \A p \in Pointing(A, t) : p[1] \in A
    BY PointingFacts
  <2>2. \A p \in Pointing(B, t) : p[1] \in B
    BY PointingFacts
  <2>3. QED
    BY <2>1, <2>2
<1>4. Cardinality({}) = 0
  BY FS_EmptySet
<1>5. PICK X, Y : X = Pointing(A, t) /\ Y = Pointing(B, t)
  OBVIOUS
<1>6. IsFiniteSet(X) /\ IsFiniteSet(Y) /\ X \cap Y = {}
  BY <1>1, <1>3, <1>5
<1>7. Cardinality(X \cup Y) = Cardinality(X) + Cardinality(Y) - Cardinality(X \cap Y)
  BY <1>6, FS_Union
<1>8. Cardinality(X) \in Nat /\ Cardinality(Y) \in Nat
  BY <1>6, FS_CardinalityType
<1>9. Cardinality(X \cup Y) = Cardinality(X) + Cardinality(Y)
  <2>1. Cardinality(X \cap Y) = 0
    BY <1>4, <1>6, Zenon
  <2>2. PICK x, y, z, u : x = Cardinality(X) /\ y = Cardinality(Y) /\ z = Cardinality(X \cap Y) /\ u = Cardinality(X \cup Y)
    OBVIOUS
  <2>3. u = x + y - z /\ z = 0 /\ x \in Nat /\ y \in Nat
    BY <1>7, <1>8, <2>1, <2>2, Zenon
  <2>4. u = x + y
    BY <2>3
  <2>5. QED
    BY <2>2, <2>4, Zenon
<1>10. QED
  BY <1>2, <1>5, <1>9 DEF References

LEMMA CountOfFrame ==
    ASSUME UNCHANGED <<object, protected, limited>>
    PROVE  \A c, S, t : IsCountOf(c, S, t)' <=> IsCountOf(c, S, t)
<1>1. \A S, t : Pointing(S, t)' = Pointing(S, t)
  BY ObjectFrame DEF Pointing
<1>2. \A S, t : References(S, t)' = References(S, t)
  BY <1>1 DEF References
<1>3. CalledAgain' = CalledAgain
  BY ObjectFrame DEF CalledAgain
<1>4. QED
  BY <1>2, <1>3 DEF IsCountOf

LEMMA CoveredFrame ==
    ASSUME object' = object, limited' = limited, NEW S, NEW t, NEW c,
           \A p \in Pointing(S, t) : /\ IsListed(p[1], p[2])' <=> IsListed(p[1], p[2])
                                     /\ IsCalled(p[1], p[2])' <=> IsCalled(p[1], p[2]),
           Covered(c, S, t)
    PROVE  Covered(c, S, t)'
<1>1. Pointing(S, t)' = Pointing(S, t)
  BY ObjectFrame DEF Pointing
<1>2. Listed(S, t)' = Listed(S, t) /\ Called(S, t)' = Called(S, t)
  BY <1>1 DEF Listed, Called
<1>3. QED
  BY <1>2 DEF Covered

LEMMA CountClear == IInv /\ Replay /\ CInv /\ ClearCounts => CInv'
<1> SUFFICES ASSUME IInv, Replay, CInv, ClearCounts PROVE CInv'
  OBVIOUS
<1>1. TypeOK /\ object \in Input /\ object \in ObjectType /\ live \subseteq Sections
  BY DEF IInv, TypeOK
<1>2. /\ phase = "clear" /\ phase' = "check" /\ visit' = 0 /\ stack = <<>>
      /\ all' = [s \in Sections |-> IF s \in live THEN 0 ELSE all[s]]
      /\ own' = [s \in Sections |-> IF s \in live THEN 0 ELSE own[s]]
      /\ other' = [s \in Sections |-> IF s \in live THEN 0 ELSE other[s]]
      /\ UNCHANGED <<object, live, stack>>
  BY DEF ClearCounts, Replay
<1>3. Frames'
  BY <1>2 DEF Frames
<1>4. \A s, k : ~IsListed(s, k)'
  <2>1. \A s \in live : s \in Nat /\ s > 0
    BY <1>1, ObjectFacts
  <2>2. QED
    BY <1>2, <2>1 DEF IsListed
<1>5. ASSUME NEW S \in SUBSET Sections, NEW t PROVE Covered(0, S, t)'
  <2>0. ~limited => Called(S, t)' = {}
    <3>1. ~limited => protected' \subseteq Roots'
      BY <1>2, ObjectFrame DEF IInv, ClearCounts
    <3>2. QED
      BY <3>1 DEF Called, IsCalled
  <2>1. Listed(S, t)' = {}
    BY <1>4 DEF Listed
  <2>2. Cardinality({}) = 0
    BY FS_EmptySet
  <2>3. Cardinality(Called(S, t)') \in Nat
    <3>1. Called(S, t)' \subseteq Pointing(S, t)
      BY <1>2, ObjectFrame DEF Called, Pointing
    <3>2. IsFiniteSet(Called(S, t)')
      BY <1>1, <3>1, PointingFacts, FS_Subset
    <3>3. QED
      BY <3>2, FS_CardinalityType
  <2>4. limited' = limited
    BY DEF ClearCounts
  <2>5. QED
    BY <2>0, <2>1, <2>2, <2>3, <2>4 DEF Covered
<1>6. Counting'
  <2> SUFFICES ASSUME NEW t \in live
               PROVE  /\ all'[t] = own'[t] + other'[t]
                      /\ Covered(own[t], {t}, t)'
                      /\ Covered(other[t], Sections \ {t}, t)'
    BY <1>2 DEF Counting
  <2>1. all'[t] = 0 /\ own'[t] = 0 /\ other'[t] = 0 /\ {t} \in SUBSET Sections
    BY <1>1, <1>2
  <2>2. PICK S \in SUBSET Sections : S = Sections \ {t}
    OBVIOUS
  <2>3. S = (Sections \ {t})'
    BY <1>2, <2>2, ObjectFrame
  <2>4. Covered(0, {t}, t)' /\ Covered(0, S, t)'
    BY <1>5, <2>1
  <2>5. QED
    BY <2>1, <2>3, <2>4 DEF Covered
<1>7. Counted'
  BY <1>2 DEF Counted
<1>8. QED
  BY <1>3, <1>6, <1>7 DEF CInv

\* Counting again, where nothing is counted.
LEMMA CountingFrame ==
    ASSUME IInv, Counting, phase = "check", UNCHANGED <<object, live, all, own, other, limited>>,
           \A s \in Sections : \A k \in DOMAIN Refs(s) :
              (IsListed(s, k)' <=> IsListed(s, k)) /\ (IsCalled(s, k)' <=> IsCalled(s, k))
    PROVE  Counting'
<1>1. TypeOK /\ object \in Input /\ object \in ObjectType /\ live \subseteq Sections
  BY DEF IInv, TypeOK
<1>2. ASSUME NEW S \in SUBSET Sections, NEW t, NEW c, Covered(c, S, t)
      PROVE  Covered(c, S, t)'
  <2>1. \A p \in Pointing(S, t) : p[1] \in Sections /\ p[2] \in DOMAIN Refs(p[1])
    BY <1>1, PointingFacts
  <2>2. QED
    BY <1>2, <2>1, CoveredFrame
<1>3. SUFFICES ASSUME NEW t \in live
               PROVE  /\ all'[t] = own'[t] + other'[t]
                      /\ Covered(own[t], {t}, t)'
                      /\ Covered(other[t], Sections \ {t}, t)'
  BY DEF Counting
<1>4. all[t] = own[t] + other[t] /\ Covered(own[t], {t}, t) /\ Covered(other[t], Sections \ {t}, t)
  BY DEF Counting
<1>5. PICK S \in SUBSET Sections : S = Sections \ {t}
  OBVIOUS
<1>6. PICK a, b : a = own[t] /\ b = other[t]
  OBVIOUS
<1>7. Covered(a, {t}, t)' /\ Covered(b, S, t)'
  BY <1>1, <1>2, <1>4, <1>5, <1>6
<1>8. own'[t] = a /\ other'[t] = b /\ Sections' = Sections /\ all'[t] = own'[t] + other'[t]
  BY <1>4, <1>6, ObjectFrame
<1>9. QED
  BY <1>5, <1>7, <1>8 DEF Covered

LEMMA CountVisit == IInv /\ CInv /\ VisitSection => CInv'
<1> SUFFICES ASSUME IInv, CInv, VisitSection PROVE CInv'
  OBVIOUS
<1>1. TypeOK /\ object \in Input /\ object \in ObjectType /\ live \subseteq Sections /\ visit \in Nat
  BY DEF IInv, TypeOK
<1>2. PICK s \in live : /\ s > visit
                        /\ \A r \in live : r > visit => s <= r
                        /\ stack' = <<[section |-> s, next |-> 1]>>
                        /\ visit' = s
  BY DEF VisitSection
<1>3. /\ phase = "check" /\ phase' = "check" /\ stack = <<>>
      /\ UNCHANGED <<object, live, protected, all, own, other, limited>>
  BY DEF VisitSection
<1>4. /\ DOMAIN stack' = {1} /\ stack'[1].section = s /\ stack'[1].next = 1 /\ DOMAIN stack = {}
  BY <1>2, <1>3
<1>5. Frames'
  BY <1>2, <1>3, <1>4 DEF Frames
<1>6. ASSUME NEW r \in Sections, NEW k \in DOMAIN Refs(r)
      PROVE  (IsListed(r, k)' <=> IsListed(r, k)) /\ (IsCalled(r, k)' <=> IsCalled(r, k))
  <2>1. r \in Nat /\ s \in Nat /\ k \in Nat \ {0}
    BY <1>1, ObjectFacts
  <2>2. IsListed(r, k) <=> r \in live /\ r <= visit
    BY <1>1, <1>4, <2>1 DEF IsListed
  <2>3. IsListed(r, k)' <=> r \in live /\ r < s
    BY <1>2, <1>3, <1>4, <2>1 DEF IsListed
  <2>4. r \in live => (r <= visit <=> r < s)
    BY <1>1, <1>2, <2>1
  <2>5. IsCalled(r, k)' <=> IsCalled(r, k)
    <3>1. Roots' = Roots
      BY <1>3, ObjectFrame
    <3>2. QED
      BY <1>3, <1>4, <3>1 DEF IsCalled
  <2>6. QED
    BY <2>2, <2>3, <2>4, <2>5
<1>7. Counting'
  BY <1>3, <1>6, CountingFrame DEF CInv
<1>8. Counted'
  BY <1>3 DEF Counted
<1>9. QED
  BY <1>5, <1>7, <1>8 DEF CInv

LEMMA CountReturn == IInv /\ CInv /\ Return => CInv'
<1> SUFFICES ASSUME IInv, CInv, Return PROVE CInv'
  OBVIOUS
<1>1. TypeOK /\ object \in Input /\ object \in ObjectType /\ live \subseteq Sections /\ visit \in Nat
  BY DEF IInv, TypeOK
<1>2. /\ phase = "check" /\ stack # <<>> /\ Last.next \notin DOMAIN Refs(Last.section)
      /\ stack' = SubSeq(stack, 1, Len(stack) - 1)
      /\ UNCHANGED <<object, live, protected, all, own, other, visit, phase, limited>>
  BY DEF Return
<1>3. stack \in Seq(Frame) /\ Len(stack) \in Nat \ {0} /\ DOMAIN stack = 1 .. Len(stack)
  BY <1>1, <1>2 DEF TypeOK, Frame
<1>4. \A j \in DOMAIN stack : stack[j] \in Frame
  BY <1>3, ElementOfSeq
<1>5. /\ stack' \in Seq(Frame) /\ Len(stack') = Len(stack) - 1
      /\ \A j \in 1 .. (Len(stack) - 1) : stack'[j] = stack[j]
  <2>1. \A j \in 1 .. (Len(stack) - 1) : stack[j] \in Frame
    BY <1>3, <1>4
  <2>2. QED
    BY <1>2, <1>3, <2>1, SubSeqProperties
<1>6. DOMAIN stack' = 1 .. (Len(stack) - 1)
  BY <1>5
<1>7. \A j : j \in DOMAIN stack' <=> j \in DOMAIN stack /\ j # Len(stack)
  BY <1>3, <1>6
<1>8. \A j \in DOMAIN stack' : stack'[j] = stack[j]
  BY <1>5, <1>6
<1>9. \A k \in DOMAIN Refs(Last.section) : k < Last.next
  <2>1. Last.section \in Sections /\ Last.next \in Nat \ {0}
    BY <1>3, <1>4 DEF Last, Frame
  <2>2. Refs(Last.section) \in Seq(Nat)
    BY <1>1, <2>1, ObjectFacts
  <2>3. QED
    BY <1>2, <2>1, <2>2
<1>10. Frames'
  <2>1. Roots' = Roots
    BY <1>2, ObjectFrame
  <2>2. stack' # <<>> => stack'[1].section = visit /\ visit \in live
    <3>1. SUFFICES ASSUME stack' # <<>> PROVE stack'[1].section = visit /\ visit \in live
      OBVIOUS
    <3>2. 1 \in DOMAIN stack'
      BY <1>5, <3>1, EmptySeq
    <3>3. QED
      BY <1>2, <1>8, <3>2 DEF CInv, Frames
  <2>3. \A j \in DOMAIN stack' : j # 1 => stack'[j].section \in protected \ Roots
    BY <1>7, <1>8 DEF CInv, Frames
  <2>4. \A j, h \in DOMAIN stack' :
          j # 1 /\ h # 1 /\ stack'[j].section = stack'[h].section => j = h
    BY <1>7, <1>8 DEF CInv, Frames
  <2>5. QED
    BY <1>2, <2>1, <2>2, <2>3, <2>4 DEF Frames
<1>11. ASSUME NEW r \in Sections, NEW k \in DOMAIN Refs(r)
       PROVE  (IsListed(r, k)' <=> IsListed(r, k)) /\ (IsCalled(r, k)' <=> IsCalled(r, k))
  <2>1. \A j \in DOMAIN stack : j = Len(stack) /\ stack[j].section = r => k < stack[j].next
    BY <1>9 DEF Last
  <2>2. r = visit => \A j \in DOMAIN stack : j = Len(stack) /\ j = 1 => k < stack[j].next
    BY <1>2, <2>1 DEF CInv, Frames
  <2>3. r = visit => ((\A j \in DOMAIN stack : j = 1 => k < stack[j].next)
                         <=> (\A j \in DOMAIN stack' : j = 1 => k < stack'[j].next))
    BY <1>7, <1>8, <2>2
  <2>4. (\A j \in DOMAIN stack : j # 1 /\ stack[j].section = r => k < stack[j].next)
           <=> (\A j \in DOMAIN stack' : j # 1 /\ stack'[j].section = r => k < stack'[j].next)
    BY <1>7, <1>8, <2>1
  <2>5. Roots' = Roots
    BY <1>2, ObjectFrame
  <2>6. IsListed(r, k)' <=> IsListed(r, k)
    BY <1>2, <2>3 DEF IsListed
  <2>7. IsCalled(r, k)' <=> IsCalled(r, k)
    BY <1>2, <2>4, <2>5 DEF IsCalled
  <2>8. QED
    BY <2>6, <2>7
<1>12. Counting'
  BY <1>2, <1>11, CountingFrame DEF CInv
<1>13. Counted'
  BY <1>2 DEF Counted
<1>14. QED
  BY <1>10, <1>12, <1>13 DEF CInv

\* A turn of the loop lists or calls the relocation that it counts, and no other.
LEMMA OneMore ==
    ASSUME NEW X, NEW Y, IsFiniteSet(X), NEW p, p \notin X, Y = X \cup {p}
    PROVE  Cardinality(Y) = Cardinality(X) + 1 /\ Cardinality(X) \in Nat
BY FS_AddElement, FS_CardinalityType

LEMMA CoveredStep ==
    ASSUME object \in ObjectType, object \in Input, object' = object,
           NEW S \in SUBSET Sections, NEW t,
           NEW s \in Sections, NEW k \in DOMAIN Refs(s),
           \A r \in Sections : \A h \in DOMAIN Refs(r) :
              /\ IsListed(r, h) => IsListed(r, h)'
              /\ IsCalled(r, h) => IsCalled(r, h)'
              /\ <<r, h>> # <<s, k>> => (IsListed(r, h)' => IsListed(r, h))
              /\ ~limited' /\ <<r, h>> # <<s, k>> => (IsCalled(r, h)' => IsCalled(r, h)),
           limited => limited',
           \/ ~IsListed(s, k) /\ IsListed(s, k)' /\ (IsCalled(s, k)' => IsCalled(s, k))
           \/ ~IsCalled(s, k) /\ IsCalled(s, k)' /\ (IsListed(s, k)' => IsListed(s, k)),
           NEW c \in Nat, Covered(c, S, t)
    PROVE  Covered(IF s \in S /\ Refs(s)[k] = t THEN c + 1 ELSE c, S, t)'
<1>1. PICK P : P = Pointing(S, t)
  OBVIOUS
<1>2. Pointing(S, t)' = P
  BY <1>1, ObjectFrame DEF Pointing
<1>3. PICK L, C, LL, CC : L = Listed(S, t) /\ C = Called(S, t) /\ LL = Listed(S, t)' /\ CC = Called(S, t)'
  OBVIOUS
<1>4. /\ L = {p \in P : IsListed(p[1], p[2])} /\ C = {p \in P : IsCalled(p[1], p[2])}
      /\ LL = {p \in P : IsListed(p[1], p[2])'} /\ CC = {p \in P : IsCalled(p[1], p[2])'}
  BY <1>1, <1>2, <1>3 DEF Listed, Called
<1>5. /\ IsFiniteSet(P)
      /\ \A p \in P : p = <<p[1], p[2]>> /\ p[1] \in S /\ p[2] \in DOMAIN Refs(p[1]) /\ Refs(p[1])[p[2]] = t
      /\ (s \in S /\ Refs(s)[k] = t) => <<s, k>> \in P
  BY <1>1, PointingFacts
<1>6. /\ IsFiniteSet(L) /\ IsFiniteSet(C) /\ IsFiniteSet(LL) /\ IsFiniteSet(CC)
      /\ Cardinality(L) \in Nat /\ Cardinality(C) \in Nat /\ Cardinality(LL) \in Nat /\ Cardinality(CC) \in Nat
  <2>1. L \subseteq P /\ C \subseteq P /\ LL \subseteq P /\ CC \subseteq P
    BY <1>4
  <2>2. QED
    BY <1>5, <2>1, FS_Subset, FS_CardinalityType
<1>7. /\ L \subseteq LL /\ C \subseteq CC /\ \A p \in LL : p # <<s, k>> => p \in L
      /\ ~limited' => \A p \in CC : p # <<s, k>> => p \in C
  BY <1>4, <1>5
<1>8. Cardinality(C) <= Cardinality(CC)
  BY <1>6, <1>7, FS_Subset
<1>9. /\ Cardinality(L) <= c /\ c <= Cardinality(L) + Cardinality(C)
      /\ ~limited' => c = Cardinality(L) + Cardinality(C)
  BY <1>3 DEF Covered
<1>10. PICK d : d = IF s \in S /\ Refs(s)[k] = t THEN c + 1 ELSE c
  OBVIOUS
<1>11. SUFFICES /\ Cardinality(LL) <= d /\ d <= Cardinality(LL) + Cardinality(CC)
                /\ ~limited' => d = Cardinality(LL) + Cardinality(CC)
  <2>1. Refs(s)' = Refs(s)
    BY ObjectFrame
  <2>2. QED
    BY <1>3, <1>10, <2>1 DEF Covered
<1>12. CASE s \in S /\ Refs(s)[k] = t
  <2>1. <<s, k>> \in P /\ d = c + 1
    BY <1>5, <1>10, <1>12
  <2>2. CASE ~IsListed(s, k) /\ IsListed(s, k)' /\ (IsCalled(s, k)' => IsCalled(s, k))
    <3>0. ~limited' => CC = C
      BY <1>4, <1>7, <2>2
    <3>1. <<s, k>> \notin L /\ <<s, k>> \in LL
      BY <1>4, <2>1, <2>2
    <3>2. LL = L \cup {<<s, k>>}
      BY <1>7, <3>1
    <3>3. Cardinality(LL) = Cardinality(L) + 1
      BY <1>6, <3>1, <3>2, OneMore
    <3>4. QED
      BY <1>6, <1>8, <1>9, <2>1, <3>0, <3>3
  <2>3. CASE ~IsCalled(s, k) /\ IsCalled(s, k)' /\ (IsListed(s, k)' => IsListed(s, k))
    <3>1. <<s, k>> \notin C /\ <<s, k>> \in CC
      BY <1>4, <2>1, <2>3
    <3>2. LL = L
      BY <1>4, <1>7, <2>3
    <3>3. Cardinality(C \cup {<<s, k>>}) = Cardinality(C) + 1
      BY <1>6, <3>1, OneMore
    <3>4. C \cup {<<s, k>>} \subseteq CC
      BY <1>7, <3>1
    <3>5. Cardinality(C) + 1 <= Cardinality(CC)
      BY <1>6, <3>3, <3>4, FS_Subset
    <3>6. ~limited' => CC = C \cup {<<s, k>>}
      BY <1>7, <3>1
    <3>7. QED
      BY <1>6, <1>9, <2>1, <3>2, <3>3, <3>5, <3>6
  <2>4. QED
    BY <2>2, <2>3
<1>13. CASE ~(s \in S /\ Refs(s)[k] = t)
  <2>1. <<s, k>> \notin P
    BY <1>5, <1>13
  <2>2. LL = L
    BY <1>4, <1>7, <2>1
  <2>3. ~limited' => CC = C
    BY <1>4, <1>7, <2>1
  <2>4. QED
    BY <1>6, <1>8, <1>9, <1>10, <1>13, <2>2, <2>3
<1>14. QED
  BY <1>12, <1>13

\* The places of the stack after a turn of the loop.
LEMMA NextFrames ==
    ASSUME IInv, FollowRelocation
    PROVE  LET s == Last.section
               t == Refs(s)[Last.next]
           IN  /\ s \in Sections /\ Last.next \in Nat \ {0} /\ t \in Sections \cup {0}
               /\ Len(stack) \in DOMAIN stack
               /\ \A j \in DOMAIN stack :
                     /\ j \in DOMAIN stack' /\ stack'[j].section = stack[j].section
                     /\ j # Len(stack) => stack'[j].next = stack[j].next
                     /\ j = Len(stack) => stack'[j].next = stack[j].next + 1
                     /\ stack[j].next \in Nat /\ j \in Nat \ {0}
               /\ \A j \in DOMAIN stack' : j \notin DOMAIN stack =>
                     j = Len(stack) + 1 /\ Newly(s, t) /\ stack'[j].section = t
               /\ Newly(s, t) /\ ~AtLimit =>
                     \E j \in DOMAIN stack' : j # 1 /\ stack'[j].section = t /\ stack'[j].next = 1
<1> DEFINE s == Last.section
           t == Refs(s)[Last.next]
<1>0. PICK moved : moved = [stack EXCEPT ![Len(stack)].next = @ + 1]
  OBVIOUS
<1>1. TypeOK /\ object \in Input /\ object \in ObjectType
  BY DEF IInv, TypeOK
<1>2. /\ stack # <<>> /\ Last.next \in DOMAIN Refs(s)
      /\ stack' = IF Newly(s, t) /\ ~AtLimit THEN Append(moved, [section |-> t, next |-> 1]) ELSE moved
  BY <1>0 DEF FollowRelocation
<1>3. /\ Len(stack) \in Nat \ {0} /\ Last \in Frame /\ moved \in Seq(Frame) /\ Len(moved) = Len(stack)
      /\ \A j \in DOMAIN stack : moved[j].section = stack[j].section
      /\ \A j \in DOMAIN stack : j # Len(stack) => moved[j].next = stack[j].next
      /\ moved[Len(stack)].next = Last.next + 1
  BY <1>0, <1>1, <1>2, MovedStack
<1>4. s \in Sections /\ Last.next \in Nat \ {0} /\ t \in Sections \cup {0}
  <2>1. s \in Sections /\ Last.next \in Nat \ {0}
    BY <1>3 DEF Frame
  <2>2. QED
    BY <1>1, <1>2, <2>1, ObjectFacts
<1>5. stack \in Seq(Frame) /\ DOMAIN stack = 1 .. Len(stack) /\ DOMAIN moved = 1 .. Len(stack)
  BY <1>1, <1>3 DEF TypeOK, Frame
<1>6. \A j \in DOMAIN stack : stack[j].next \in Nat /\ j \in Nat \ {0}
  <2>1. \A j \in DOMAIN stack : stack[j] \in Frame
    BY <1>3, <1>5, ElementOfSeq
  <2>2. QED
    BY <1>5, <2>1 DEF Frame
<1>7. \A j \in DOMAIN stack : j \in DOMAIN stack' /\ stack'[j] = moved[j]
  <2>1. CASE Newly(s, t) /\ ~AtLimit
    <3>1. [section |-> t, next |-> 1] \in Frame
      BY <1>4, <2>1 DEF Newly, Frame
    <3>2. stack' = Append(moved, [section |-> t, next |-> 1])
      BY <1>2, <2>1
    <3>3. stack' \in Seq(Frame) /\ Len(stack') = Len(stack) + 1 /\ \A j \in 1 .. Len(stack) : stack'[j] = moved[j]
      BY <1>3, <3>1, <3>2, AppendProperties
    <3>4. DOMAIN stack' = 1 .. (Len(stack) + 1)
      BY <3>3
    <3>5. QED
      BY <1>3, <1>5, <3>3, <3>4
  <2>2. CASE ~(Newly(s, t) /\ ~AtLimit)
    BY <1>2, <1>5, <2>2
  <2>3. QED
    BY <2>1, <2>2
<1>8. \A j \in DOMAIN stack' : j \notin DOMAIN stack =>
                     j = Len(stack) + 1 /\ Newly(s, t) /\ stack'[j].section = t
  <2>1. CASE Newly(s, t) /\ ~AtLimit
    <3>1. [section |-> t, next |-> 1] \in Frame
      BY <1>4, <2>1 DEF Newly, Frame
    <3>2. stack' = Append(moved, [section |-> t, next |-> 1])
      BY <1>2, <2>1
    <3>3. stack' \in Seq(Frame) /\ Len(stack') = Len(stack) + 1
          /\ stack'[Len(stack) + 1] = [section |-> t, next |-> 1]
      BY <1>3, <3>1, <3>2, AppendProperties
    <3>4. DOMAIN stack' = 1 .. (Len(stack) + 1)
      BY <3>3
    <3>5. \A j \in DOMAIN stack' : j \notin DOMAIN stack => j = Len(stack) + 1
      BY <1>3, <1>5, <3>4
    <3>6. stack'[Len(stack) + 1].section = t
      BY <3>3
    <3>7. QED
      BY <2>1, <3>5, <3>6
  <2>2. CASE ~(Newly(s, t) /\ ~AtLimit)
    BY <1>2, <1>5, <2>2
  <2>3. QED
    BY <2>1, <2>2
<1>9. Len(stack) \in DOMAIN stack
  BY <1>3, <1>5
<1>10. \A j \in DOMAIN stack :
          /\ stack'[j].section = stack[j].section
          /\ j # Len(stack) => stack'[j].next = stack[j].next
          /\ j = Len(stack) => stack'[j].next = stack[j].next + 1
  BY <1>3, <1>7 DEF Last
<1>11. ASSUME Newly(s, t), ~AtLimit
       PROVE  \E j \in DOMAIN stack' : j # 1 /\ stack'[j].section = t /\ stack'[j].next = 1
  <2>1. [section |-> t, next |-> 1] \in Frame
    BY <1>4, <1>11 DEF Newly, Frame
  <2>2. stack' = Append(moved, [section |-> t, next |-> 1])
    BY <1>2, <1>11
  <2>3. stack' \in Seq(Frame) /\ Len(stack') = Len(stack) + 1
        /\ stack'[Len(stack) + 1] = [section |-> t, next |-> 1]
    BY <1>3, <2>1, <2>2, AppendProperties
  <2>4. Len(stack) + 1 \in DOMAIN stack' /\ Len(stack) + 1 # 1
    BY <1>3, <2>3
  <2>5. QED
    BY <2>3, <2>4
<1>12. QED
  BY <1>4, <1>6, <1>7, <1>8, <1>9, <1>10, <1>11

LEMMA CountFollow == IInv /\ CInv /\ FollowRelocation => CInv'
<1> SUFFICES ASSUME IInv, CInv, FollowRelocation PROVE CInv'
  OBVIOUS
<1>0. PICK s, k, t : s = Last.section /\ k = Last.next /\ t = Refs(s)[k]
  OBVIOUS
<1>1. TypeOK /\ object \in Input /\ object \in ObjectType /\ live \subseteq Sections /\ Roots \subseteq protected
  BY DEF IInv, TypeOK, RootsProtected, FollowRelocation
<1>2. /\ phase = "check" /\ phase' = "check" /\ stack # <<>> /\ k \in DOMAIN Refs(s)
      /\ Count(s, t)
      /\ protected' = IF Newly(s, t) THEN protected \cup {t} ELSE protected
      /\ limited' = (limited \/ (Newly(s, t) /\ AtLimit))
      /\ UNCHANGED <<object, live, visit>>
  BY <1>0 DEF FollowRelocation
<1>3. /\ s \in Sections /\ k \in Nat \ {0} /\ t \in Sections \cup {0}
      /\ Len(stack) \in DOMAIN stack
      /\ \A j \in DOMAIN stack :
            /\ j \in DOMAIN stack' /\ stack'[j].section = stack[j].section
            /\ j # Len(stack) => stack'[j].next = stack[j].next
            /\ j = Len(stack) => stack'[j].next = stack[j].next + 1
            /\ stack[j].next \in Nat /\ j \in Nat \ {0}
      /\ \A j \in DOMAIN stack' : j \notin DOMAIN stack =>
            j = Len(stack) + 1 /\ Newly(s, t) /\ stack'[j].section = t
      /\ Newly(s, t) /\ ~AtLimit =>
            \E j \in DOMAIN stack' : j # 1 /\ stack'[j].section = t /\ stack'[j].next = 1
  BY <1>0, NextFrames
<1>4. stack[Len(stack)].section = s /\ stack[Len(stack)].next = k
  BY <1>0 DEF Last
<1>5. Frames /\ stack[1].section = visit /\ visit \in live /\ 1 \in DOMAIN stack
  <2>1. 1 \in DOMAIN stack
    <3>1. stack \in Seq(Frame)
      BY <1>1 DEF TypeOK, Frame
    <3>2. QED
      BY <1>2, <3>1, EmptySeq
  <2>2. QED
    BY <1>2, <2>1 DEF CInv, Frames
<1>6. Roots' = Roots /\ Sections' = Sections
  BY <1>2, ObjectFrame
<1>7. Newly(s, t) => t \notin protected /\ t \notin Roots /\ t # s /\ t \in protected'
  BY <1>1, <1>2 DEF Newly
<1>8. \A j \in DOMAIN stack' : j \in DOMAIN stack \/ (stack'[j].section = t /\ Newly(s, t) /\ j = Len(stack) + 1 /\ j # 1)
  BY <1>3
<1>9. Frames'
  <2>1. \A j \in DOMAIN stack' : j # 1 => stack'[j].section \in protected' \ Roots
    <3>1. \A j \in DOMAIN stack : j # 1 => stack'[j].section \in protected' \ Roots
      BY <1>2, <1>3, <1>5 DEF Frames
    <3>2. QED
      BY <1>7, <1>8, <3>1
  <2>2. \A j, h \in DOMAIN stack' :
          j # 1 /\ h # 1 /\ stack'[j].section = stack'[h].section => j = h
    <3>1. \A j \in DOMAIN stack : j # 1 => stack'[j].section \in protected
      BY <1>3, <1>5 DEF Frames
    <3>2. \A j, h \in DOMAIN stack :
            j # 1 /\ h # 1 /\ stack'[j].section = stack'[h].section => j = h
      BY <1>3, <1>5 DEF Frames
    <3>3. QED
      BY <1>7, <1>8, <3>1, <3>2
  <2>3. stack'[1].section = visit /\ visit \in live
    BY <1>3, <1>5
  <2>4. QED
    BY <1>2, <1>6, <2>1, <2>2, <2>3 DEF Frames
<1>10. 1 \in DOMAIN stack'
  BY <1>3, <1>5
<1>11. ASSUME NEW r \in Sections, NEW h \in DOMAIN Refs(r)
       PROVE  /\ IsListed(r, h) => IsListed(r, h)'
              /\ IsCalled(r, h) => IsCalled(r, h)'
              /\ <<r, h>> # <<s, k>> => (IsListed(r, h)' => IsListed(r, h))
              /\ ~limited' /\ <<r, h>> # <<s, k>> => (IsCalled(r, h)' => IsCalled(r, h))
  <2>1. h \in Nat \ {0}
    BY <1>1, ObjectFacts
  <2>2. IsListed(r, h) <=> r \in live /\ (r < visit \/ (r = visit /\ h < stack[1].next))
    BY <1>5 DEF IsListed
  <2>3. IsListed(r, h)' <=> r \in live /\ (r < visit \/ (r = visit /\ h < stack'[1].next))
    BY <1>2, <1>10 DEF IsListed
  <2>4. stack'[1].next = stack[1].next \/ (stack'[1].next = k + 1 /\ stack[1].next = k /\ s = visit)
    BY <1>3, <1>4, <1>5
  <2>5. stack[1].next \in Nat
    BY <1>3, <1>5
  <2>6. IsListed(r, h) => IsListed(r, h)'
    BY <1>3, <2>1, <2>2, <2>3, <2>4, <2>5
  <2>7. <<r, h>> # <<s, k>> => (IsListed(r, h)' => IsListed(r, h))
    <3>1. SUFFICES ASSUME r # s \/ h # k, IsListed(r, h)' PROVE IsListed(r, h)
      OBVIOUS
    <3>2. QED
      BY <1>3, <2>1, <2>2, <2>3, <2>4, <2>5, <3>1
  <2>8. IsCalled(r, h) => IsCalled(r, h)'
    <3>1. SUFFICES ASSUME IsCalled(r, h) PROVE IsCalled(r, h)'
      OBVIOUS
    <3>2. r \in protected' \ Roots
      BY <1>2, <3>1 DEF IsCalled
    <3>3. ASSUME NEW j \in DOMAIN stack', j # 1, stack'[j].section = r PROVE h < stack'[j].next
      <4>1. j \in DOMAIN stack
        BY <1>7, <1>8, <3>1, <3>3 DEF IsCalled
      <4>2. h < stack[j].next /\ stack[j].next \in Nat
        BY <1>3, <3>1, <3>3, <4>1 DEF IsCalled
      <4>3. stack'[j].next = stack[j].next \/ stack'[j].next = stack[j].next + 1
        BY <1>3, <4>1
      <4>4. QED
        BY <2>1, <4>2, <4>3
    <3>4. QED
      BY <1>6, <3>2, <3>3 DEF IsCalled
  <2>9. ~limited' /\ <<r, h>> # <<s, k>> => (IsCalled(r, h)' => IsCalled(r, h))
    <3>1. SUFFICES ASSUME ~limited', r # s \/ h # k, IsCalled(r, h)' PROVE IsCalled(r, h)
      OBVIOUS
    <3>2. r \in protected'
      BY <3>1 DEF IsCalled
    <3>3. r \in protected
      <4>1. SUFFICES ASSUME Newly(s, t), r = t PROVE FALSE
        BY <1>2, <3>2
      <4>2. PICK j \in DOMAIN stack' : j # 1 /\ stack'[j].section = t /\ stack'[j].next = 1
        BY <1>2, <1>3, <3>1, <4>1
      <4>3. h < 1
        BY <3>1, <4>1, <4>2 DEF IsCalled
      <4>4. QED
        BY <2>1, <4>3
    <3>4. ASSUME NEW j \in DOMAIN stack, j # 1, stack[j].section = r PROVE h < stack[j].next
      <4>1. h < stack'[j].next
        BY <1>3, <3>1, <3>4 DEF IsCalled
      <4>2. j = Len(stack) => r = s /\ stack[j].next = k /\ stack'[j].next = k + 1
        BY <1>3, <1>4, <3>4
      <4>3. j # Len(stack) => stack'[j].next = stack[j].next
        BY <1>3, <3>4
      <4>4. QED
        BY <1>3, <2>1, <3>1, <4>1, <4>2, <4>3
    <3>5. QED
      BY <1>6, <3>1, <3>3, <3>4 DEF IsCalled
  <2>10. QED
    BY <2>6, <2>7, <2>8, <2>9
<1>12. \/ ~IsListed(s, k) /\ IsListed(s, k)' /\ (IsCalled(s, k)' => IsCalled(s, k))
       \/ ~IsCalled(s, k) /\ IsCalled(s, k)' /\ (IsListed(s, k)' => IsListed(s, k))
  <2>1. CASE Len(stack) = 1
    <3>1. s = visit /\ stack[1].next = k /\ stack'[1].next = k + 1
      BY <1>3, <1>4, <1>5, <2>1
    <3>2. visit \in Nat
      BY <1>1 DEF TypeOK
    <3>3. ~IsListed(s, k)
      BY <1>3, <1>5, <3>1, <3>2 DEF IsListed
    <3>4. IsListed(s, k)'
      BY <1>2, <1>3, <1>5, <3>1 DEF IsListed
    <3>5. IsCalled(s, k)' => IsCalled(s, k)
      <4>1. SUFFICES ASSUME IsCalled(s, k)' PROVE IsCalled(s, k)
        OBVIOUS
      <4>2. s \in protected \ Roots
        BY <1>2, <1>6, <1>7, <4>1 DEF IsCalled
      <4>3. \A j \in DOMAIN stack : j # 1 => stack'[j].next = stack[j].next
        BY <1>3, <2>1
      <4>4. QED
        BY <1>3, <4>1, <4>2, <4>3 DEF IsCalled
    <3>6. QED
      BY <3>3, <3>4, <3>5
  <2>2. CASE Len(stack) # 1
    <3>1. ~IsCalled(s, k)
      <4>1. ~(k < stack[Len(stack)].next)
        BY <1>3, <1>4
      <4>2. QED
        BY <1>3, <1>4, <2>2, <4>1 DEF IsCalled
    <3>2. s \in protected' \ Roots
      BY <1>2, <1>3, <1>4, <1>5, <2>2 DEF Frames
    <3>3. ASSUME NEW j \in DOMAIN stack', j # 1, stack'[j].section = s PROVE k < stack'[j].next
      <4>1. j \in DOMAIN stack
        BY <1>7, <1>8, <3>3
      <4>2. stack[j].section = s
        BY <1>3, <3>3, <4>1
      <4>3. j = Len(stack)
        BY <1>3, <1>4, <1>5, <2>2, <3>3, <4>1, <4>2 DEF Frames
      <4>4. QED
        BY <1>3, <1>4, <4>1, <4>3
    <3>4. IsCalled(s, k)'
      BY <1>6, <3>2, <3>3 DEF IsCalled
    <3>5. stack'[1].next = stack[1].next
      BY <1>3, <1>5, <2>2
    <3>6. IsListed(s, k)' => IsListed(s, k)
      BY <1>2, <1>5, <1>10, <3>5 DEF IsListed
    <3>7. QED
      BY <3>1, <3>4, <3>6
  <2>3. QED
    BY <2>1, <2>2
<1>13. ASSUME NEW S \in SUBSET Sections, NEW u, NEW c \in Nat, Covered(c, S, u)
       PROVE  Covered(IF s \in S /\ t = u THEN c + 1 ELSE c, S, u)'
  <2>1. object' = object
    BY <1>2
  <2>2. limited => limited'
    BY <1>2
  <2>3. object \in ObjectType /\ object \in Input /\ s \in Sections /\ k \in DOMAIN Refs(s)
    BY <1>1, <1>2, <1>3
  <2>4. Covered(IF s \in S /\ Refs(s)[k] = u THEN c + 1 ELSE c, S, u)'
    BY <1>11, <1>12, <1>13, <2>1, <2>2, <2>3, CoveredStep
  <2>5. Refs(s)' = Refs(s)
    BY <1>2, ObjectFrame
  <2>6. QED
    BY <1>0, <2>4, <2>5 DEF Covered
<1>14. Counting'
  <2> SUFFICES ASSUME NEW u \in live
               PROVE  /\ all'[u] = own'[u] + other'[u]
                      /\ Covered(own[u], {u}, u)'
                      /\ Covered(other[u], Sections \ {u}, u)'
    BY <1>2 DEF Counting
  <2>1. /\ all[u] = own[u] + other[u]
        /\ Covered(own[u], {u}, u) /\ Covered(other[u], Sections \ {u}, u)
    BY <1>2 DEF CInv, Counting
  <2>2. u \in Sections /\ u # 0 /\ own[u] \in Nat /\ other[u] \in Nat /\ all[u] \in Nat
    BY <1>1, ObjectFacts DEF TypeOK
  <2>3. PICK a, b, S : a = own[u] /\ b = other[u] /\ S = Sections \ {u}
    OBVIOUS
  <2>4. /\ own'[u] = IF s = u /\ t = u THEN a + 1 ELSE a
        /\ other'[u] = IF s # u /\ t = u THEN b + 1 ELSE b
        /\ all'[u] = IF t = u THEN all[u] + 1 ELSE all[u]
    <3>1. all \in [Sections -> Nat] /\ own \in [Sections -> Nat] /\ other \in [Sections -> Nat]
      BY <1>1 DEF TypeOK
    <3>2. CASE t = 0
      BY <1>2, <2>2, <2>3, <3>2 DEF Count
    <3>3. CASE t # 0
      <4>1. /\ all' = [all EXCEPT ![t] = @ + 1]
            /\ own' = IF t = s THEN [own EXCEPT ![t] = @ + 1] ELSE own
            /\ other' = IF t # s THEN [other EXCEPT ![t] = @ + 1] ELSE other
        BY <1>2, <3>3 DEF Count
      <4>2. QED
        BY <2>2, <2>3, <3>1, <4>1
    <3>4. QED
      BY <3>2, <3>3
  <2>5. Covered(IF s \in {u} /\ t = u THEN a + 1 ELSE a, {u}, u)'
    BY <1>13, <2>1, <2>2, <2>3
  <2>6. Covered(IF s \in S /\ t = u THEN b + 1 ELSE b, S, u)'
    <3>1. S \in SUBSET Sections
      BY <2>3
    <3>2. QED
      BY <1>13, <2>1, <2>2, <2>3, <3>1
  <2>7. Covered(own[u], {u}, u)'
    <3>1. (IF s \in {u} /\ t = u THEN a + 1 ELSE a) = own'[u]
      BY <2>4
    <3>2. QED
      BY <2>5, <3>1 DEF Covered
  <2>8. Covered(other[u], Sections \ {u}, u)'
    <3>1. (IF s \in S /\ t = u THEN b + 1 ELSE b) = other'[u]
      BY <1>3, <2>3, <2>4
    <3>2. S = (Sections \ {u})'
      BY <1>6, <2>3
    <3>3. QED
      BY <2>6, <3>1, <3>2 DEF Covered
  <2>9. all'[u] = own'[u] + other'[u]
    BY <2>1, <2>2, <2>3, <2>4
  <2>10. QED
    BY <2>7, <2>8, <2>9
<1>15. Counted'
  BY <1>2 DEF Counted
<1>16. QED
  BY <1>9, <1>14, <1>15 DEF CInv

\* At the end of the list everything of the sections on it is listed.
LEMMA CountEnd == IInv /\ Replay /\ CInv /\ EndCheck => CInv'
<1> SUFFICES ASSUME IInv, Replay, CInv, EndCheck PROVE CInv'
  OBVIOUS
<1>1. TypeOK /\ object \in Input /\ object \in ObjectType
      /\ live \subseteq Sections /\ protected \subseteq Sections /\ visit \in Nat
  BY DEF IInv, TypeOK
<1>2. /\ phase = "check" /\ phase' \in {"remove", "clear", "done"} /\ stack = <<>>
      /\ \A s \in live : s <= visit
      /\ UNCHANGED <<object, live, protected, all, own, other, stack, visit, limited>>
  BY DEF EndCheck
<1>3. Frames'
  BY <1>2 DEF Frames
<1>4. Counting'
  BY <1>2 DEF Counting
<1>5. \A s, k : IsListed(s, k) <=> s \in live
  <2>1. DOMAIN stack = {} /\ \A s \in live : s \in Nat
    BY <1>1, <1>2, ObjectFacts
  <2>2. QED
    BY <1>1, <1>2, <2>1 DEF IsListed
<1>6. \A s, k : IsCalled(s, k) <=> s \in CalledAgain
  <2>1. DOMAIN stack = {}
    BY <1>2
  <2>2. QED
    BY <2>1 DEF IsCalled, CalledAgain
<1>7. ASSUME NEW S \in SUBSET Sections, NEW t
      PROVE  /\ Listed(S, t) = Pointing(S \cap live, t)
             /\ Called(S, t) = Pointing(S \cap CalledAgain, t)
  <2>1. ASSUME NEW A PROVE {p \in Pointing(S, t) : p[1] \in A} = Pointing(S \cap A, t)
    <3>1. ASSUME NEW p \in Pointing(S, t), p[1] \in A PROVE p \in Pointing(S \cap A, t)
      <4>1. p = <<p[1], p[2]>> /\ p[1] \in S \cap A /\ p[2] \in DOMAIN Refs(p[1]) /\ Refs(p[1])[p[2]] = t
        BY <1>1, <3>1, PointingFacts
      <4>2. S \cap A \in SUBSET Sections
        OBVIOUS
      <4>3. QED
        BY <1>1, <4>1, <4>2, PointingFacts
    <3>2. ASSUME NEW p \in Pointing(S \cap A, t) PROVE p \in Pointing(S, t) /\ p[1] \in A
      <4>1. S \cap A \in SUBSET Sections
        OBVIOUS
      <4>2. p = <<p[1], p[2]>> /\ p[1] \in S \cap A /\ p[2] \in DOMAIN Refs(p[1]) /\ Refs(p[1])[p[2]] = t
        BY <1>1, <4>1, PointingFacts
      <4>3. QED
        BY <1>1, <4>2, PointingFacts
    <3>3. QED
      BY <3>1, <3>2
  <2>2. Listed(S, t) = {p \in Pointing(S, t) : p[1] \in live}
    BY <1>5 DEF Listed
  <2>3. Called(S, t) = {p \in Pointing(S, t) : p[1] \in CalledAgain}
    BY <1>6 DEF Called
  <2>4. QED
    BY <2>1, <2>2, <2>3
<1>8. Counted'
  <2>1. \A c, A, t : IsCountOf(c, A, t)' <=> IsCountOf(c, A, t)
    BY <1>2, CountOfFrame
  <2> SUFFICES ASSUME NEW t \in live
               PROVE  /\ all[t] = own[t] + other[t]
                      /\ IsCountOf(own[t], {t}, t)
                      /\ IsCountOf(other[t], live \ {t}, t)
    BY <1>2, <2>1 DEF Counted
  <2>2. /\ all[t] = own[t] + other[t]
        /\ Covered(own[t], {t}, t) /\ Covered(other[t], Sections \ {t}, t)
    BY <1>2 DEF CInv, Counting
  <2>3. ASSUME NEW S \in SUBSET Sections, NEW A \in SUBSET Sections, NEW c \in Nat,
               S \cap live = A, S \cap CalledAgain = A \cap CalledAgain, Covered(c, S, t)
        PROVE  IsCountOf(c, A, t)
    <3>1. Cardinality(Listed(S, t)) = References(A, t)
      BY <1>7, <2>3 DEF References
    <3>2. Cardinality(Called(S, t)) = References(A \cap CalledAgain, t)
      BY <1>7, <2>3 DEF References
    <3>3. A \cap CalledAgain \in SUBSET Sections
      OBVIOUS
    <3>4. References(A, t) \in Nat /\ References(A \cap CalledAgain, t) \in Nat
      BY <1>1, <3>3, CountFacts
    <3>5. QED
      BY <2>3, <3>1, <3>2, <3>4 DEF Covered, IsCountOf
  <2>4. CalledAgain \subseteq live
    BY ProtectedIsLive DEF CalledAgain
  <2>5. t \in Sections /\ own[t] \in Nat /\ other[t] \in Nat
    BY <1>1 DEF TypeOK
  <2>6. IsCountOf(own[t], {t}, t)
    <3>1. {t} \in SUBSET Sections /\ {t} \cap live = {t}
      BY <2>5
    <3>2. QED
      BY <2>2, <2>3, <2>5, <3>1
  <2>7. IsCountOf(other[t], live \ {t}, t)
    <3>1. PICK S, A : S = Sections \ {t} /\ A = live \ {t}
      OBVIOUS
    <3>2. /\ S \in SUBSET Sections /\ A \in SUBSET Sections /\ S \cap live = A
          /\ S \cap CalledAgain = A \cap CalledAgain
      BY <1>1, <2>4, <3>1
    <3>3. IsCountOf(other[t], A, t)
      BY <2>2, <2>3, <2>5, <3>1, <3>2
    <3>4. QED
      BY <3>1, <3>3
  <2>8. QED
    BY <2>2, <2>6, <2>7
<1>9. QED
  BY <1>3, <1>4, <1>8 DEF CInv

LEMMA CountRemove == IInv /\ Replay /\ CInv /\ RemoveDeadSections => CInv'
<1> SUFFICES ASSUME IInv, Replay, CInv, RemoveDeadSections PROVE CInv'
  OBVIOUS
<1>1. TypeOK /\ object \in Input /\ object \in ObjectType
      /\ live \subseteq Sections /\ protected \subseteq Sections
  BY DEF IInv, TypeOK
<1>2. PICK dead : dead = live \ protected
  OBVIOUS
<1>3. /\ phase = "remove" /\ phase' \in {"done", "clear"} /\ live' = live \ dead
      /\ all' = [t \in Sections |-> Minus(all[t], References(dead, t))]
      /\ own' = [t \in Sections |-> Minus(own[t], References(dead \cap {t}, t))]
      /\ other' = [t \in Sections |-> Minus(other[t], References(dead \ {t}, t))]
      /\ UNCHANGED <<object, protected, stack, visit, limited>>
  BY <1>2 DEF RemoveDeadSections
<1>4. stack = <<>>
  BY <1>3 DEF Replay
<1>5. Frames'
  BY <1>3, <1>4 DEF Frames
<1>6. Counting'
  BY <1>3 DEF Counting
<1>7. Counted'
  <2>1. \A c, A, t : IsCountOf(c, A, t)' <=> IsCountOf(c, A, t)
    BY <1>3, CountOfFrame
  <2> SUFFICES ASSUME NEW t \in live \ dead
               PROVE  /\ all'[t] = own'[t] + other'[t]
                      /\ IsCountOf(own'[t], {t}, t)
                      /\ IsCountOf(other'[t], (live \ dead) \ {t}, t)
    <3>1. \A t : (live \ {t})' = (live \ dead) \ {t}
      BY <1>3
    <3>2. \A t : /\ IsCountOf(own[t], {t}, t)' <=> IsCountOf(own'[t], {t}, t)
                /\ IsCountOf(other[t], live \ {t}, t)' <=> IsCountOf(other'[t], (live \ dead) \ {t}, t)
      BY <1>3, <2>1, <3>1
    <3>3. QED
      BY <1>3, <3>2 DEF Counted
  <2>2. PICK left : left = (live \ dead) \ {t}
    OBVIOUS
  <2>3. /\ t \in Sections /\ t \in live /\ left \in SUBSET Sections /\ dead \in SUBSET Sections
        /\ left \cap dead = {} /\ left \cup dead = live \ {t} /\ dead \ {t} = dead /\ dead \cap {t} = {}
        /\ (live \ {t}) \cap CalledAgain = left \cap CalledAgain
        /\ left \cap CalledAgain \in SUBSET Sections
    BY <1>1, <1>2, <2>2 DEF CalledAgain
  <2>4. References(live \ {t}, t) = References(left, t) + References(dead, t)
    BY <1>1, <2>3, ReferencesSum
  <2>5. /\ References(left, t) \in Nat /\ References(dead, t) \in Nat
        /\ References(left \cap CalledAgain, t) \in Nat
        /\ all[t] \in Nat /\ own[t] \in Nat /\ other[t] \in Nat
    BY <1>1, <2>3, CountFacts DEF TypeOK
  <2>6. References({}, t) = 0
    <3>1. Pointing({}, t) = {}
      BY DEF Pointing
    <3>2. QED
      BY <3>1, FS_EmptySet DEF References
  <2>7. /\ all[t] = own[t] + other[t]
        /\ IsCountOf(own[t], {t}, t)
        /\ IsCountOf(other[t], live \ {t}, t)
    BY <1>3, <2>3 DEF CInv, Counted
  <2>8. /\ all'[t] = Minus(all[t], References(dead, t))
        /\ own'[t] = Minus(own[t], 0)
        /\ other'[t] = Minus(other[t], References(dead, t))
    BY <1>3, <2>3, <2>6
  <2>9. own'[t] = own[t]
    BY <2>5, <2>8 DEF Minus
  <2>10. PICK n, m, d : /\ n = References(left, t) /\ m = References(left \cap CalledAgain, t)
                        /\ d = References(dead, t)
    OBVIOUS
  <2>11. other[t] \in (n + d) .. (n + d + m) /\ (~limited => other[t] = n + d + m)
    BY <2>3, <2>4, <2>7, <2>10 DEF IsCountOf
  <2>12. other'[t] = other[t] - d /\ all'[t] = all[t] - d
    BY <2>5, <2>7, <2>8, <2>10, <2>11 DEF Minus
  <2>13. all'[t] = own'[t] + other'[t]
    BY <2>5, <2>7, <2>9, <2>10, <2>12
  <2>14. other'[t] \in n .. (n + m) /\ (~limited => other'[t] = n + m)
    BY <2>5, <2>10, <2>11, <2>12
  <2>15. IsCountOf(other'[t], left, t)
    BY <2>10, <2>14 DEF IsCountOf
  <2>16. QED
    BY <2>2, <2>7, <2>9, <2>13, <2>15
<1>8. QED
  BY <1>5, <1>6, <1>7 DEF CInv

LEMMA CountStutter == CInv /\ UNCHANGED vars => CInv'
<1> SUFFICES ASSUME CInv, UNCHANGED vars PROVE CInv'
  OBVIOUS
<1>1. UNCHANGED <<object, live, protected, all, own, other, stack, visit, phase, limited>>
  BY DEF vars
<1>2. Roots' = Roots /\ Sections' = Sections /\ \A S, t : Pointing(S, t)' = Pointing(S, t)
  BY <1>1, ObjectFrame DEF Pointing
<1>3. Frames'
  BY <1>1, <1>2 DEF CInv, Frames
<1>4. \A s, k : (IsListed(s, k)' <=> IsListed(s, k)) /\ (IsCalled(s, k)' <=> IsCalled(s, k))
  BY <1>1, <1>2 DEF IsListed, IsCalled
<1>5. \A S, t : Listed(S, t)' = Listed(S, t) /\ Called(S, t)' = Called(S, t)
  BY <1>2, <1>4 DEF Listed, Called
<1>6. \A c, S, t : Covered(c, S, t)' <=> Covered(c, S, t)
  BY <1>1, <1>5 DEF Covered
<1>7. Counting'
  <2>1. \A t : /\ Covered(own[t], {t}, t)' <=> Covered(own[t], {t}, t)
               /\ Covered(other[t], Sections \ {t}, t)' <=> Covered(other[t], Sections \ {t}, t)
    BY <1>1, <1>2, <1>5 DEF Covered
  <2>2. QED
    BY <1>1, <2>1 DEF CInv, Counting
<1>8. Counted'
  <2>1. \A c, A, t : IsCountOf(c, A, t)' <=> IsCountOf(c, A, t)
    BY <1>1, CountOfFrame
  <2>2. QED
    BY <1>1, <2>1 DEF CInv, Counted
<1>9. QED
  BY <1>3, <1>7, <1>8 DEF CInv

(***************************************************************************)
(* For every object and limit: a counter has the relocations of what is    *)
(* left, those of the sections that the recursion was called for twice; at *)
(* the limit of the depth it has at least the former and no more than the  *)
(* latter.  So zero means none, and one means one.                         *)
(***************************************************************************)
THEOREM CountersKnown == Spec => []CountsAreKnown
<1>1. Init => CInv
  BY DEF Init, CInv, Frames, Counting, Counted
<1>2. IInv /\ Replay /\ CInv /\ [Next]_vars => CInv'
  BY CountClear, CountVisit, CountFollow, CountReturn, CountEnd, CountRemove, CountStutter DEF Next
<1>3. CInv => CountsAreKnown
  BY DEF CInv, Counted, CountsAreKnown
<1>4. QED
  BY <1>1, <1>2, <1>3, Invariance, Replayed, PTL DEF Spec
=============================================================================
