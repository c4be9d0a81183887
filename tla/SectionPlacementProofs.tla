------------------------ MODULE SectionPlacementProofs ------------------------
(***************************************************************************)
(* No byte of memory is given to two sections, every section lies in a     *)
(* definition made for it and none is forgotten, for every object and      *)
(* every linker script.                                                    *)
(***************************************************************************)
EXTENDS SectionPlacement, WellFoundedInduction, TLAPS

(***************************************************************************)
(* Facts about the blocks that _search_memory finds.                       *)
(***************************************************************************)

(***************************************************************************)
(* A block that the search of a section definition reports is not empty    *)
(* and lies between the first and the last address of the definition.      *)
(***************************************************************************)
LEMMA BlockBounds ==
    ASSUME NEW taken, NEW start \in Int, NEW stop \in Int,
           NEW b \in BlocksFound(taken, start, stop)
    PROVE  /\ b = [address |-> b.address, size |-> b.size]
           /\ b.address \in Int
           /\ b.size \in Nat \ {0}
           /\ start <= b.address
           /\ b.address + b.size - 1 <= stop
           /\ b.address \notin taken
<1>1. CASE \E a, e : /\ a \in Openings(taken, start, stop)
                     /\ e \in (start + 1) .. stop
                     /\ Closes(taken, start, stop, a, e)
                     /\ b = [address |-> a, size |-> e - a + (IF e = stop THEN 1 ELSE 0)]
  <2>1. PICK a, e : /\ a \in Openings(taken, start, stop)
                    /\ e \in (start + 1) .. stop
                    /\ Closes(taken, start, stop, a, e)
                    /\ b = [address |-> a, size |-> e - a + (IF e = stop THEN 1 ELSE 0)]
    BY <1>1
  <2>2. /\ a \in Int /\ start <= a /\ a < stop /\ a \notin taken
        /\ e \in Int /\ a < e /\ e <= stop
    BY <2>1 DEF Openings, Closes
  <2>3. b.address = a /\ b.size = e - a + (IF e = stop THEN 1 ELSE 0)
    BY <2>1
  <2>4. QED
    BY <2>1, <2>2, <2>3
<1>2. CASE b = [address |-> start, size |-> 1] /\ start = stop /\ start \notin taken
  BY <1>2
<1>3. QED
  BY <1>1, <1>2 DEF BlocksFound

(***************************************************************************)
(* Whatever block the search selects, the smallest or the first, was large *)
(* enough and was found in the definition.                                 *)
(***************************************************************************)
LEMMA SelectedBlock ==
    ASSUME NEW taken, NEW start \in Int, NEW stop \in Int, NEW size \in Nat, NEW b,
           b \in SmallestBlock(taken, start, stop, size) \/ b \in FirstBlock(taken, start, stop, size)
    PROVE  b \in BlocksFound(taken, start, stop) /\ b.size >= size
BY DEF SmallestBlock, FirstBlock, Fitting

\* A set of numbers has a least one.
LEMMA LeastNumber ==
    ASSUME NEW S \in SUBSET Nat, S # {}
    PROVE  \E x \in S : \A y \in S : x <= y
<1>1. \A x, y \in Nat : <<y, x>> \in OpToRel(<, Nat) <=> y < x
  BY DEF OpToRel
<1>2. PICK x \in S : \A y \in S : ~(<<y, x>> \in OpToRel(<, Nat))
  BY NatLessThanWellFounded, WFMin
<1>3. ASSUME NEW y \in S PROVE x <= y
  <2>1. x \in Nat /\ y \in Nat /\ ~(y < x)
    BY <1>1, <1>2
  <2>2. QED
    BY <2>1
<1>4. QED
  BY <1>3

(***************************************************************************)
(* No run of unused bytes escapes the search: a block that holds it is     *)
(* found.  A run of one byte may, when it is the last byte.                *)
(***************************************************************************)
LEMMA RunIsFound ==
    ASSUME NEW taken, NEW start \in Nat, NEW stop \in Nat, NEW n \in Nat, n >= 2,
           NEW a \in start .. (stop - n + 1), IsFree(taken, a, n)
    PROVE  \E b \in Fitting(taken, start, stop, n) : b.address <= a
<1> DEFINE S == {x \in start .. a : \A i \in x .. a : i \notin taken}
           T == {e \in (a + 1) .. stop : e = stop \/ e \in taken}
<1>1. /\ a \in Nat /\ start <= a /\ a + n - 1 <= stop /\ a + 1 <= stop
      /\ \A i \in a .. (a + n - 1) : i \notin taken
  BY DEF IsFree
<1>2. PICK x \in S : \A y \in S : x <= y
  <2>1. a \in S
    BY <1>1
  <2>2. S \in SUBSET Nat
    OBVIOUS
  <2>3. QED
    BY <2>1, <2>2, LeastNumber
<1>3. PICK e \in T : \A f \in T : e <= f
  <2>1. stop \in T
    BY <1>1
  <2>2. T \in SUBSET Nat
    BY <1>1
  <2>3. QED
    BY <2>1, <2>2, LeastNumber
<1>4. /\ x \in Nat /\ start <= x /\ x <= a /\ x < stop
      /\ \A i \in x .. a : i \notin taken
  BY <1>1, <1>2
<1>5. x = start \/ x - 1 \in taken
  <2>1. SUFFICES ASSUME x # start, x - 1 \notin taken PROVE FALSE
    OBVIOUS
  <2>2. x - 1 \in start .. a /\ \A i \in (x - 1) .. a : i = x - 1 \/ i \in x .. a
    BY <1>1, <1>4, <2>1
  <2>3. x - 1 \in S
    BY <1>4, <2>1, <2>2
  <2>4. QED
    BY <1>2, <1>4, <2>3
<1>6. x \in Openings(taken, start, stop)
  <2>1. x \in start .. (stop - 1) /\ x \notin taken
    BY <1>1, <1>4
  <2>2. QED
    BY <1>5, <2>1 DEF Openings
<1>7. /\ e \in Nat /\ a < e /\ e <= stop
      /\ e = stop \/ e \in taken
  BY <1>1, <1>3
<1>8. ASSUME NEW i \in (x + 1) .. (e - 1) PROVE i \notin taken
  <2>1. CASE i <= a
    BY <1>4, <2>1
  <2>2. CASE a < i
    <3>1. i \in (a + 1) .. stop /\ i < e
      BY <1>1, <1>4, <1>7, <2>2
    <3>2. QED
      BY <1>3, <1>7, <3>1
  <2>3. QED
    BY <1>1, <1>4, <1>7, <2>1, <2>2
<1>9. e \in (x + 1) .. stop /\ Closes(taken, start, stop, x, e)
  <2>1. e \in (x + 1) .. stop
    BY <1>4, <1>7
  <2>2. QED
    BY <1>7, <1>8, <2>1 DEF Closes
<1> DEFINE b == [address |-> x, size |-> e - x + (IF e = stop THEN 1 ELSE 0)]
<1>10. b \in BlocksFound(taken, start, stop)
  BY <1>6, <1>9 DEF BlocksFound
<1>11. e = stop \/ a + n <= e
  <2>1. e \in taken => ~(e \in a .. (a + n - 1))
    BY <1>1
  <2>2. QED
    BY <1>1, <1>7, <2>1
<1>12. b.address = x /\ b.size >= n
  BY <1>1, <1>4, <1>7, <1>11
<1>13. QED
  BY <1>4, <1>10, <1>12 DEF Fitting

(***************************************************************************)
(* When a block fits one is selected.                                      *)
(***************************************************************************)
LEMMA FoundIsSelected ==
    ASSUME NEW taken, NEW start \in Nat, NEW stop \in Nat, NEW n \in Nat,
           NEW b \in Fitting(taken, start, stop, n)
    PROVE  /\ SmallestBlock(taken, start, stop, n) # {}
           /\ \E c \in FirstBlock(taken, start, stop, n) : c.address <= b.address
<1> DEFINE fits == Fitting(taken, start, stop, n)
<1>1. ASSUME NEW c \in fits PROVE c.address \in Nat /\ c.size \in Nat
  <2>1. c \in BlocksFound(taken, start, stop)
    BY DEF Fitting
  <2>2. /\ c.address \in Int /\ c.size \in Nat \ {0} /\ start <= c.address
    BY <2>1, BlockBounds
  <2>3. QED
    BY <2>2
<1> HIDE DEF fits
<1>2. b \in fits
  BY DEF fits
<1>3. ASSUME NEW F \in SUBSET fits, F # {}
      PROVE  \E c \in F : \A d \in F : c.address <= d.address
  <2> DEFINE S == {c.address : c \in F}
  <2>1. S \in SUBSET Nat /\ S # {}
    BY <1>1, <1>3
  <2>2. PICK x \in S : \A y \in S : x <= y
    BY <2>1, LeastNumber
  <2>3. QED
    BY <2>2
<1>4. PICK least \in fits : \A d \in fits : least.address <= d.address
  BY <1>2, <1>3
<1>5. least \in FirstBlock(taken, start, stop, n)
  BY <1>4 DEF FirstBlock, fits
<1>6. PICK s \in {c.size : c \in fits} : \A t \in {c.size : c \in fits} : s <= t
  <2>1. {c.size : c \in fits} \in SUBSET Nat /\ {c.size : c \in fits} # {}
    BY <1>1, <1>2
  <2>2. QED
    BY <2>1, LeastNumber
<1>7. PICK c \in {d \in fits : d.size = s} : \A d \in {d \in fits : d.size = s} : c.address <= d.address
  <2>1. {d \in fits : d.size = s} # {} /\ {d \in fits : d.size = s} \in SUBSET fits
    BY <1>6
  <2>2. QED
    BY <1>3, <2>1
<1>8. c \in fits /\ \A d \in fits : c.size < d.size \/ (c.size = d.size /\ c.address <= d.address)
  <2>1. ASSUME NEW d \in fits
        PROVE  c.size < d.size \/ (c.size = d.size /\ c.address <= d.address)
    <3>1. s <= d.size /\ c.size = s /\ c.size \in Nat /\ d.size \in Nat
      BY <1>1, <1>6, <1>7
    <3>2. d.size = s => c.address <= d.address
      BY <1>7
    <3>3. QED
      BY <3>1, <3>2
  <2>2. QED
    BY <1>7, <2>1
<1>9. c \in SmallestBlock(taken, start, stop, n)
  BY <1>8 DEF SmallestBlock, fits
<1>10. QED
  BY <1>2, <1>4, <1>5, <1>9

(***************************************************************************)
(* Where bytes are used in pairs, at an even address and the next, blocks  *)
(* begin at even addresses and have even sizes.                            *)
(***************************************************************************)
PairedIn(taken, start, stop) ==
    \A a \in start .. stop : a % 2 = 0 => (a \in taken <=> a + 1 \in taken)

LEMMA EvenBlocks ==
    ASSUME NEW taken, NEW start \in Nat, NEW stop \in Nat, start % 2 = 0, stop % 2 = 1,
           PairedIn(taken, start, stop), NEW b \in BlocksFound(taken, start, stop)
    PROVE  b.address % 2 = 0 /\ b.size % 2 = 0
<1>1. start # stop
  OBVIOUS
<1>2. PICK a, e : /\ a \in Openings(taken, start, stop)
                  /\ e \in (start + 1) .. stop
                  /\ Closes(taken, start, stop, a, e)
                  /\ b = [address |-> a, size |-> e - a + (IF e = stop THEN 1 ELSE 0)]
  BY <1>1 DEF BlocksFound
<1>3. /\ a \in Nat /\ start <= a /\ a < stop /\ a \notin taken
      /\ a = start \/ a - 1 \in taken
      /\ e \in Nat /\ a < e /\ e <= stop
      /\ e = stop \/ e \in taken
      /\ \A i \in (a + 1) .. (e - 1) : i \notin taken
  BY <1>2 DEF Openings, Closes
<1>4. a % 2 = 0
  <2>1. SUFFICES ASSUME a % 2 = 1 PROVE FALSE
    BY <1>3
  <2>2. a - 1 \in taken /\ a - 1 \in start .. stop /\ (a - 1) % 2 = 0 /\ (a - 1) + 1 = a
    BY <1>3, <2>1
  <2>3. QED
    BY <1>3, <2>2 DEF PairedIn
<1>5. e = stop \/ e % 2 = 0
  <2>1. SUFFICES ASSUME e # stop, e % 2 = 1 PROVE FALSE
    BY <1>3
  <2>2. e \in taken /\ e - 1 \in start .. stop /\ (e - 1) % 2 = 0 /\ (e - 1) + 1 = e
    BY <1>3, <2>1
  <2>3. e - 1 \in taken
    BY <2>2 DEF PairedIn
  <2>4. e - 1 = a \/ e - 1 \in (a + 1) .. (e - 1)
    BY <1>3
  <2>5. QED
    BY <1>3, <2>3, <2>4
<1>6. b.address = a /\ b.size = e - a + (IF e = stop THEN 1 ELSE 0)
  BY <1>2
<1>7. b.size % 2 = 0
  <2>1. CASE e = stop
    <3>1. b.size = stop - a + 1
      BY <1>6, <2>1
    <3>2. QED
      BY <1>3, <1>4, <3>1
  <2>2. CASE e # stop
    <3>1. b.size = e - a
      BY <1>3, <1>6, <2>2
    <3>2. QED
      BY <1>3, <1>4, <1>5, <2>2, <3>1
  <2>3. QED
    BY <2>1, <2>2
<1>8. QED
  BY <1>4, <1>6, <1>7

\* Whole pairs that are marked, and bytes somewhere else, leave pairs.
LEMMA PairsStay ==
    ASSUME NEW taken, NEW start \in Nat, NEW stop \in Nat, stop % 2 = 1, PairedIn(taken, start, stop),
           NEW a \in Nat, NEW n \in Nat,
           \/ a % 2 = 0 /\ n % 2 = 0
           \/ a + n <= start
           \/ stop < a
    PROVE  PairedIn(taken \cup a .. (a + n - 1), start, stop)
<1> SUFFICES ASSUME NEW x \in start .. stop, x % 2 = 0
             PROVE  (x \in taken \/ x \in a .. (a + n - 1)) <=> (x + 1 \in taken \/ x + 1 \in a .. (a + n - 1))
  BY DEF PairedIn
<1>1. x \in taken <=> x + 1 \in taken
  BY DEF PairedIn
<1>2. x \in Nat /\ start <= x /\ x + 1 <= stop
  OBVIOUS
<1>3. x \in a .. (a + n - 1) <=> x + 1 \in a .. (a + n - 1)
  <2>1. CASE a % 2 = 0 /\ n % 2 = 0
    <3>1. a <= x + 1 => a <= x
      BY <1>2, <2>1
    <3>2. x < a + n => x + 1 < a + n
      BY <1>2, <2>1
    <3>3. QED
      BY <1>2, <3>1, <3>2
  <2>2. CASE a + n <= start
    BY <1>2, <2>2
  <2>3. CASE stop < a
    BY <1>2, <2>3
  <2>4. QED
    BY <2>1, <2>2, <2>3
<1>4. QED
  BY <1>1, <1>3

\* A page with an unused byte has a block of them.
LEMMA NoBlockNoByte ==
    ASSUME NEW taken, NEW start \in Nat, NEW stop \in Nat, start % 2 = 0, stop % 2 = 1,
           PairedIn(taken, start, stop), SmallestBlock(taken, start, stop, 1) = {}
    PROVE  start .. stop \subseteq taken
<1> SUFFICES ASSUME NEW x \in start .. stop, x \notin taken PROVE FALSE
  OBVIOUS
<1>1. PICK a \in start .. stop : a % 2 = 0 /\ a \notin taken
  <2>1. CASE x % 2 = 0
    BY <2>1
  <2>2. CASE x % 2 # 0
    <3>1. x - 1 \in start .. stop /\ (x - 1) % 2 = 0 /\ (x - 1) + 1 = x
      BY <2>2
    <3>2. x - 1 \notin taken
      BY <3>1 DEF PairedIn
    <3>3. QED
      BY <3>1, <3>2
  <2>3. QED
    BY <2>1, <2>2
<1>2. a + 1 \notin taken /\ a + 1 <= stop /\ a \in Nat
  BY <1>1 DEF PairedIn
<1>3. a \in start .. (stop - 2 + 1) /\ IsFree(taken, a, 2)
  <2>1. \A i \in a .. (a + 2 - 1) : i = a \/ i = a + 1
    BY <1>2
  <2>2. QED
    BY <1>1, <1>2, <2>1 DEF IsFree
<1>4. PICK b \in Fitting(taken, start, stop, 2) : b.address <= a
  BY <1>3, RunIsFound
<1>5. b \in Fitting(taken, start, stop, 1)
  <2>1. b \in BlocksFound(taken, start, stop) /\ b.size >= 2
    BY DEF Fitting
  <2>2. b.size \in Nat
    BY <2>1, BlockBounds
  <2>3. QED
    BY <2>1, <2>2 DEF Fitting
<1>6. QED
  BY <1>5, FoundIsSelected

-----------------------------------------------------------------------------

(***************************************************************************)
(* The invariant.  While no error is reported, the bytes of the sections   *)
(* placed so far are marked as used; what is not placed yet keeps the      *)
(* address it had in the object file, which is how gp_cofflink_reloc_abs   *)
(* finds the place of an absolute section; and the passes over one memory  *)
(* leave none of its sections behind.                                      *)
(***************************************************************************)
Untouched ==
    phase <= UpdatePhase => \A i \in Sections \ relocated : shadow[i] = Sec(i).address

Marked ==
    ~errors => /\ \A i \in Placed : Extent(i) \subseteq used[AreaOf(i)]
               /\ \A n \in DOMAIN fills : FillExtent(fills[n]) \subseteq used["rom"]

PassesComplete ==
    /\ (phase \in 7 .. UpdatePhase /\ ~errors) =>
          \A i \in Sections : AreaOf(i) = "rom" => i \in relocated
    /\ phase > UpdatePhase => relocated = {}

\* A section that the linker places lies in a definition, which tells how far
\* its address is from its shadow; an absolute section has no shadow.
Anchored(i) == \/ Sec(i).abs /\ address[i] = shadow[i]
               \/ \E d \in Definitions : LiesIn(i, d)

InPage(f) == /\ f.def \in Definitions
             /\ Def(f.def).kind = "code"
             /\ Start(f.def) <= f.block.address
             /\ f.block.address + f.block.size - 1 <= Stop(f.def)

SectionsLocated ==
    /\ phase <= UpdatePhase => \A i \in Sections \ relocated : address[i] = shadow[i]
    /\ \A i \in relocated : Anchored(i)
    /\ (phase > UpdatePhase /\ ~errors) => \A i \in Sections : Anchored(i)

Located == SectionsLocated /\ \A n \in DOMAIN fills : InPage(fills[n])

IInv ==
    /\ TypeOK
    /\ input \in Input
    /\ Untouched
    /\ Marked
    /\ PassesComplete
    /\ MapIsDisjoint
    /\ Located
    /\ NothingForgotten

-----------------------------------------------------------------------------
(***************************************************************************)
(* Helpers                                                                 *)
(***************************************************************************)
LEMMA PhaseFacts ==
    /\ DOMAIN Phases = 1 .. 10
    /\ \A p \in 1 .. 10 :
        /\ Phases[p] \in {"absRom", "absRam"} => p \in {1, 2}
        /\ Phases[p] = "cinit" => p = 3
        /\ Phases[p] \in {"assignedRom", "assignedRam"} => p \in {4, 5}
        /\ Phases[p] \in {"unassignedRom", "unassignedRam"} => p \in {6, 7}
        /\ Phases[p] = "update" => p = 8
        /\ Phases[p] = "fill" => p = 9
    /\ Phases[6] = "unassignedRom"
    /\ Phases[7] = "unassignedRam"
    /\ UpdatePhase = 8
<1>1. DOMAIN Phases = 1 .. 10
  BY DEF Phases
<1>2. /\ Phases[1] = "absRom" /\ Phases[2] = "absRam" /\ Phases[3] = "cinit"
      /\ Phases[4] = "assignedRom" /\ Phases[5] = "assignedRam"
      /\ Phases[6] = "unassignedRom" /\ Phases[7] = "unassignedRam"
      /\ Phases[8] = "update" /\ Phases[9] = "fill" /\ Phases[10] = "done"
  BY DEF Phases
<1>3. \A p \in 1 .. 10 : \/ p = 1 \/ p = 2 \/ p = 3 \/ p = 4 \/ p = 5
                         \/ p = 6 \/ p = 7 \/ p = 8 \/ p = 9 \/ p = 10
  OBVIOUS
<1>4. QED
  BY <1>1, <1>2, <1>3 DEF UpdatePhase

LEMMA InputFacts ==
    ASSUME TypeOK, input \in Input
    PROVE  /\ \A i \in Sections :
                /\ Sec(i) \in Section
                /\ Sec(i).size \in Nat /\ Sec(i).address \in Nat
                /\ AreaOf(i) \in Area
                /\ Aligned(i) \in Nat /\ Aligned(i) >= Sec(i).size
                /\ AlignedIfAbsolute(i) \in Nat /\ AlignedIfAbsolute(i) >= Sec(i).size
                /\ Sec(i).logical \in Nat
                /\ Sec(i).logical # 0 => Sec(i).logical \in Definitions
                /\ Sec(i).cinit => Sec(i).kind = "code"
           /\ \A d \in Definitions :
                /\ Def(d) \in Definition
                /\ Def(d).start \in Nat /\ Def(d).end \in Nat /\ Def(d).shift \in Int
                /\ Start(d) \in Nat /\ Stop(d) \in Nat
<1>1. /\ input.sections \in Seq(Section)
      /\ input.definitions \in Seq(Definition)
  BY DEF TypeOK, InputType
<1>2. /\ \A i \in DOMAIN input.definitions :
            /\ input.definitions[i].start + input.definitions[i].shift >= 0
            /\ input.definitions[i].end + input.definitions[i].shift >= 0
      /\ \A i \in DOMAIN input.sections :
            /\ input.sections[i].logical \in {0} \cup DOMAIN input.definitions
            /\ input.sections[i].cinit => input.sections[i].kind = "code"
  BY InputAssumption
<1>3. ASSUME NEW i \in Sections
      PROVE  /\ Sec(i) \in Section
             /\ Sec(i).size \in Nat /\ Sec(i).address \in Nat
             /\ AreaOf(i) \in Area
             /\ Sec(i).logical \in Nat
             /\ Sec(i).logical # 0 => Sec(i).logical \in Definitions
             /\ Sec(i).cinit => Sec(i).kind = "code"
  <2>1. Sec(i) \in Section
    BY <1>1 DEF Sections, Sec
  <2>2. Sec(i).size \in Nat /\ Sec(i).address \in Nat /\ Sec(i).logical \in Nat
    BY <2>1 DEF Section
  <2>3. AreaOf(i) \in Area
    BY DEF AreaOf, Area
  <2>4. Sec(i).logical # 0 => Sec(i).logical \in Definitions
    BY <1>2 DEF Sections, Definitions, Sec
  <2>5. Sec(i).cinit => Sec(i).kind = "code"
    BY <1>2 DEF Sections, Sec
  <2>6. QED
    BY <2>1, <2>2, <2>3, <2>4, <2>5
<1>4. ASSUME NEW i \in Sections
      PROVE  /\ Aligned(i) \in Nat /\ Aligned(i) >= Sec(i).size
             /\ AlignedIfAbsolute(i) \in Nat /\ AlignedIfAbsolute(i) >= Sec(i).size
  BY <1>3 DEF Aligned, AlignedIfAbsolute
<1>5. ASSUME NEW d \in Definitions
      PROVE  /\ Def(d) \in Definition
             /\ Def(d).start \in Nat /\ Def(d).end \in Nat /\ Def(d).shift \in Int
             /\ Start(d) \in Nat /\ Stop(d) \in Nat
  <2>1. Def(d) \in Definition
    BY <1>1 DEF Definitions, Def
  <2>2. Def(d).start \in Nat /\ Def(d).end \in Nat /\ Def(d).shift \in Int
    BY <2>1 DEF Definition
  <2>3. Def(d).start + Def(d).shift >= 0 /\ Def(d).end + Def(d).shift >= 0
    BY <1>2 DEF Definitions, Def
  <2>4. QED
    BY <2>1, <2>2, <2>3 DEF Start, Stop
<1>6. QED
  BY <1>3, <1>4, <1>5

(***************************************************************************)
(* _set_used either reports an error or finds all bytes unused and marks   *)
(* them.                                                                   *)
(***************************************************************************)
LEMMA SetUsedFacts ==
    ASSUME TypeOK, NEW area \in Area, NEW a \in Nat, NEW n \in Nat, SetUsed(area, a, n)
    PROVE  /\ used' \in [Area -> SUBSET Nat]
           /\ errors' \in BOOLEAN
           /\ \A r \in Area : used[r] \subseteq used'[r]
           /\ errors => errors'
           /\ ~errors' => /\ a .. (a + n - 1) \subseteq used'[area]
                          /\ \A c \in a .. (a + n - 1) : c \notin used[area]
<1> DEFINE conflicts == {c \in a .. (a + n - 1) : c \in used[area]}
           marked    == {c \in a .. (a + n - 1) : \A k \in conflicts : c < k}
<1>1. /\ used' = [used EXCEPT ![area] = @ \cup marked]
      /\ errors' = (errors \/ conflicts # {})
  BY DEF SetUsed
<1>2. marked \subseteq Nat
  OBVIOUS
<1>3. used \in [Area -> SUBSET Nat] /\ errors \in BOOLEAN
  BY DEF TypeOK
<1>4. /\ used' \in [Area -> SUBSET Nat]
      /\ \A r \in Area : used[r] \subseteq used'[r]
      /\ used'[area] = used[area] \cup marked
  BY <1>1, <1>2, <1>3
<1>5. errors' \in BOOLEAN /\ (errors => errors') /\ (~errors' => conflicts = {})
  BY <1>1, <1>3
<1>6. conflicts = {} => marked = a .. (a + n - 1)
  OBVIOUS
<1>7. conflicts = {} => \A c \in a .. (a + n - 1) : c \notin used[area]
  OBVIOUS
<1>8. QED
  BY <1>4, <1>5, <1>6, <1>7

(***************************************************************************)
(* The frame of every step: the object and the script never change, so     *)
(* what is computed from them does not either.                             *)
(***************************************************************************)
LEMMA InputFrame ==
    ASSUME input' = input
    PROVE  /\ Sections' = Sections /\ Definitions' = Definitions
           /\ \A i : Sec(i)' = Sec(i) /\ AreaOf(i)' = AreaOf(i)
           /\ \A d : Def(d)' = Def(d)
           /\ \A d, i : Accepts(d, i)' = Accepts(d, i)
BY DEF Sections, Definitions, Sec, Def, AreaOf, Accepts

LEMMA AnchorFrame ==
    ASSUME input' = input
    PROVE  /\ \A i : (address'[i] = address[i] /\ shadow'[i] = shadow[i]) =>
                         Anchored(i)' = Anchored(i)
           /\ \A f : InPage(f)' = InPage(f)
<1>1. \A i, d : (address'[i] = address[i] /\ shadow'[i] = shadow[i]) =>
                    LiesIn(i, d)' = LiesIn(i, d)
  BY InputFrame DEF LiesIn
<1>2. \A i : (address'[i] = address[i] /\ shadow'[i] = shadow[i]) => Anchored(i)' = Anchored(i)
  BY <1>1, InputFrame DEF Anchored
<1>3. \A f : InPage(f)' = InPage(f)
  BY InputFrame DEF InPage, Start, Stop
<1>4. QED
  BY <1>2, <1>3

\* A step that moves no section, within or between the passes before the symbols
\* get their values, or after that.
LEMMA LocatedFrame ==
    ASSUME SectionsLocated, UNCHANGED <<input, address, shadow, relocated>>,
           phase \in Nat, phase' \in Nat, phase <= 8 <=> phase' <= 8, errors => errors'
    PROVE  SectionsLocated'
<1>1. \A i : Anchored(i)' = Anchored(i)
  BY AnchorFrame
<1>2. UpdatePhase = 8 /\ UpdatePhase' = 8 /\ Sections' = Sections
  BY InputFrame DEF UpdatePhase
<1>3. QED
  BY <1>1, <1>2 DEF SectionsLocated

(***************************************************************************)
(* A pass that ends by itself has no pending section left.                 *)
(***************************************************************************)
LEMMA IdleFacts ==
    ASSUME TypeOK, Idle
    PROVE  /\ phase \in 1 .. 7
           /\ phase \in {6, 7} => Pending = {}
<1>1. phase \in 1 .. 10
  BY PhaseFacts DEF TypeOK
<1>2. \/ Phases[phase] \in {"absRom", "absRam"}
      \/ Phases[phase] = "cinit"
      \/ Phases[phase] \in {"assignedRom", "assignedRam"}
      \/ Phases[phase] \in {"unassignedRom", "unassignedRam"}
  BY DEF Idle
<1>3. phase \in 1 .. 7
  <2>1. CASE Phases[phase] \in {"absRom", "absRam"}
    <3>1. phase \in {1, 2}
      BY <1>1, <2>1, PhaseFacts
    <3>2. QED
      BY <3>1
  <2>2. CASE Phases[phase] = "cinit"
    <3>1. phase = 3
      BY <1>1, <2>2, PhaseFacts
    <3>2. QED
      BY <3>1
  <2>3. CASE Phases[phase] \in {"assignedRom", "assignedRam"}
    <3>1. phase \in {4, 5}
      BY <1>1, <2>3, PhaseFacts
    <3>2. QED
      BY <3>1
  <2>4. CASE Phases[phase] \in {"unassignedRom", "unassignedRam"}
    <3>1. phase \in {6, 7}
      BY <1>1, <2>4, PhaseFacts
    <3>2. QED
      BY <3>1
  <2>5. QED
    BY <1>2, <2>1, <2>2, <2>3, <2>4
<1>4. ASSUME phase \in {6, 7} PROVE Pending = {}
  <2>1. Phases[phase] \in {"unassignedRom", "unassignedRam"}
    BY <1>4, PhaseFacts
  <2>2. QED
    BY <2>1 DEF Idle
<1>5. QED
  BY <1>3, <1>4

(***************************************************************************)
(* When _set_used reports no error, the section it was called for lies on  *)
(* bytes that no other section has, and those bytes are marked.            *)
(***************************************************************************)
LEMMA PlacingKeepsApart ==
    ASSUME IInv, NEW i \in Sections, i \notin relocated, NEW n \in Nat, n >= Sec(i).size,
           phase < UpdatePhase, phase' \in Nat, phase' <= UpdatePhase,
           input' = input, fills' = fills,
           shadow' \in [Sections -> Nat],
           \A j \in Sections : j # i => shadow'[j] = shadow[j],
           relocated' = relocated \cup {i},
           SetUsed(AreaOf(i), shadow'[i], n)
    PROVE  /\ used' \in [Area -> SUBSET Nat]
           /\ errors' \in BOOLEAN
           /\ relocated' \subseteq Sections
           /\ Untouched' /\ Marked' /\ MapIsDisjoint'
<1>1. TypeOK /\ input \in Input /\ relocated \subseteq Sections /\ phase \in Nat
  <2>1. TypeOK /\ input \in Input
    BY DEF IInv
  <2>2. relocated \subseteq Sections /\ phase \in 1 .. 10
    BY <2>1, PhaseFacts DEF TypeOK
  <2>3. QED
    BY <2>1, <2>2
<1>2. /\ \A j \in Sections : Sec(j).size \in Nat /\ AreaOf(j) \in Area
      /\ shadow'[i] \in Nat
  BY <1>1, InputFacts
<1>3. /\ used' \in [Area -> SUBSET Nat]
      /\ errors' \in BOOLEAN
      /\ \A r \in Area : used[r] \subseteq used'[r]
      /\ errors => errors'
      /\ ~errors' => /\ shadow'[i] .. (shadow'[i] + n - 1) \subseteq used'[AreaOf(i)]
                     /\ \A c \in shadow'[i] .. (shadow'[i] + n - 1) : c \notin used[AreaOf(i)]
  BY <1>1, <1>2, SetUsedFacts
<1>4. Placed = relocated /\ Placed' = relocated \cup {i}
  <2>1. phase \in Nat /\ UpdatePhase = 8 /\ UpdatePhase' = 8
    BY <1>1, PhaseFacts DEF UpdatePhase
  <2>2. QED
    BY <2>1 DEF Placed
<1>5. /\ \A j \in Sections : j # i => Extent(j)' = Extent(j)
      /\ Extent(i)' \subseteq shadow'[i] .. (shadow'[i] + n - 1)
  <2>1. \A j : Extent(j)' = shadow'[j] .. (shadow'[j] + Sec(j).size - 1)
    BY InputFrame DEF Extent
  <2>2. \A j : Extent(j) = shadow[j] .. (shadow[j] + Sec(j).size - 1)
    BY DEF Extent
  <2>3. QED
    BY <2>1, <2>2, <1>2
<1>6. \A f : FillExtent(f)' = FillExtent(f)
  BY DEF FillExtent
<1>7. Marked'
  <2> SUFFICES ASSUME ~errors'
               PROVE  /\ \A j \in Placed' : Extent(j)' \subseteq used'[AreaOf(j)]
                      /\ \A m \in DOMAIN fills : FillExtent(fills[m]) \subseteq used'["rom"]
    BY <1>6, InputFrame DEF Marked
  <2>1. /\ \A j \in relocated : Extent(j) \subseteq used[AreaOf(j)]
        /\ \A m \in DOMAIN fills : FillExtent(fills[m]) \subseteq used["rom"]
    BY <1>3, <1>4 DEF IInv, Marked
  <2>2. "rom" \in Area
    BY DEF Area
  <2>3. ASSUME NEW j \in relocated PROVE Extent(j)' \subseteq used'[AreaOf(j)]
    <3>1. j \in Sections /\ j # i
      BY <1>1
    <3>2. QED
      BY <3>1, <2>1, <1>2, <1>3, <1>5
  <2>4. Extent(i)' \subseteq used'[AreaOf(i)]
    BY <1>3, <1>5
  <2>5. QED
    BY <1>3, <1>4, <2>1, <2>2, <2>3, <2>4
<1>8. MapIsDisjoint'
  <2> SUFFICES ASSUME ~errors'
               PROVE  /\ \A j, k \in Placed' :
                            (j # k /\ AreaOf(j) = AreaOf(k)) => Extent(j)' \cap Extent(k)' = {}
                      /\ \A j \in Placed', m \in DOMAIN fills :
                            AreaOf(j) = "rom" => Extent(j)' \cap FillExtent(fills[m]) = {}
                      /\ \A l, m \in DOMAIN fills :
                            l # m => FillExtent(fills[l]) \cap FillExtent(fills[m]) = {}
    BY <1>6, InputFrame DEF MapIsDisjoint
  <2>1. /\ \A j \in relocated : Extent(j) \subseteq used[AreaOf(j)]
        /\ \A m \in DOMAIN fills : FillExtent(fills[m]) \subseteq used["rom"]
    BY <1>3, <1>4 DEF IInv, Marked
  <2>2. /\ \A j, k \in relocated :
              (j # k /\ AreaOf(j) = AreaOf(k)) => Extent(j) \cap Extent(k) = {}
        /\ \A j \in relocated, m \in DOMAIN fills :
              AreaOf(j) = "rom" => Extent(j) \cap FillExtent(fills[m]) = {}
        /\ \A l, m \in DOMAIN fills :
              l # m => FillExtent(fills[l]) \cap FillExtent(fills[m]) = {}
    BY <1>3, <1>4 DEF IInv, MapIsDisjoint
  <2>3. \A j \in relocated : j # i /\ Extent(j)' = Extent(j)
    BY <1>1, <1>5
  <2>4. \A c \in Extent(i)' : c \notin used[AreaOf(i)]
    BY <1>3, <1>5
  <2>5. \A j \in relocated : AreaOf(j) = AreaOf(i) => Extent(i)' \cap Extent(j) = {}
    BY <2>1, <2>4
  <2>6. \A m \in DOMAIN fills : AreaOf(i) = "rom" => Extent(i)' \cap FillExtent(fills[m]) = {}
    BY <2>1, <2>4
  <2>7. \A j, k \in Placed' :
            (j # k /\ AreaOf(j) = AreaOf(k)) => Extent(j)' \cap Extent(k)' = {}
    BY <1>4, <2>2, <2>3, <2>5
  <2>8. QED
    BY <1>4, <2>2, <2>3, <2>6, <2>7
<1>9. Untouched'
  <2>1. phase <= UpdatePhase
    BY <1>1 DEF UpdatePhase
  <2>2. \A j \in Sections \ relocated : shadow[j] = Sec(j).address
    BY <2>1 DEF IInv, Untouched
  <2>3. \A j \in Sections \ relocated' : shadow'[j] = Sec(j).address
    BY <2>2
  <2>4. QED
    BY <2>3, InputFrame DEF Untouched
<1>10. QED
  BY <1>1, <1>3, <1>7, <1>8, <1>9

(***************************************************************************)
(* A section put into a block that the search found lies in the definition *)
(* that was searched.                                                      *)
(***************************************************************************)
LEMMA PlaceFacts ==
    ASSUME IInv, NEW i \in Sections, i \notin relocated,
           NEW d \in Definitions, Accepts(d, i),
           NEW n \in Nat, n >= Sec(i).size, NEW b,
           \/ b \in SmallestBlock(used[AreaOf(i)], Start(d), Stop(d), n)
           \/ b \in FirstBlock(used[AreaOf(i)], Start(d), Stop(d), n),
           Place(i, d, b.address, n),
           phase < UpdatePhase, phase' \in {phase, phase + 1},
           UNCHANGED <<input, value, fillNext, fills>>
    PROVE  /\ TypeOK' /\ (input \in Input)' /\ Untouched' /\ Marked' /\ MapIsDisjoint' /\ Located'
           /\ relocated \subseteq relocated'
           /\ errors => errors'
<1>1. TypeOK /\ input \in Input
  BY DEF IInv
<1>2. phase \in Nat /\ phase < 8 /\ UpdatePhase = 8 /\ phase \in 1 .. 10 /\ phase' \in 1 .. 10
  <2>1. phase \in 1 .. 10
    BY <1>1, PhaseFacts DEF TypeOK
  <2>2. QED
    BY <2>1 DEF UpdatePhase
<1>3. /\ Start(d) \in Nat /\ Stop(d) \in Nat /\ Def(d).shift \in Int
      /\ Def(d).start \in Nat /\ Def(d).end \in Nat
      /\ Sec(i).size \in Nat
      /\ AreaOf(i) \in Area
  BY <1>1, InputFacts
<1>4. /\ b.address \in Int /\ b.size \in Nat \ {0}
      /\ Start(d) <= b.address /\ b.address + b.size - 1 <= Stop(d) /\ b.size >= n
  <2>1. b \in BlocksFound(used[AreaOf(i)], Start(d), Stop(d)) /\ b.size >= n
    BY <1>3, SelectedBlock
  <2>2. Start(d) \in Int /\ Stop(d) \in Int
    BY <1>3
  <2>3. QED
    BY <2>1, <2>2, BlockBounds
<1>5. b.address \in Nat /\ b.address + Sec(i).size - 1 <= Stop(d)
  BY <1>3, <1>4
<1>6. /\ shadow' = [shadow EXCEPT ![i] = b.address]
      /\ address' = [address EXCEPT ![i] = b.address - Def(d).shift]
      /\ relocated' = relocated \cup {i}
      /\ SetUsed(AreaOf(i), b.address, n)
  BY DEF Place
<1>7. /\ address \in [Sections -> Int] /\ shadow \in [Sections -> Nat]
      /\ value \in [Sections -> Int] /\ relocated \subseteq Sections
      /\ fillNext \in Nat \ {0} /\ fills \in Seq(Fill) /\ input \in InputType
  BY <1>1 DEF TypeOK
<1>8. /\ shadow' \in [Sections -> Nat] /\ address' \in [Sections -> Int]
      /\ shadow'[i] = b.address /\ address'[i] = b.address - Def(d).shift
      /\ \A j \in Sections : j # i => shadow'[j] = shadow[j] /\ address'[j] = address[j]
  <2>1. /\ shadow' \in [Sections -> Nat] /\ shadow'[i] = b.address
        /\ \A j \in Sections : j # i => shadow'[j] = shadow[j]
    BY <1>5, <1>6, <1>7
  <2>2. PICK a \in Int : a = b.address - Def(d).shift
    BY <1>3, <1>5
  <2>3. /\ address' \in [Sections -> Int] /\ address'[i] = a
        /\ \A j \in Sections : j # i => address'[j] = address[j]
    BY <1>6, <1>7, <2>2
  <2>4. QED
    BY <2>1, <2>2, <2>3
<1>9. /\ used' \in [Area -> SUBSET Nat]
      /\ errors' \in BOOLEAN
      /\ relocated' \subseteq Sections
      /\ Untouched' /\ Marked' /\ MapIsDisjoint'
  <2>1. phase' \in Nat /\ phase' <= UpdatePhase
    BY <1>2
  <2>2. SetUsed(AreaOf(i), shadow'[i], n)
    BY <1>6, <1>8
  <2>3. input' = input /\ fills' = fills
    OBVIOUS
  <2>4. QED
    BY <1>6, <1>8, <2>1, <2>2, <2>3, PlacingKeepsApart
<1>10. TypeOK' /\ (input \in Input)'
  <2>1. phase' \in DOMAIN Phases
    BY <1>2, PhaseFacts
  <2>2. Phases' = Phases /\ Sections' = Sections
    BY InputFrame DEF Phases
  <2>3. QED
    BY <1>1, <1>7, <1>8, <1>9, <2>1, <2>2 DEF TypeOK
<1>11. Located'
  <2>1. LiesIn(i, d)'
    <3>1. /\ Def(d).start <= address'[i]
          /\ address'[i] + Sec(i).size - 1 <= Def(d).end
          /\ shadow'[i] = address'[i] + Def(d).shift
      BY <1>3, <1>4, <1>5, <1>8 DEF Start, Stop
    <3>2. QED
      BY <3>1, InputFrame DEF LiesIn
  <2>2. Anchored(i)'
    BY <2>1, InputFrame DEF Anchored
  <2>3. \A j \in relocated : Anchored(j)'
    BY <1>7, <1>8, AnchorFrame DEF IInv, Located, SectionsLocated
  <2>4. \A j \in Sections \ relocated' : address'[j] = shadow'[j]
    BY <1>2, <1>6, <1>7, <1>8 DEF IInv, Located, SectionsLocated
  <2>5. ~(phase' > UpdatePhase)
    BY <1>2
  <2>6. SectionsLocated'
    BY <1>6, <2>2, <2>3, <2>4, <2>5, InputFrame DEF SectionsLocated, UpdatePhase
  <2>7. QED
    BY <2>6, AnchorFrame DEF IInv, Located
<1>12. errors => errors'
  BY <1>1, <1>3, <1>5, <1>6, SetUsedFacts
<1>13. QED
  BY <1>6, <1>9, <1>10, <1>11, <1>12

(***************************************************************************)
(* A step within a pass, and every step of a pass before the one over      *)
(* unassigned sections of program memory, keeps the account of the passes. *)
(***************************************************************************)
LEMMA StepWithinPass ==
    ASSUME IInv, input' = input, phase < UpdatePhase, phase' = phase \/ (phase < 6 /\ phase' = phase + 1),
           relocated \subseteq relocated', errors => errors'
    PROVE  PassesComplete' /\ NothingForgotten'
<1>1. phase \in 1 .. 10 /\ UpdatePhase = 8 /\ UpdatePhase' = 8
  <2>1. TypeOK
    BY DEF IInv
  <2>2. QED
    BY <2>1, PhaseFacts DEF TypeOK, UpdatePhase
<1>2. NothingForgotten'
  BY <1>1 DEF NothingForgotten
<1>3. ASSUME phase' \in 7 .. 8, ~errors'
      PROVE  \A i \in Sections : AreaOf(i) = "rom" => i \in relocated'
  <2>1. phase \in 7 .. 8 /\ ~errors
    BY <1>1, <1>3
  <2>2. QED
    BY <1>1, <2>1 DEF IInv, PassesComplete
<1>4. QED
  BY <1>1, <1>2, <1>3, InputFrame DEF PassesComplete

-----------------------------------------------------------------------------
(***************************************************************************)
(* The invariant, one lemma for each kind of step                          *)
(***************************************************************************)
LEMMA InitIInv == Init => IInv
<1> SUFFICES ASSUME Init PROVE IInv
  OBVIOUS
<1>1. /\ input \in Input /\ phase = 1 /\ relocated = {} /\ fills = << >> /\ fillNext = 1 /\ errors = FALSE
      /\ used = [a \in Area |-> {}]
      /\ address = [i \in Sections |-> Sec(i).address]
      /\ shadow = address
      /\ value = [i \in Sections |-> Sec(i).symbol]
  BY DEF Init
<1>2. input \in InputType
  BY <1>1, InputAssumption
<1>3. \A i \in Sections : Sec(i).address \in Nat /\ Sec(i).symbol \in Nat
  <2>1. input.sections \in Seq(Section)
    BY <1>2 DEF InputType
  <2>2. \A i \in Sections : Sec(i) \in Section
    BY <2>1 DEF Sections, Sec
  <2>3. QED
    BY <2>2 DEF Section
<1>4. phase \in DOMAIN Phases
  <2>1. 1 \in 1 .. 10
    OBVIOUS
  <2>2. QED
    BY <1>1, <2>1, PhaseFacts
<1>5. TypeOK
  <2>1. /\ address \in [Sections -> Int] /\ shadow \in [Sections -> Nat]
        /\ value \in [Sections -> Int]
    BY <1>1, <1>3
  <2>2. used \in [Area -> SUBSET Nat]
    BY <1>1
  <2>3. fillNext \in Nat \ {0} /\ relocated \subseteq Sections /\ fills \in Seq(Fill)
    BY <1>1
  <2>4. errors \in BOOLEAN
    BY <1>1
  <2>5. QED
    BY <1>2, <1>4, <2>1, <2>2, <2>3, <2>4 DEF TypeOK
<1>6. Placed = {} /\ phase < UpdatePhase
  BY <1>1 DEF Placed, UpdatePhase
<1>7. Untouched /\ Marked /\ MapIsDisjoint
  BY <1>1, <1>6 DEF Untouched, Marked, MapIsDisjoint
<1>8. PassesComplete /\ NothingForgotten /\ Located
  BY <1>1 DEF PassesComplete, NothingForgotten, Located, SectionsLocated, UpdatePhase
<1>9. QED
  BY <1>1, <1>5, <1>7, <1>8 DEF IInv

LEMMA RelocAbsIInv == IInv /\ RelocAbs => IInv'
<1> SUFFICES ASSUME IInv, RelocAbs PROVE IInv'
  OBVIOUS
<1>1. TypeOK /\ input \in Input
  BY DEF IInv
<1>2. phase \in {1, 2} /\ UpdatePhase = 8
  <2>1. phase \in 1 .. 10 /\ Phases[phase] \in {"absRom", "absRam"}
    BY <1>1, PhaseFacts DEF TypeOK, RelocAbs
  <2>2. QED
    BY <2>1, PhaseFacts DEF UpdatePhase
<1>3. PICK i \in Pending : /\ Sec(i).abs
                           /\ SetUsed(AreaOf(i), Sec(i).address, Aligned(i))
                           /\ relocated' = relocated \cup {i}
  BY DEF RelocAbs
<1>4. UNCHANGED <<input, phase, address, shadow, value, fillNext, fills>>
  BY DEF RelocAbs
<1>5. i \in Sections /\ i \notin relocated
  BY DEF Pending
<1>6. /\ Sec(i).size \in Nat /\ Sec(i).address \in Nat /\ AreaOf(i) \in Area
      /\ Aligned(i) \in Nat /\ Aligned(i) >= Sec(i).size
  BY <1>1, <1>5, InputFacts
<1>7. shadow'[i] = Sec(i).address
  BY <1>2, <1>4, <1>5 DEF IInv, Untouched
<1>8. shadow' \in [Sections -> Nat]
  BY <1>1, <1>4 DEF TypeOK
<1>9. /\ used' \in [Area -> SUBSET Nat] /\ errors' \in BOOLEAN /\ relocated' \subseteq Sections
      /\ Untouched' /\ Marked' /\ MapIsDisjoint'
  <2>1. phase < UpdatePhase /\ phase' \in Nat /\ phase' <= UpdatePhase
    BY <1>2, <1>4
  <2>2. SetUsed(AreaOf(i), shadow'[i], Aligned(i))
    BY <1>3, <1>7
  <2>3. input' = input /\ fills' = fills /\ \A j \in Sections : j # i => shadow'[j] = shadow[j]
    BY <1>4
  <2>4. QED
    BY <1>3, <1>5, <1>6, <1>8, <2>1, <2>2, <2>3, PlacingKeepsApart
<1>10. TypeOK' /\ (input \in Input)'
  <2>1. Phases' = Phases /\ Sections' = Sections
    BY <1>4, InputFrame DEF Phases
  <2>2. QED
    BY <1>1, <1>4, <1>9, <2>1 DEF TypeOK
<1>11. Located'
  <2>1. \A j : Anchored(j)' = Anchored(j)
    BY <1>4, AnchorFrame
  <2>2. Anchored(i)
    BY <1>2, <1>3, <1>5 DEF IInv, Located, SectionsLocated, Anchored
  <2>3. /\ \A j \in relocated' : Anchored(j)'
        /\ \A j \in Sections \ relocated' : address'[j] = shadow'[j]
    BY <1>2, <1>3, <1>4, <2>1, <2>2 DEF IInv, Located, SectionsLocated
  <2>4. ~(phase' > UpdatePhase)
    BY <1>2, <1>4
  <2>5. SectionsLocated'
    BY <1>4, <2>3, <2>4, InputFrame DEF SectionsLocated, UpdatePhase
  <2>6. QED
    BY <1>4, <2>5, AnchorFrame DEF IInv, Located
<1>12. PassesComplete' /\ NothingForgotten'
  <2>1. errors => errors'
    BY <1>1, <1>3, <1>6, SetUsedFacts
  <2>2. QED
    BY <1>2, <1>3, <1>4, <2>1, StepWithinPass
<1>13. QED
  BY <1>9, <1>10, <1>11, <1>12 DEF IInv

\* A pass that is given up reports an error, which the invariant then assumes away.
LEMMA GiveUpIInv ==
    ASSUME IInv, GiveUp, phase < UpdatePhase, UNCHANGED <<input, value, fillNext, fills>>
    PROVE  IInv'
<1>1. TypeOK /\ input \in Input
  BY DEF IInv
<1>2. /\ errors' = TRUE /\ phase' = phase + 1
      /\ UNCHANGED <<used, relocated, address, shadow>>
  BY DEF GiveUp
<1>3. phase \in 1 .. 10 /\ phase < 8 /\ UpdatePhase = 8 /\ UpdatePhase' = 8 /\ phase' \in DOMAIN Phases
  <2>1. phase \in 1 .. 10
    BY <1>1, PhaseFacts DEF TypeOK
  <2>2. UpdatePhase = 8 /\ UpdatePhase' = 8
    BY DEF UpdatePhase
  <2>3. phase + 1 \in 1 .. 10
    BY <2>1, <2>2
  <2>4. QED
    BY <1>2, <2>1, <2>2, <2>3, PhaseFacts
<1>4. TypeOK' /\ (input \in Input)'
  <2>1. Phases' = Phases /\ Sections' = Sections
    BY InputFrame DEF Phases
  <2>2. QED
    BY <1>1, <1>2, <1>3, <2>1 DEF TypeOK
<1>5. Untouched'
  BY <1>2, <1>3, InputFrame DEF IInv, Untouched
<1>6. Located'
  <2>1. phase \in Nat /\ phase' \in Nat /\ (phase <= 8 <=> phase' <= 8)
    BY <1>2, <1>3
  <2>2. QED
    BY <1>2, <2>1, LocatedFrame, AnchorFrame DEF IInv, Located
<1>7. Marked' /\ MapIsDisjoint' /\ NothingForgotten'
  BY <1>2 DEF Marked, MapIsDisjoint, NothingForgotten
<1>8. PassesComplete'
  BY <1>2, <1>3 DEF PassesComplete
<1>9. QED
  BY <1>4, <1>5, <1>6, <1>7, <1>8 DEF IInv

LEMMA RelocCinitIInv == IInv /\ RelocCinit => IInv'
<1> SUFFICES ASSUME IInv, RelocCinit PROVE IInv'
  OBVIOUS
<1>1. TypeOK /\ input \in Input
  BY DEF IInv
<1>2. phase = 3 /\ phase < UpdatePhase
  <2>1. phase \in 1 .. 10 /\ Phases[phase] = "cinit"
    BY <1>1, PhaseFacts DEF TypeOK, RelocCinit
  <2>2. phase = 3
    BY <2>1, PhaseFacts
  <2>3. QED
    BY <2>2 DEF UpdatePhase
<1>3. UNCHANGED <<input, value, fillNext, fills>>
  BY DEF RelocCinit
<1>4. CASE GiveUp
  BY <1>2, <1>3, <1>4, GiveUpIInv
<1>5. CASE \E i \in CinitSections \ relocated : \E p \in CinitPlaces(i) :
              /\ Place(i, p.def, p.block.address, Sec(i).size)
              /\ phase' = phase + 1
  <2>0. PICK i \in CinitSections \ relocated : \E p \in CinitPlaces(i) :
              /\ Place(i, p.def, p.block.address, Sec(i).size)
              /\ phase' = phase + 1
    BY <1>5
  <2>1. PICK p \in CinitPlaces(i) :
              /\ Place(i, p.def, p.block.address, Sec(i).size)
              /\ phase' = phase + 1
    BY <2>0
  <2>2. i \in Sections /\ i \notin relocated /\ Sec(i).cinit
    BY DEF CinitSections
  <2>3. /\ Sec(i).size \in Nat /\ Sec(i).kind = "code" /\ AreaOf(i) = "rom"
    BY <1>1, <2>2, InputFacts DEF AreaOf
  <2>4. PICK d \in Definitions : \E b \in FirstBlock(used["rom"], Start(d), Stop(d), Sec(i).size) :
           /\ Def(d).kind = "code" /\ ~Def(d).protected
           /\ p = [def |-> d, block |-> b]
    BY <2>1 DEF CinitPlaces
  <2>b. PICK b \in FirstBlock(used["rom"], Start(d), Stop(d), Sec(i).size) :
           p = [def |-> d, block |-> b]
    BY <2>4
  <2>5. Accepts(d, i)
    BY <2>3, <2>4 DEF Accepts
  <2>6. Place(i, d, b.address, Sec(i).size)
    BY <2>1, <2>b
  <2>7. /\ TypeOK' /\ (input \in Input)' /\ Untouched' /\ Marked' /\ MapIsDisjoint' /\ Located'
        /\ relocated \subseteq relocated' /\ (errors => errors')
    <3>1. Sec(i).size >= Sec(i).size /\ phase' \in {phase, phase + 1}
      BY <2>1, <2>3
    <3>2. b \in FirstBlock(used[AreaOf(i)], Start(d), Stop(d), Sec(i).size)
      BY <2>3, <2>b
    <3>3. QED
      BY <1>2, <1>3, <2>2, <2>3, <2>5, <2>6, <3>1, <3>2, PlaceFacts
  <2>8. PassesComplete' /\ NothingForgotten'
    BY <1>2, <1>3, <2>1, <2>7, StepWithinPass
  <2>9. QED
    BY <2>7, <2>8 DEF IInv
<1>6. QED
  BY <1>4, <1>5 DEF RelocCinit

LEMMA RelocAssignedIInv == IInv /\ RelocAssigned => IInv'
<1> SUFFICES ASSUME IInv, RelocAssigned PROVE IInv'
  OBVIOUS
<1>1. TypeOK /\ input \in Input
  BY DEF IInv
<1>2. phase \in {4, 5} /\ phase < UpdatePhase
  <2>1. phase \in 1 .. 10 /\ Phases[phase] \in {"assignedRom", "assignedRam"}
    BY <1>1, PhaseFacts DEF TypeOK, RelocAssigned
  <2>2. phase \in {4, 5}
    BY <2>1, PhaseFacts
  <2>3. QED
    BY <2>2 DEF UpdatePhase
<1>3. UNCHANGED <<input, value, fillNext, fills>>
  BY DEF RelocAssigned
<1>4. PICK i \in Biggest(Assigned) :
         \/ /\ \E b \in SmallestBlock(used[AreaOf(i)], Start(Sec(i).logical), Stop(Sec(i).logical),
                                      AlignedIfAbsolute(i)) :
                  Place(i, Sec(i).logical, b.address, AlignedIfAbsolute(i))
            /\ UNCHANGED phase
         \/ GiveUp
  BY DEF RelocAssigned
<1>5. CASE GiveUp
  BY <1>2, <1>3, <1>5, GiveUpIInv
<1>6. CASE /\ \E b \in SmallestBlock(used[AreaOf(i)], Start(Sec(i).logical), Stop(Sec(i).logical),
                                     AlignedIfAbsolute(i)) :
                 Place(i, Sec(i).logical, b.address, AlignedIfAbsolute(i))
           /\ UNCHANGED phase
  <2>1. i \in Sections /\ i \notin relocated /\ Sec(i).logical # 0
    BY DEF Biggest, Assigned, Pending
  <2>2. PICK b : /\ b \in SmallestBlock(used[AreaOf(i)], Start(Sec(i).logical), Stop(Sec(i).logical),
                                        AlignedIfAbsolute(i))
                 /\ Place(i, Sec(i).logical, b.address, AlignedIfAbsolute(i))
    BY <1>6
  <2>3. /\ Sec(i).logical \in Definitions
        /\ AlignedIfAbsolute(i) \in Nat /\ AlignedIfAbsolute(i) >= Sec(i).size
    BY <1>1, <2>1, InputFacts
  <2>4. Accepts(Sec(i).logical, i)
    BY DEF Accepts
  <2>5. /\ TypeOK' /\ (input \in Input)' /\ Untouched' /\ Marked' /\ MapIsDisjoint' /\ Located'
        /\ relocated \subseteq relocated' /\ (errors => errors')
    BY <1>2, <1>3, <1>6, <2>1, <2>2, <2>3, <2>4, PlaceFacts
  <2>6. PassesComplete' /\ NothingForgotten'
    BY <1>2, <1>3, <1>6, <2>5, StepWithinPass
  <2>7. QED
    BY <2>5, <2>6 DEF IInv
<1>7. QED
  BY <1>4, <1>5, <1>6

LEMMA RelocUnassignedIInv == IInv /\ RelocUnassigned => IInv'
<1> SUFFICES ASSUME IInv, RelocUnassigned PROVE IInv'
  OBVIOUS
<1>1. TypeOK /\ input \in Input
  BY DEF IInv
<1>2. phase \in {6, 7} /\ phase < UpdatePhase
  <2>1. phase \in 1 .. 10 /\ Phases[phase] \in {"unassignedRom", "unassignedRam"}
    BY <1>1, PhaseFacts DEF TypeOK, RelocUnassigned
  <2>2. phase \in {6, 7}
    BY <2>1, PhaseFacts
  <2>3. QED
    BY <2>2 DEF UpdatePhase
<1>3. UNCHANGED <<input, value, fillNext, fills>>
  BY DEF RelocUnassigned
<1>4. PICK i \in Biggest(Pending) :
         \/ /\ \E p \in Places(i, KindFor(i)) : Place(i, p.def, p.block.address, Aligned(i))
            /\ UNCHANGED phase
         \/ GiveUp
  BY DEF RelocUnassigned
<1>5. CASE GiveUp
  BY <1>2, <1>3, <1>5, GiveUpIInv
<1>6. CASE /\ \E p \in Places(i, KindFor(i)) : Place(i, p.def, p.block.address, Aligned(i))
           /\ UNCHANGED phase
  <2>1. i \in Sections /\ i \notin relocated
    BY DEF Biggest, Pending
  <2>2. PICK p \in Places(i, KindFor(i)) : Place(i, p.def, p.block.address, Aligned(i))
    BY <1>6
  <2>3. PICK d \in Definitions : \E b \in SmallestBlock(used[AreaOf(i)], Start(d), Stop(d), Aligned(i)) :
           /\ Def(d).kind = KindFor(i) /\ ~Def(d).protected
           /\ p = [def |-> d, block |-> b]
    BY <2>2 DEF Places
  <2>b. PICK b \in SmallestBlock(used[AreaOf(i)], Start(d), Stop(d), Aligned(i)) :
           p = [def |-> d, block |-> b]
    BY <2>3
  <2>4. Accepts(d, i)
    BY <2>3 DEF Accepts, KindFor
  <2>5. Place(i, d, b.address, Aligned(i))
    BY <2>2, <2>b
  <2>6. Aligned(i) \in Nat /\ Aligned(i) >= Sec(i).size
    BY <1>1, <2>1, InputFacts
  <2>7. /\ TypeOK' /\ (input \in Input)' /\ Untouched' /\ Marked' /\ MapIsDisjoint' /\ Located'
        /\ relocated \subseteq relocated' /\ (errors => errors')
    BY <1>2, <1>3, <1>6, <2>1, <2>3, <2>4, <2>5, <2>6, <2>b, PlaceFacts
  <2>8. PassesComplete' /\ NothingForgotten'
    BY <1>2, <1>3, <1>6, <2>7, StepWithinPass
  <2>9. QED
    BY <2>7, <2>8 DEF IInv
<1>7. QED
  BY <1>4, <1>5, <1>6

(***************************************************************************)
(* The two passes over unassigned sections end with every section placed:  *)
(* first those of program memory, then those of data memory.               *)
(***************************************************************************)
LEMMA NextPassIInv == IInv /\ NextPass => IInv'
<1> SUFFICES ASSUME IInv, NextPass PROVE IInv'
  OBVIOUS
<1>1. TypeOK /\ input \in Input /\ Idle
  BY DEF IInv, NextPass
<1>2. /\ phase' = phase + 1
      /\ UNCHANGED <<input, used, relocated, address, shadow, value, fillNext, fills, errors>>
  BY DEF NextPass
<1>3. phase \in 1 .. 7 /\ phase' \in 2 .. 8 /\ UpdatePhase = 8 /\ UpdatePhase' = 8
  <2>1. phase \in 1 .. 7
    BY <1>1, IdleFacts
  <2>2. QED
    BY <1>2, <2>1 DEF UpdatePhase
<1>4. TypeOK' /\ (input \in Input)'
  <2>1. Phases' = Phases /\ Sections' = Sections
    BY <1>2, InputFrame DEF Phases
  <2>2. phase' \in 1 .. 10
    BY <1>3
  <2>3. phase' \in DOMAIN Phases
    BY <2>2, PhaseFacts
  <2>4. QED
    BY <1>1, <1>2, <2>1, <2>3 DEF TypeOK
<1>5. Placed' = Placed /\ \A j : Extent(j)' = Extent(j)
  BY <1>2, <1>3, InputFrame DEF Placed, Extent
<1>6. \A f : FillExtent(f)' = FillExtent(f)
  BY DEF FillExtent
<1>7. Untouched' /\ Located'
  <2>1. Untouched'
    BY <1>2, <1>3, InputFrame DEF IInv, Untouched
  <2>2. Located'
    BY <1>2, <1>3, LocatedFrame, AnchorFrame DEF IInv, Located
  <2>3. QED
    BY <2>1, <2>2
<1>8. Marked' /\ MapIsDisjoint'
  <2>1. Marked'
    BY <1>2, <1>5, <1>6, InputFrame DEF IInv, Marked
  <2>2. MapIsDisjoint'
    BY <1>2, <1>5, <1>6, InputFrame DEF IInv, MapIsDisjoint
  <2>3. QED
    BY <2>1, <2>2
<1>9. ASSUME phase' \in 7 .. 8, ~errors'
      PROVE  \A i \in Sections : AreaOf(i) = "rom" => i \in relocated
  <2>1. CASE phase = 6
    <3>1. Pending = {} /\ AreaOfPhase = "rom"
      BY <1>1, <2>1, IdleFacts, PhaseFacts DEF AreaOfPhase
    <3>2. QED
      BY <3>1 DEF Pending
  <2>2. CASE phase = 7
    BY <1>2, <1>3, <1>9, <2>2 DEF IInv, PassesComplete
  <2>3. QED
    BY <1>2, <1>3, <1>9, <2>1, <2>2
<1>10. PassesComplete'
  BY <1>2, <1>3, <1>9, InputFrame DEF PassesComplete
<1>11. NothingForgotten'
  <2> SUFFICES ASSUME phase' = 8, ~errors' PROVE relocated = Sections
    BY <1>2, <1>3, InputFrame DEF NothingForgotten
  <2>1. phase = 7 /\ Pending = {} /\ AreaOfPhase = "ram"
    <3>1. phase = 7
      BY <1>2, <1>3
    <3>2. QED
      BY <1>1, <3>1, IdleFacts, PhaseFacts DEF AreaOfPhase
  <2>2. \A i \in Sections : AreaOf(i) = "ram" => i \in relocated
    BY <2>1 DEF Pending
  <2>3. \A i \in Sections : AreaOf(i) = "rom" => i \in relocated
    BY <1>3, <1>9
  <2>4. \A i : AreaOf(i) \in {"rom", "ram"}
    BY DEF AreaOf
  <2>5. relocated \subseteq Sections
    BY <1>1 DEF TypeOK
  <2>6. QED
    BY <2>2, <2>3, <2>4, <2>5
<1>12. QED
  BY <1>4, <1>7, <1>8, <1>10, <1>11 DEF IInv

LEMMA UpdateTableIInv == IInv /\ UpdateTable => IInv'
<1> SUFFICES ASSUME IInv, UpdateTable PROVE IInv'
  OBVIOUS
<1>1. TypeOK /\ input \in Input
  BY DEF IInv
<1>2. /\ relocated' = {} /\ phase' = phase + 1
      /\ UNCHANGED <<input, used, address, shadow, fillNext, fills, errors>>
      /\ value' = [i \in Sections |->
            IF Sec(i).abs THEN value[i]
            ELSE value[i] + (IF Sec(i).kind = "code" /\ ~input.pic16e
                             THEN address[i] \div 2 ELSE address[i])]
  BY DEF UpdateTable
<1>3. phase = 8 /\ phase' = 9 /\ UpdatePhase = 8 /\ UpdatePhase' = 8
  <2>1. phase \in 1 .. 10 /\ Phases[phase] = "update"
    BY <1>1, PhaseFacts DEF TypeOK, UpdateTable
  <2>2. phase = 8
    BY <2>1, PhaseFacts
  <2>3. QED
    BY <1>2, <2>2 DEF UpdatePhase
<1>4. TypeOK' /\ (input \in Input)'
  <2>1. Phases' = Phases /\ Sections' = Sections
    BY <1>2, InputFrame DEF Phases
  <2>2. 9 \in 1 .. 10
    OBVIOUS
  <2>3. phase' \in DOMAIN Phases
    BY <1>3, <2>2, PhaseFacts
  <2>4. \A i \in Sections : value[i] \in Int /\ address[i] \in Int /\ address[i] \div 2 \in Int
    BY <1>1 DEF TypeOK
  <2>5. value' \in [Sections -> Int]
    BY <1>2, <2>4
  <2>6. QED
    BY <1>1, <1>2, <2>1, <2>3, <2>5 DEF TypeOK
<1>5. ~errors => Placed' = Placed
  BY <1>2, <1>3, InputFrame DEF IInv, NothingForgotten, Placed
<1>6. /\ \A j : Extent(j)' = Extent(j)
      /\ \A f : FillExtent(f)' = FillExtent(f)
  BY <1>2, InputFrame DEF Extent, FillExtent
<1>7. Marked' /\ MapIsDisjoint'
  <2>1. Marked'
    BY <1>2, <1>5, <1>6, InputFrame DEF IInv, Marked
  <2>2. MapIsDisjoint'
    BY <1>2, <1>5, <1>6, InputFrame DEF IInv, MapIsDisjoint
  <2>3. QED
    BY <2>1, <2>2
<1>8. Untouched' /\ PassesComplete' /\ NothingForgotten'
  BY <1>2, <1>3 DEF Untouched, PassesComplete, NothingForgotten
<1>9. Located'
  <2>1. ~errors => \A i \in Sections : Anchored(i)
    BY <1>3 DEF IInv, NothingForgotten, Located, SectionsLocated
  <2>2. \A i : Anchored(i)' = Anchored(i)
    BY <1>2, AnchorFrame
  <2>3. SectionsLocated'
    BY <1>2, <1>3, <2>1, <2>2, InputFrame DEF SectionsLocated
  <2>4. QED
    BY <1>2, <2>3, AnchorFrame DEF IInv, Located
<1>10. QED
  BY <1>4, <1>7, <1>8, <1>9 DEF IInv

(***************************************************************************)
(* The end of the link: no section has its flag STYP_RELOC any more, and   *)
(* every section counts as placed.                                         *)
(***************************************************************************)
LEMMA FillingFacts ==
    ASSUME IInv, Phases[phase] = "fill", input' = input, relocated' = relocated,
           UNCHANGED <<address, shadow>>, phase' \in {phase, phase + 1}, errors => errors'
    PROVE  /\ phase = 9 /\ UpdatePhase = 8 /\ UpdatePhase' = 8 /\ phase' \in DOMAIN Phases
           /\ Placed = Sections /\ Placed' = Sections
           /\ Untouched' /\ PassesComplete' /\ NothingForgotten' /\ SectionsLocated'
<1>1. TypeOK
  BY DEF IInv
<1>2. phase = 9 /\ UpdatePhase = 8 /\ UpdatePhase' = 8
  <2>1. phase \in 1 .. 10
    BY <1>1, PhaseFacts DEF TypeOK
  <2>2. phase = 9
    BY <2>1, PhaseFacts
  <2>3. QED
    BY <2>2 DEF UpdatePhase
<1>3. phase' \in DOMAIN Phases
  <2>1. phase' \in 1 .. 10
    BY <1>2
  <2>2. QED
    BY <2>1, PhaseFacts
<1>4. relocated = {} /\ relocated' = {}
  BY <1>2 DEF IInv, PassesComplete
<1>5. Placed = Sections /\ Placed' = Sections
  BY <1>2, InputFrame DEF Placed
<1>6. Untouched' /\ PassesComplete' /\ NothingForgotten'
  BY <1>2, <1>4 DEF Untouched, PassesComplete, NothingForgotten
<1>7. SectionsLocated'
  BY <1>2, LocatedFrame DEF IInv, Located
<1>8. QED
  BY <1>2, <1>3, <1>5, <1>6, <1>7

\* A block to fill lies in the page.
LEMMA FillBlockFacts ==
    ASSUME TypeOK, input \in Input, fillNext \in Definitions, NEW b \in FillBlocks(fillNext)
    PROVE  /\ b \in Block
           /\ Def(fillNext).kind = "code"
           /\ Start(fillNext) <= b.address
           /\ b.address + b.size - 1 <= Stop(fillNext)
<1>1. Start(fillNext) \in Nat /\ Stop(fillNext) \in Nat
  BY InputFacts
<1>2. /\ b \in SmallestBlock(used["rom"], Start(fillNext), Stop(fillNext), 1)
      /\ Def(fillNext).kind = "code"
  BY DEF FillBlocks
<1>3. b \in BlocksFound(used["rom"], Start(fillNext), Stop(fillNext))
  BY <1>1, <1>2, SelectedBlock
<1>4. /\ b = [address |-> b.address, size |-> b.size]
      /\ b.address \in Int /\ b.size \in Nat \ {0}
      /\ Start(fillNext) <= b.address /\ b.address + b.size - 1 <= Stop(fillNext)
  BY <1>1, <1>3, BlockBounds
<1>5. b.address \in Nat /\ b.size \in Nat
  BY <1>1, <1>4
<1>6. QED
  BY <1>2, <1>4, <1>5 DEF Block

LEMMA Appended ==
    ASSUME NEW S, NEW s \in Seq(S), NEW e \in S
    PROVE  /\ Append(s, e) \in Seq(S)
           /\ DOMAIN Append(s, e) = DOMAIN s \cup {Len(s) + 1}
           /\ Append(s, e)[Len(s) + 1] = e
           /\ \A n \in DOMAIN s : Append(s, e)[n] = s[n]
OBVIOUS

LEMMA FillPageIInv == IInv /\ FillPage => IInv'
<1> SUFFICES ASSUME IInv, FillPage PROVE IInv'
  OBVIOUS
<1>1. TypeOK /\ input \in Input
  BY DEF IInv
<1>2. PICK b \in FillBlocks(fillNext) : /\ fills' = Append(fills, [def |-> fillNext, block |-> b])
                                        /\ SetUsed("rom", b.address, b.size)
  BY DEF FillPage
<1>3. /\ Phases[phase] = "fill" /\ fillNext \in Definitions
      /\ UNCHANGED <<input, phase, relocated, address, shadow, value, fillNext>>
  BY DEF FillPage
<1>5. b \in Block
  BY <1>1, <1>2, <1>3, FillBlockFacts
<1>6. b.address \in Nat /\ b.size \in Nat /\ "rom" \in Area
  BY <1>5 DEF Block, Area
<1> DEFINE f     == [def |-> fillNext, block |-> b]
           bytes == b.address .. (b.address + b.size - 1)
<1>7. /\ used' \in [Area -> SUBSET Nat]
      /\ errors' \in BOOLEAN
      /\ \A r \in Area : used[r] \subseteq used'[r]
      /\ errors => errors'
      /\ ~errors' => /\ bytes \subseteq used'["rom"]
                     /\ \A c \in bytes : c \notin used["rom"]
  BY <1>1, <1>2, <1>6, SetUsedFacts
<1>4. /\ phase = 9 /\ Placed = Sections /\ Placed' = Sections
      /\ Untouched' /\ PassesComplete' /\ NothingForgotten' /\ SectionsLocated'
  BY <1>3, <1>7, FillingFacts
<1>a. fills \in Seq(Fill) /\ f \in Fill
  BY <1>1, <1>3, <1>5 DEF TypeOK, Fill
<1>b. /\ fills' \in Seq(Fill)
      /\ DOMAIN fills' = DOMAIN fills \cup {Len(fills) + 1}
      /\ fills'[Len(fills) + 1] = f
      /\ \A n \in DOMAIN fills : fills'[n] = fills[n]
  BY <1>2, <1>a, Appended
<1>c. FillExtent(f) = bytes
  BY DEF FillExtent
<1>8. TypeOK' /\ (input \in Input)'
  <2>1. Phases' = Phases /\ Sections' = Sections
    BY <1>3, InputFrame DEF Phases
  <2>3. QED
    BY <1>1, <1>3, <1>7, <1>b, <2>1 DEF TypeOK
<1>9. /\ \A j : Extent(j)' = Extent(j)
      /\ \A g : FillExtent(g)' = FillExtent(g)
  BY <1>3, InputFrame DEF Extent, FillExtent
<1>d. InPage(f)
  BY <1>1, <1>2, <1>3, FillBlockFacts DEF InPage
<1> HIDE DEF f, bytes
<1>10. Marked'
  <2> SUFFICES ASSUME ~errors'
               PROVE  /\ \A j \in Sections : Extent(j) \subseteq used'[AreaOf(j)]
                      /\ \A n \in DOMAIN fills' : FillExtent(fills'[n]) \subseteq used'["rom"]
    BY <1>3, <1>4, <1>9, InputFrame DEF Marked
  <2>1. /\ \A j \in Sections : Extent(j) \subseteq used[AreaOf(j)]
        /\ \A n \in DOMAIN fills : FillExtent(fills[n]) \subseteq used["rom"]
    BY <1>4, <1>7 DEF IInv, Marked
  <2>2. \A j \in Sections : AreaOf(j) \in Area
    BY DEF AreaOf, Area
  <2>3. \A n \in DOMAIN fills' : FillExtent(fills'[n]) \subseteq used'["rom"]
    BY <1>6, <1>7, <1>b, <1>c, <2>1
  <2>4. QED
    BY <1>7, <2>1, <2>2, <2>3
<1>11. MapIsDisjoint'
  <2> SUFFICES ASSUME ~errors'
               PROVE  /\ \A j, k \in Sections :
                            (j # k /\ AreaOf(j) = AreaOf(k)) => Extent(j) \cap Extent(k) = {}
                      /\ \A j \in Sections, n \in DOMAIN fills' :
                            AreaOf(j) = "rom" => Extent(j) \cap FillExtent(fills'[n]) = {}
                      /\ \A m, n \in DOMAIN fills' :
                            m # n => FillExtent(fills'[m]) \cap FillExtent(fills'[n]) = {}
    BY <1>3, <1>4, <1>9, InputFrame DEF MapIsDisjoint
  <2>1. /\ \A j \in Sections : Extent(j) \subseteq used[AreaOf(j)]
        /\ \A n \in DOMAIN fills : FillExtent(fills[n]) \subseteq used["rom"]
    BY <1>4, <1>7 DEF IInv, Marked
  <2>2. /\ \A j, k \in Sections :
              (j # k /\ AreaOf(j) = AreaOf(k)) => Extent(j) \cap Extent(k) = {}
        /\ \A j \in Sections, n \in DOMAIN fills :
              AreaOf(j) = "rom" => Extent(j) \cap FillExtent(fills[n]) = {}
        /\ \A m, n \in DOMAIN fills :
              m # n => FillExtent(fills[m]) \cap FillExtent(fills[n]) = {}
    BY <1>4, <1>7 DEF IInv, MapIsDisjoint
  <2>3. \A j \in Sections : AreaOf(j) = "rom" => Extent(j) \cap FillExtent(f) = {}
    BY <1>7, <1>c, <2>1
  <2>4. \A n \in DOMAIN fills : FillExtent(fills[n]) \cap FillExtent(f) = {}
    BY <1>7, <1>c, <2>1
  <2>5. \A j \in Sections, n \in DOMAIN fills' :
            AreaOf(j) = "rom" => Extent(j) \cap FillExtent(fills'[n]) = {}
    BY <1>b, <2>2, <2>3
  <2>6. \A m, n \in DOMAIN fills' :
            m # n => FillExtent(fills'[m]) \cap FillExtent(fills'[n]) = {}
    BY <1>b, <2>2, <2>4
  <2>7. QED
    BY <2>2, <2>5, <2>6
<1>12. Located'
  <2>1. \A n \in DOMAIN fills : InPage(fills[n])
    BY DEF IInv, Located
  <2>2. \A n \in DOMAIN fills' : InPage(fills'[n])
    BY <1>b, <1>d, <2>1
  <2>3. QED
    BY <1>3, <1>4, <2>2, AnchorFrame DEF Located
<1>13. QED
  BY <1>4, <1>8, <1>10, <1>11, <1>12 DEF IInv

\* A name that is taken ends the filling with an error.
LEMMA RefuseFillIInv == IInv /\ RefuseFill => IInv'
<1> SUFFICES ASSUME IInv, RefuseFill PROVE IInv'
  OBVIOUS
<1>1. TypeOK /\ input \in Input
  BY DEF IInv
<1>2. /\ Phases[phase] = "fill" /\ errors' = TRUE /\ phase' = phase + 1
      /\ UNCHANGED <<input, used, relocated, address, shadow, value, fillNext, fills>>
  BY DEF RefuseFill, GiveUp
<1>3. /\ phase' \in DOMAIN Phases
      /\ Untouched' /\ PassesComplete' /\ NothingForgotten' /\ SectionsLocated'
  BY <1>2, FillingFacts
<1>4. TypeOK' /\ (input \in Input)'
  <2>1. Phases' = Phases /\ Sections' = Sections
    BY <1>2, InputFrame DEF Phases
  <2>2. QED
    BY <1>1, <1>2, <1>3, <2>1 DEF TypeOK
<1>5. Marked' /\ MapIsDisjoint'
  BY <1>2 DEF Marked, MapIsDisjoint
<1>6. Located'
  BY <1>2, <1>3, AnchorFrame DEF IInv, Located
<1>7. QED
  BY <1>3, <1>4, <1>5, <1>6 DEF IInv

LEMMA NextPageIInv == IInv /\ NextPage => IInv'
<1> SUFFICES ASSUME IInv, NextPage PROVE IInv'
  OBVIOUS
<1>1. TypeOK /\ input \in Input
  BY DEF IInv
<1>2. /\ Phases[phase] = "fill"
      /\ UNCHANGED <<input, used, relocated, address, shadow, value, fills, errors>>
      /\ \/ fillNext' = fillNext + 1 /\ phase' = phase
         \/ phase' = phase + 1 /\ fillNext' = fillNext
  BY DEF NextPage
<1>3. /\ phase = 9 /\ phase' \in DOMAIN Phases /\ Placed = Sections /\ Placed' = Sections
      /\ Untouched' /\ PassesComplete' /\ NothingForgotten' /\ SectionsLocated'
  BY <1>2, FillingFacts
<1>4. TypeOK' /\ (input \in Input)'
  <2>1. Phases' = Phases /\ Sections' = Sections
    BY <1>2, InputFrame DEF Phases
  <2>2. fillNext' \in Nat \ {0}
    BY <1>1, <1>2 DEF TypeOK
  <2>3. QED
    BY <1>1, <1>2, <1>3, <2>1, <2>2 DEF TypeOK
<1>5. /\ \A j : Extent(j)' = Extent(j)
      /\ \A f : FillExtent(f)' = FillExtent(f)
  BY <1>2, InputFrame DEF Extent, FillExtent
<1>6. Marked' /\ MapIsDisjoint'
  <2>1. Marked'
    BY <1>2, <1>3, <1>5, InputFrame DEF IInv, Marked
  <2>2. MapIsDisjoint'
    BY <1>2, <1>3, <1>5, InputFrame DEF IInv, MapIsDisjoint
  <2>3. QED
    BY <2>1, <2>2
<1>7. Located'
  BY <1>2, <1>3, AnchorFrame DEF IInv, Located
<1>8. QED
  BY <1>3, <1>4, <1>6, <1>7 DEF IInv

LEMMA StutterIInv == IInv /\ UNCHANGED vars => IInv'
BY DEF IInv, vars, TypeOK, Untouched, Marked, PassesComplete, MapIsDisjoint, Located,
       SectionsLocated, Anchored, InPage, Start, Stop,
       NothingForgotten, Placed, Extent, FillExtent, LiesIn, Accepts, Sections, Definitions, Sec, Def, AreaOf,
       Phases, UpdatePhase

THEOREM Invariance == Spec => []IInv
<1>1. Init => IInv
  BY InitIInv
<1>2. IInv /\ [Next]_vars => IInv'
  BY RelocAbsIInv, RelocCinitIInv, RelocAssignedIInv, RelocUnassignedIInv, NextPassIInv,
     UpdateTableIInv, FillPageIInv, RefuseFillIInv, NextPageIInv, StutterIInv DEF Next
<1>3. QED
  BY <1>1, <1>2, PTL DEF Spec

-----------------------------------------------------------------------------
(***************************************************************************)
(* For every object and script the variables keep their shapes; in         *)
(* particular no section gets a negative address in a memory.              *)
(***************************************************************************)
THEOREM TypeCorrect == Spec => []TypeOK
<1>1. IInv => TypeOK
  BY DEF IInv
<1>2. QED
  BY <1>1, Invariance, PTL

(***************************************************************************)
(* Real addresses.  In a script that says of each address in one way which *)
(* byte of the memory it is, the byte that a section takes at an address   *)
(* is the one that the script means, and so sections that share an address *)
(* share a byte of the memory.                                             *)
(***************************************************************************)
\* The script moves address x of a memory by s.
Moves(area, x, s) ==
    \/ \E d \in Definitions : AreaOfDefinition(d) = area /\ x \in Covers(d) /\ Def(d).shift = s
    \/ /\ s = 0
       /\ \A d \in Definitions : (AreaOfDefinition(d) = area /\ x \in Covers(d)) => Def(d).shift = 0

LEMMA MovesOneWay ==
    ASSUME ClearScript, NEW area, NEW x, NEW s, NEW t, Moves(area, x, s), Moves(area, x, t)
    PROVE  s = t
<1>1. \A d, e \in Definitions :
          (/\ AreaOfDefinition(d) = area /\ x \in Covers(d)
           /\ AreaOfDefinition(e) = area /\ x \in Covers(e)) => Def(d).shift = Def(e).shift
  BY DEF ClearScript
<1>2. QED
  BY <1>1 DEF Moves

LEMMA SectionIsMoved ==
    ASSUME IInv, ClearScript, NEW i \in Sections, Anchored(i), ~InShadow(i), NEW x \in Bytes(i)
    PROVE  /\ Moves(AreaOf(i), x, shadow[i] - address[i])
           /\ x + (shadow[i] - address[i]) \in Extent(i)
<1>1. /\ Sec(i).size \in Nat /\ shadow[i] \in Nat /\ address[i] \in Int
      /\ \A d \in Definitions :
            Def(d).start \in Nat /\ Def(d).end \in Nat /\ Def(d).shift \in Int
  BY InputFacts DEF IInv, TypeOK
<1>2. x \in Int /\ address[i] <= x /\ x <= address[i] + Sec(i).size - 1
  BY <1>1 DEF Bytes
<1>3. x + (shadow[i] - address[i]) \in Extent(i)
  BY <1>1, <1>2 DEF Extent
<1>4. CASE Sec(i).abs /\ address[i] = shadow[i]
  <2>1. \A d \in Definitions :
            (AreaOfDefinition(d) = AreaOf(i) /\ x \in Covers(d)) => Def(d).shift = 0
    BY <1>4 DEF InShadow
  <2>2. shadow[i] - address[i] = 0
    BY <1>1, <1>4
  <2>3. QED
    BY <1>3, <2>1, <2>2 DEF Moves
<1>5. CASE \E d \in Definitions : LiesIn(i, d)
  <2>1. PICK d \in Definitions : LiesIn(i, d)
    BY <1>5
  <2>2. AreaOfDefinition(d) = AreaOf(i)
    <3>1. CASE Sec(i).logical = d
      <4>1. d # 0
        BY <1>1 DEF Definitions, IInv, TypeOK, InputType
      <4>2. QED
        BY <3>1, <4>1 DEF ClearScript
    <3>2. CASE Def(d).kind = Sec(i).kind
      BY <3>2 DEF AreaOfDefinition, AreaOf
    <3>3. CASE Def(d).kind = "shared" /\ Sec(i).kind = "data"
      BY <3>3 DEF AreaOfDefinition, AreaOf
    <3>4. QED
      BY <2>1, <3>1, <3>2, <3>3 DEF LiesIn, Accepts
  <2>3. x \in Covers(d) /\ Def(d).shift = shadow[i] - address[i]
    <3>1. Def(d).start \in Nat /\ Def(d).end \in Nat /\ Def(d).shift \in Int
      BY <1>1
    <3>2. /\ Def(d).start <= address[i] /\ address[i] + Sec(i).size - 1 <= Def(d).end
          /\ shadow[i] = address[i] + Def(d).shift
      BY <2>1 DEF LiesIn
    <3>3. Def(d).start <= x /\ x <= Def(d).end
      BY <1>1, <1>2, <3>1, <3>2
    <3>4. x \in Covers(d)
      BY <1>2, <3>1, <3>3 DEF Covers
    <3>5. Def(d).shift = shadow[i] - address[i]
      BY <1>1, <3>1, <3>2
    <3>6. QED
      BY <3>4, <3>5
  <2>4. QED
    BY <1>3, <2>2, <2>3 DEF Moves
<1>6. QED
  BY <1>4, <1>5 DEF Anchored

LEMMA FillIsMoved ==
    ASSUME IInv, NEW n \in DOMAIN fills, NEW x \in FillBytes(fills[n])
    PROVE  /\ Moves("rom", x, Def(fills[n].def).shift)
           /\ x + Def(fills[n].def).shift \in FillExtent(fills[n])
<1>1. PICK f : f = fills[n]
  OBVIOUS
<1>2. f \in Fill /\ InPage(f) /\ x \in FillBytes(f)
  BY <1>1 DEF IInv, TypeOK, Located
<1>3. /\ f.block.address \in Nat /\ f.block.size \in Nat /\ f.def \in Definitions
  BY <1>2 DEF Fill, Block, InPage
<1>4. PICK d \in Definitions : d = f.def
  BY <1>3
<1>5. /\ Def(d).start \in Nat /\ Def(d).end \in Nat /\ Def(d).shift \in Int
  BY InputFacts DEF IInv
<1>6. /\ x \in Int /\ f.block.address <= x + Def(d).shift
      /\ x + Def(d).shift <= f.block.address + f.block.size - 1
  BY <1>2, <1>3, <1>4, <1>5 DEF FillBytes
<1>7. x + Def(d).shift \in FillExtent(f)
  BY <1>3, <1>5, <1>6 DEF FillExtent
<1>8. x \in Covers(d) /\ AreaOfDefinition(d) = "rom"
  BY <1>2, <1>3, <1>4, <1>5, <1>6 DEF InPage, Start, Stop, Covers, AreaOfDefinition
<1>9. QED
  BY <1>1, <1>4, <1>7, <1>8 DEF Moves

LEMMA ApartInReality == IInv => AddressesAreDisjoint
<1> SUFFICES ASSUME IInv, ~errors, ClearScript
             PROVE  /\ \A i, j \in Placed :
                          (i # j /\ AreaOf(i) = AreaOf(j) /\ ~InShadow(i) /\ ~InShadow(j))
                              => Bytes(i) \cap Bytes(j) = {}
                    /\ \A i \in Placed, n \in DOMAIN fills :
                          (AreaOf(i) = "rom" /\ ~InShadow(i))
                              => Bytes(i) \cap FillBytes(fills[n]) = {}
                    /\ \A m, n \in DOMAIN fills :
                          m # n => FillBytes(fills[m]) \cap FillBytes(fills[n]) = {}
  BY DEF AddressesAreDisjoint
<1>1. \A i \in Placed : i \in Sections /\ Anchored(i)
  <2>1. phase \in Nat /\ UpdatePhase = 8 /\ relocated \subseteq Sections
    BY PhaseFacts DEF IInv, TypeOK
  <2>2. QED
    BY <2>1 DEF IInv, Located, SectionsLocated, Placed
<1>2. /\ \A i, j \in Placed :
            (i # j /\ AreaOf(i) = AreaOf(j)) => Extent(i) \cap Extent(j) = {}
      /\ \A i \in Placed, n \in DOMAIN fills :
            AreaOf(i) = "rom" => Extent(i) \cap FillExtent(fills[n]) = {}
      /\ \A m, n \in DOMAIN fills :
            m # n => FillExtent(fills[m]) \cap FillExtent(fills[n]) = {}
  BY DEF IInv, MapIsDisjoint
<1>3. ASSUME NEW i \in Placed, NEW j \in Placed, i # j, AreaOf(i) = AreaOf(j),
             ~InShadow(i), ~InShadow(j), NEW x \in Bytes(i), x \in Bytes(j)
      PROVE  FALSE
  <2>1. /\ Moves(AreaOf(i), x, shadow[i] - address[i])
        /\ x + (shadow[i] - address[i]) \in Extent(i)
    BY <1>1, <1>3, SectionIsMoved
  <2>2. /\ Moves(AreaOf(i), x, shadow[j] - address[j])
        /\ x + (shadow[j] - address[j]) \in Extent(j)
    BY <1>1, <1>3, SectionIsMoved
  <2>3. shadow[i] - address[i] = shadow[j] - address[j]
    BY <2>1, <2>2, MovesOneWay
  <2>4. QED
    BY <1>2, <1>3, <2>1, <2>2, <2>3
<1>4. ASSUME NEW i \in Placed, NEW n \in DOMAIN fills, AreaOf(i) = "rom", ~InShadow(i),
             NEW x \in Bytes(i), x \in FillBytes(fills[n])
      PROVE  FALSE
  <2>1. /\ Moves("rom", x, shadow[i] - address[i])
        /\ x + (shadow[i] - address[i]) \in Extent(i)
    BY <1>1, <1>4, SectionIsMoved
  <2>2. /\ Moves("rom", x, Def(fills[n].def).shift)
        /\ x + Def(fills[n].def).shift \in FillExtent(fills[n])
    BY <1>4, FillIsMoved
  <2>3. shadow[i] - address[i] = Def(fills[n].def).shift
    BY <2>1, <2>2, MovesOneWay
  <2>4. QED
    BY <1>2, <1>4, <2>1, <2>2, <2>3
<1>5. ASSUME NEW m \in DOMAIN fills, NEW n \in DOMAIN fills, m # n,
             NEW x \in FillBytes(fills[m]), x \in FillBytes(fills[n])
      PROVE  FALSE
  <2>1. /\ Moves("rom", x, Def(fills[m].def).shift)
        /\ x + Def(fills[m].def).shift \in FillExtent(fills[m])
    BY <1>5, FillIsMoved
  <2>2. /\ Moves("rom", x, Def(fills[n].def).shift)
        /\ x + Def(fills[n].def).shift \in FillExtent(fills[n])
    BY <1>5, FillIsMoved
  <2>3. Def(fills[m].def).shift = Def(fills[n].def).shift
    BY <2>1, <2>2, MovesOneWay
  <2>4. QED
    BY <1>2, <1>5, <2>1, <2>2, <2>3
<1>6. QED
  BY <1>3, <1>4, <1>5

(***************************************************************************)
(* For every object and script, whatever pass placed them, no two sections *)
(* of a link without errors share a byte: neither in the memories that the *)
(* linker searches, nor, unless the script gives one address two meanings  *)
(* or an absolute section lies in a definition with a shadow, by their     *)
(* real addresses.                                                         *)
(***************************************************************************)
THEOREM Disjoint == Spec => []NoOverlap
<1>1. IInv => NoOverlap
  BY ApartInReality DEF IInv, NoOverlap
<1>2. QED
  BY <1>1, Invariance, PTL

(***************************************************************************)
(* Every section that the linker places lies in a definition made for it,  *)
(* shadow mapping and --use-shared included.                               *)
(***************************************************************************)
THEOREM Contained == Spec => []InsideDefinition
<1>1. IInv => InsideDefinition
  BY DEF IInv, Located, SectionsLocated, Anchored, InsideDefinition
<1>2. QED
  BY <1>1, Invariance, PTL

(***************************************************************************)
(* The symbols get their values when every section has its address, or an  *)
(* error was reported.                                                     *)
(***************************************************************************)
THEOREM Complete == Spec => []NothingForgotten
<1>1. IInv => NothingForgotten
  BY DEF IInv
<1>2. QED
  BY <1>1, Invariance, PTL

-----------------------------------------------------------------------------
(***************************************************************************)
(* The passes by their numbers, and absolute sections, which the later     *)
(* passes find placed.                                                     *)
(***************************************************************************)
LEMMA PhaseOfStep ==
    ASSUME TypeOK
    PROVE  /\ phase \in 1 .. 10
           /\ RelocAbs => phase \in {1, 2}
           /\ RelocCinit => phase = 3
           /\ RelocAssigned => phase \in {4, 5}
           /\ RelocUnassigned => phase \in {6, 7}
           /\ NextPass => phase \in 1 .. 7
           /\ UpdateTable => phase = 8
           /\ FillPage => phase = 9
           /\ RefuseFill => phase = 9
           /\ NextPage => phase = 9
<1>1. phase \in 1 .. 10
  BY PhaseFacts DEF TypeOK
<1>2. /\ RelocAbs => Phases[phase] \in {"absRom", "absRam"}
      /\ RelocCinit => Phases[phase] = "cinit"
      /\ RelocAssigned => Phases[phase] \in {"assignedRom", "assignedRam"}
      /\ RelocUnassigned => Phases[phase] \in {"unassignedRom", "unassignedRam"}
      /\ UpdateTable => Phases[phase] = "update"
      /\ FillPage => Phases[phase] = "fill"
      /\ RefuseFill => Phases[phase] = "fill"
      /\ NextPage => Phases[phase] = "fill"
  BY DEF RelocAbs, RelocCinit, RelocAssigned, RelocUnassigned, UpdateTable, FillPage, RefuseFill, NextPage
<1>3. NextPass => phase \in 1 .. 7
  BY IdleFacts DEF NextPass
<1>4. QED
  BY <1>1, <1>2, <1>3, PhaseFacts, Zenon

LEMMA PhaseNames ==
    ASSUME TypeOK
    PROVE  /\ Phases[phase] = "cinit" => phase = 3
           /\ Phases[phase] = "unassignedRom" => phase = 6
           /\ Phases[phase] = "done" => phase = 10
           /\ phase \in {1, 4, 6} => AreaOfPhase = "rom"
           /\ phase \in {2, 5, 7} => AreaOfPhase = "ram"
           /\ (phase = 1 /\ Idle) => \A i \in Pending : ~Sec(i).abs
<1>1. phase \in 1 .. 10
  BY PhaseOfStep
<1>2. /\ Phases[1] = "absRom" /\ Phases[2] = "absRam" /\ Phases[3] = "cinit"
      /\ Phases[4] = "assignedRom" /\ Phases[5] = "assignedRam"
      /\ Phases[6] = "unassignedRom" /\ Phases[7] = "unassignedRam"
      /\ Phases[8] = "update" /\ Phases[9] = "fill" /\ Phases[10] = "done"
  BY DEF Phases
<1>3. phase \in {1, 4, 6} => AreaOfPhase = "rom"
  BY <1>2 DEF AreaOfPhase
<1>4. phase \in {2, 5, 7} => AreaOfPhase = "ram"
  BY <1>2 DEF AreaOfPhase
<1>5. (phase = 1 /\ Idle) => \A i \in Pending : ~Sec(i).abs
  BY <1>2 DEF Idle
<1>6. \/ phase = 1 \/ phase = 2 \/ phase = 3 \/ phase = 4 \/ phase = 5
      \/ phase = 6 \/ phase = 7 \/ phase = 8 \/ phase = 9 \/ phase = 10
  BY <1>1
<1>7. Phases[phase] = "done" => phase = 10
  BY <1>2, <1>6
<1>8. QED
  BY <1>1, <1>3, <1>4, <1>5, <1>7, PhaseFacts, Zenon

LEMMA InputStays == [Next]_vars => input' = input
<1>1. RelocAbs => input' = input
  BY DEF RelocAbs
<1>2. RelocCinit \/ RelocAssigned \/ RelocUnassigned => input' = input
  BY DEF RelocCinit, RelocAssigned, RelocUnassigned
<1>3. NextPass \/ UpdateTable \/ FillPage \/ RefuseFill \/ NextPage => input' = input
  BY DEF NextPass, UpdateTable, FillPage, RefuseFill, NextPage
<1>4. UNCHANGED vars => input' = input
  BY DEF vars
<1>5. QED
  BY <1>1, <1>2, <1>3, <1>4 DEF Next

\* The passes over absolute sections leave none behind.
AbsolutePlaced ==
    phase \in 2 .. UpdatePhase => \A i \in Sections : (Sec(i).abs /\ AreaOf(i) = "rom") => i \in relocated

LEMMA AbsolutePlacedStep == IInv /\ IInv' /\ AbsolutePlaced /\ [Next]_vars => AbsolutePlaced'
<1> SUFFICES ASSUME IInv, IInv', AbsolutePlaced, [Next]_vars, phase' \in 2 .. 8,
                    NEW i \in Sections, Sec(i).abs, AreaOf(i) = "rom"
             PROVE  i \in relocated'
  BY InputStays, InputFrame DEF AbsolutePlaced, UpdatePhase
<1>1. TypeOK /\ TypeOK' /\ phase \in 1 .. 10
  BY PhaseOfStep DEF IInv
<1>2. CASE NextPass
  <2>1. phase' = phase + 1 /\ relocated' = relocated
    BY <1>2 DEF NextPass
  <2>2. CASE phase = 1
    <3>1. AreaOfPhase = "rom" /\ \A j \in Pending : ~Sec(j).abs
      BY <1>1, <1>2, <2>2, PhaseNames DEF NextPass
    <3>2. QED
      BY <2>1, <3>1 DEF Pending
  <2>3. CASE phase # 1
    <3>1. phase \in 2 .. UpdatePhase
      BY <1>1, <2>1, <2>3 DEF UpdatePhase
    <3>2. QED
      BY <2>1, <3>1 DEF AbsolutePlaced
  <2>4. QED
    BY <2>2, <2>3
<1>3. CASE RelocAbs
  <2>1. phase' = phase /\ relocated \subseteq relocated'
    BY <1>3 DEF RelocAbs
  <2>2. QED
    BY <2>1 DEF AbsolutePlaced, UpdatePhase
<1>4. CASE RelocCinit \/ RelocAssigned \/ RelocUnassigned
  <2>1. relocated \subseteq relocated'
    BY <1>4 DEF RelocCinit, RelocAssigned, RelocUnassigned, GiveUp, Place
  <2>2. phase \in 3 .. 7
    BY <1>1, <1>4, PhaseOfStep
  <2>3. QED
    BY <2>1, <2>2 DEF AbsolutePlaced, UpdatePhase
<1>5. CASE UpdateTable \/ FillPage \/ RefuseFill \/ NextPage
  <2>0. /\ UpdateTable => phase = 8 /\ phase' = phase + 1
        /\ FillPage \/ NextPage => phase = 9 /\ phase' \in {phase, phase + 1}
        /\ RefuseFill => phase = 9 /\ phase' = phase + 1
    BY <1>1, PhaseOfStep DEF UpdateTable, FillPage, RefuseFill, GiveUp, NextPage
  <2>1. phase \in {8, 9} /\ phase' \in {phase, phase + 1} /\ (phase = 8 => phase' = 9)
    BY <1>5, <2>0
  <2>2. QED
    BY <2>1
<1>6. CASE UNCHANGED vars
  BY <1>6 DEF vars, AbsolutePlaced, UpdatePhase
<1>7. QED
  BY <1>2, <1>3, <1>4, <1>5, <1>6 DEF Next

LEMMA AbsoluteFirst == Spec => []AbsolutePlaced
<1>1. Init => AbsolutePlaced
  BY DEF Init, AbsolutePlaced
<1>2. QED
  BY <1>1, AbsolutePlacedStep, Invariance, PTL DEF Spec

-----------------------------------------------------------------------------
(***************************************************************************)
(* What a step promises of the memory it has searched.                     *)
(***************************************************************************)
LEMMA SizeFacts ==
    ASSUME TypeOK, input \in Input, NEW i \in Sections, Sec(i).kind = "code"
    PROVE  /\ (~input.pic16e \/ Sec(i).cinit) => Sec(i).size % 2 = 0
           /\ Sec(i).cinit => Sec(i).size >= 2
           /\ ~Sec(i).abs => Sec(i).plain
           /\ ~Sec(i).abs => Aligned(i) % 2 = 0
<1>1. /\ (~input.pic16e \/ Sec(i).cinit) => Sec(i).size % 2 = 0
      /\ Sec(i).cinit => Sec(i).size >= 2
      /\ ~Sec(i).abs => Sec(i).plain
  BY SizeAssumption DEF Sections, Sec
<1>2. Sec(i).size \in Nat
  BY InputFacts
<1>3. ASSUME ~Sec(i).abs PROVE Aligned(i) % 2 = 0
  <2>1. CASE Sec(i).size % 2 = 0
    BY <1>2, <2>1 DEF Aligned, OddCode
  <2>2. CASE Sec(i).size % 2 # 0
    <3>1. Sec(i).size % 2 = 1
      BY <1>2, <2>2
    <3>2. Aligned(i) = Sec(i).size + 1
      BY <1>1, <1>3, <3>1 DEF Aligned, OddCode
    <3>3. QED
      BY <1>2, <3>1, <3>2
  <2>3. QED
    BY <2>1, <2>2
<1>4. QED
  BY <1>1, <1>3

LEMMA CinitStepIsLowest ==
    ASSUME IInv, Next, NEW i \in CinitSections, phase = 3, i \in relocated' \ relocated,
           NEW d \in Definitions, Def(d).kind = "code", ~Def(d).protected,
           NEW a \in Start(d) .. (Stop(d) - Sec(i).size + 1), IsFree(used["rom"], a, Sec(i).size)
    PROVE  shadow'[i] <= a
<1>1. TypeOK /\ input \in Input
  BY DEF IInv
<1>3. RelocCinit
  <2>1. ~NextPass
    BY DEF NextPass
  <2>2. QED
    BY <1>1, <2>1, PhaseOfStep DEF Next
<1>4. PICK j \in CinitSections \ relocated : \E p \in CinitPlaces(j) :
         /\ \A q \in CinitPlaces(j) :
               \/ p.block.address < q.block.address
               \/ p.block.address = q.block.address /\ p.def <= q.def
         /\ Place(j, p.def, p.block.address, Sec(j).size)
  <2>1. ~GiveUp
    BY DEF GiveUp
  <2>2. QED
    BY <1>3, <2>1 DEF RelocCinit
<1>5. PICK p \in CinitPlaces(j) :
         /\ \A q \in CinitPlaces(j) :
               \/ p.block.address < q.block.address
               \/ p.block.address = q.block.address /\ p.def <= q.def
         /\ Place(j, p.def, p.block.address, Sec(j).size)
  BY <1>4
<1>6. i = j
  BY <1>5 DEF Place
<1>7. i \in Sections /\ Sec(i).cinit /\ Sec(i).kind = "code"
  BY <1>1, InputFacts DEF CinitSections
<1>8. shadow'[i] = p.block.address
  BY <1>1, <1>5, <1>6, <1>7 DEF Place, TypeOK
<1>9. Sec(i).size \in Nat /\ Sec(i).size >= 2 /\ Start(d) \in Nat /\ Stop(d) \in Nat
  BY <1>1, <1>7, InputFacts, SizeFacts
<1>10. PICK b \in Fitting(used["rom"], Start(d), Stop(d), Sec(i).size) : b.address <= a
  BY <1>9, RunIsFound
<1>11. PICK c \in FirstBlock(used["rom"], Start(d), Stop(d), Sec(i).size) : c.address <= b.address
  BY <1>9, FoundIsSelected
<1>12. [def |-> d, block |-> c] \in CinitPlaces(i)
  BY <1>11 DEF CinitPlaces
<1>13. p.block.address <= c.address
  <2>1. \/ p.block.address < c.address
        \/ p.block.address = c.address
    BY <1>5, <1>6, <1>12
  <2>2. c.address \in Int
    BY <1>9, <1>11, SelectedBlock, BlockBounds
  <2>3. shadow'[i] \in Int
    <3>1. TypeOK'
      BY <1>3, RelocCinitIInv DEF IInv
    <3>2. input' = input
      BY <1>3 DEF RelocCinit
    <3>3. QED
      BY <1>7, <3>1, <3>2, InputFrame DEF TypeOK
  <2>4. QED
    BY <1>8, <2>1, <2>2, <2>3
<1>14. QED
  <2>1. b.address \in Int /\ c.address \in Int
    BY <1>9, <1>10, <1>11, SelectedBlock, BlockBounds DEF Fitting
  <2>2. shadow'[i] \in Int
    <3>1. TypeOK'
      BY <1>3, RelocCinitIInv DEF IInv
    <3>2. input' = input
      BY <1>3 DEF RelocCinit
    <3>3. QED
      BY <1>7, <3>1, <3>2, InputFrame DEF TypeOK
  <2>3. a \in Int
    BY <1>9
  <2>4. QED
    BY <1>8, <1>10, <1>11, <1>13, <2>1, <2>2, <2>3

(***************************************************************************)
(* For every object and script: when MPLINK is imitated, the table .cinit  *)
(* goes to the lowest address where it has room.                           *)
(***************************************************************************)
THEOREM LowestCinit == Spec => CinitIsLowest
<1> DEFINE A == \A i \in CinitSections :
                   (Phases[phase] = "cinit" /\ i \in relocated' \ relocated) =>
                       \A d \in Definitions :
                           (Def(d).kind = "code" /\ ~Def(d).protected) =>
                               \A a \in Start(d) .. (Stop(d) - Sec(i).size + 1) :
                                   IsFree(used["rom"], a, Sec(i).size) => shadow'[i] <= a
<1>1. IInv /\ Next => A
  <2>1. IInv => TypeOK
    BY DEF IInv
  <2>2. QED
    BY <2>1, PhaseNames, CinitStepIsLowest
<1>2. QED
  BY <1>1, Invariance, PTL DEF Spec, CinitIsLowest

LEMMA RefusedForCause ==
    ASSUME IInv, AbsolutePlaced, Next, Phases[phase] = "unassignedRom", phase' # phase,
           \E i \in Pending : Sec(i).size > 0
    PROVE  \E i \in Pending : Sec(i).size > 0 /\ \A d \in Definitions :
              (Def(d).kind = "code" /\ ~Def(d).protected) =>
                  \A a \in Start(d) .. (Stop(d) - Aligned(i) + 1) :
                      ~IsFree(used["rom"], a, Aligned(i))
<1>1. TypeOK /\ input \in Input
  BY DEF IInv
<1>2. phase = 6
  BY <1>1, PhaseNames
<1>3. RelocUnassigned
  <2>1. ~NextPass
    BY <1>1, <1>2, IdleFacts DEF NextPass
  <2>2. QED
    BY <1>1, <1>2, <2>1, PhaseOfStep DEF Next
<1>4. PICK i \in Biggest(Pending) : Places(i, KindFor(i)) = {}
  BY <1>3 DEF RelocUnassigned
<1>5. /\ i \in Pending /\ i \in Sections
      /\ \A j \in Pending : Sec(i).size > Sec(j).size \/ Sec(i).size = Sec(j).size
  BY DEF Biggest, Pending
<1>6. Sec(i).size \in Nat /\ Aligned(i) \in Nat /\ Aligned(i) >= Sec(i).size
  BY <1>1, <1>5, InputFacts
<1>7. Sec(i).size > 0
  <2>1. PICK j \in Pending : Sec(j).size > 0
    OBVIOUS
  <2>2. Sec(j).size \in Nat
    BY <1>1, InputFacts DEF Pending
  <2>3. QED
    BY <1>5, <1>6, <2>1, <2>2
<1>8. AreaOf(i) = "rom" /\ Sec(i).kind = "code"
  BY <1>1, <1>2, <1>5, PhaseNames DEF Pending, AreaOf
<1>9. KindFor(i) = "code"
  BY <1>8 DEF KindFor
<1>10. Aligned(i) >= 2
  <2>1. ~Sec(i).abs => Aligned(i) % 2 = 0
    BY <1>1, <1>5, <1>8, SizeFacts
  <2>2. ~Sec(i).abs
    BY <1>2, <1>5, <1>8 DEF AbsolutePlaced, UpdatePhase, Pending
  <2>3. QED
    BY <1>6, <1>7, <2>1, <2>2
<1>11. ASSUME NEW d \in Definitions, Def(d).kind = "code", ~Def(d).protected,
              NEW a \in Start(d) .. (Stop(d) - Aligned(i) + 1), IsFree(used["rom"], a, Aligned(i))
       PROVE  FALSE
  <2>1. Start(d) \in Nat /\ Stop(d) \in Nat
    BY <1>1, InputFacts
  <2>2. PICK b : b \in Fitting(used["rom"], Start(d), Stop(d), Aligned(i))
    BY <1>6, <1>10, <1>11, <2>1, RunIsFound
  <2>3. PICK c : c \in SmallestBlock(used["rom"], Start(d), Stop(d), Aligned(i))
    BY <1>6, <2>1, <2>2, FoundIsSelected
  <2>4. [def |-> d, block |-> c] \in Places(i, KindFor(i))
    BY <1>8, <1>9, <1>11, <2>3 DEF Places
  <2>5. QED
    BY <1>4, <2>4
<1>12. QED
  BY <1>5, <1>7, <1>11

(***************************************************************************)
(* For every object and script: code is refused only when no code page has *)
(* room for it.                                                            *)
(***************************************************************************)
THEOREM RefusedOnlyForCause == Spec => CodeIsRefusedForCause
<1> DEFINE A == (Phases[phase] = "unassignedRom" /\ phase' # phase /\ \E i \in Pending : Sec(i).size > 0) =>
                   \E i \in Pending : Sec(i).size > 0 /\ \A d \in Definitions :
                       (Def(d).kind = "code" /\ ~Def(d).protected) =>
                           \A a \in Start(d) .. (Stop(d) - Aligned(i) + 1) :
                               ~IsFree(used["rom"], a, Aligned(i))
<1>1. IInv /\ AbsolutePlaced /\ Next => A
  BY RefusedForCause
<1>2. QED
  BY <1>1, Invariance, AbsoluteFirst, PTL DEF Spec, CodeIsRefusedForCause

-----------------------------------------------------------------------------
(***************************************************************************)
(* Program memory is used in pairs of bytes as long as no error is         *)
(* reported and the script assigns no odd section; so what is placed in it *)
(* begins at an even address, and filling leaves no byte.                  *)
(***************************************************************************)
Paired == \A d \in CodeSpace(input) : PairedIn(used["rom"], Start(d), Stop(d))

Filled ==
    \A d \in Definitions :
        (d < fillNext /\ Def(d).kind = "code" /\ Def(d).fill) => Start(d) .. Stop(d) \subseteq used["rom"]

WellPlaced == (~errors /\ ~OddAssigned) => Paired /\ CodeIsAligned /\ Filled

\* The loop over the pages ends behind the last one.
PagesCounted ==
    /\ fillNext \in 1 .. (Len(input.definitions) + 1)
    /\ (phase = 10 /\ ~errors) => fillNext \notin Definitions

EInv == WellPlaced /\ PagesCounted

LEMMA SpaceFacts ==
    ASSUME EvenMemory, TypeOK, input \in Input
    PROVE  /\ \A d \in CodeSpace(input) :
                /\ d \in Definitions
                /\ Start(d) \in Nat /\ Stop(d) \in Nat
                /\ Start(d) % 2 = 0 /\ Stop(d) % 2 = 1
           /\ \A d \in Definitions :
                (Def(d).kind = "code" /\ (~Def(d).protected \/ Def(d).fill)) => d \in CodeSpace(input)
           /\ \A i \in Sections : Sec(i).kind = "code" =>
                /\ Sec(i).logical # 0 => Sec(i).logical \in CodeSpace(input)
                /\ Sec(i).abs => Sec(i).address % 2 = 0
                /\ (Sec(i).abs /\ ~Sec(i).plain /\ Sec(i).size % 2 = 1) =>
                      \A d \in CodeSpace(input) :
                          Sec(i).address + Sec(i).size <= Start(d) \/ Stop(d) < Sec(i).address
<1>1. ASSUME NEW d \in CodeSpace(input)
      PROVE  /\ d \in Definitions
             /\ Start(d) \in Nat /\ Stop(d) \in Nat
             /\ Start(d) % 2 = 0 /\ Stop(d) % 2 = 1
  <2>1. d \in Definitions
    BY DEF CodeSpace, Definitions
  <2>2. Start(d) \in Nat /\ Stop(d) \in Nat
    BY <2>1, InputFacts
  <2>3. Start(d) % 2 = 0 /\ Stop(d) % 2 = 1
    BY DEF EvenMemory, Start, Stop, Def
  <2>4. QED
    BY <2>1, <2>2, <2>3
<1>2. ASSUME NEW d \in Definitions, Def(d).kind = "code", ~Def(d).protected \/ Def(d).fill
      PROVE  d \in CodeSpace(input)
  BY <1>2 DEF CodeSpace, Definitions, Def
<1>3. ASSUME NEW i \in Sections, Sec(i).kind = "code"
      PROVE  /\ Sec(i).logical # 0 => Sec(i).logical \in CodeSpace(input)
             /\ Sec(i).abs => Sec(i).address % 2 = 0
             /\ (Sec(i).abs /\ ~Sec(i).plain /\ Sec(i).size % 2 = 1) =>
                   \A d \in CodeSpace(input) :
                       Sec(i).address + Sec(i).size <= Start(d) \/ Stop(d) < Sec(i).address
  <2>1. /\ Sec(i).logical # 0 => Def(Sec(i).logical).kind = "code"
        /\ Sec(i).abs => Sec(i).address % 2 = 0
        /\ (Sec(i).abs /\ ~Sec(i).plain /\ Sec(i).size % 2 = 1) =>
              \A d \in CodeSpace(input) :
                  Sec(i).address + Sec(i).size <= Start(d) \/ Stop(d) < Sec(i).address
    BY <1>3 DEF EvenMemory, Sections, Sec, Start, Stop, Def
  <2>2. Sec(i).logical # 0 => Sec(i).logical \in Definitions
    BY InputFacts
  <2>3. Sec(i).logical # 0 => Sec(i).logical \in CodeSpace(input)
    BY <1>3, <2>1, <2>2 DEF CodeSpace, Sections, Sec, Definitions, Def
  <2>4. QED
    BY <2>1, <2>3
<1>4. QED
  BY <1>1, <1>2, <1>3

LEMMA SpaceFrame ==
    ASSUME input' = input
    PROVE  /\ CodeSpace(input)' = CodeSpace(input) /\ OddAssigned' = OddAssigned
           /\ \A d : Start(d)' = Start(d) /\ Stop(d)' = Stop(d)
BY DEF CodeSpace, OddAssigned, Sections, Sec, Start, Stop, Def

\* Without an error _set_used has marked all it was asked to.
LEMMA SetUsedExactly ==
    ASSUME NEW area, NEW a, NEW n, SetUsed(area, a, n), ~errors'
    PROVE  /\ used' = [used EXCEPT ![area] = used[area] \cup a .. (a + n - 1)]
           /\ ~errors
<1> DEFINE conflicts == {c \in a .. (a + n - 1) : c \in used[area]}
           marked    == {c \in a .. (a + n - 1) : \A k \in conflicts : c < k}
<1>1. /\ used' = [used EXCEPT ![area] = @ \cup marked]
      /\ errors' = (errors \/ conflicts # {})
  BY DEF SetUsed
<1>2. conflicts = {} /\ ~errors
  BY <1>1
<1>3. marked = a .. (a + n - 1)
  BY <1>2
<1>4. QED
  BY <1>1, <1>2, <1>3

(***************************************************************************)
(* What is marked, and where, for pages to stay in pairs.                  *)
(***************************************************************************)
LEMMA MarkingKeeps ==
    ASSUME EvenMemory, IInv, Paired, Filled, input' = input, fillNext' = fillNext,
           NEW area \in Area, NEW a \in Nat, NEW n \in Nat, SetUsed(area, a, n), ~errors',
           area = "rom" => \/ a % 2 = 0 /\ n % 2 = 0
                           \/ \A d \in CodeSpace(input) : a + n <= Start(d) \/ Stop(d) < a
    PROVE  Paired' /\ Filled'
<1>1. TypeOK /\ input \in Input
  BY DEF IInv
<1>2. used \in [Area -> SUBSET Nat] /\ "rom" \in Area
  BY <1>1 DEF TypeOK, Area
<1>3. used' = [used EXCEPT ![area] = used[area] \cup a .. (a + n - 1)]
  BY SetUsedExactly
<1>4. used["rom"] \subseteq used'["rom"]
  BY <1>2, <1>3
<1>5. Filled'
  BY <1>4, InputFrame, SpaceFrame DEF Filled
<1>6. CASE area # "rom"
  <2>1. used'["rom"] = used["rom"]
    BY <1>2, <1>3, <1>6
  <2>2. Paired'
    BY <2>1, SpaceFrame DEF Paired, PairedIn
  <2>3. QED
    BY <1>5, <2>2
<1>7. CASE area = "rom"
  <2>1. used'["rom"] = used["rom"] \cup a .. (a + n - 1)
    BY <1>2, <1>3, <1>7
  <2>2. ASSUME NEW d \in CodeSpace(input)
        PROVE  PairedIn(used["rom"] \cup a .. (a + n - 1), Start(d), Stop(d))
    <3>1. PairedIn(used["rom"], Start(d), Stop(d))
      BY DEF Paired
    <3>2. Start(d) \in Nat /\ Stop(d) \in Nat /\ Stop(d) % 2 = 1
      BY <1>1, SpaceFacts
    <3>3. QED
      BY <1>7, <3>1, <3>2, PairsStay
  <2>3. \A d \in CodeSpace(input) : PairedIn(used'["rom"], Start(d), Stop(d))
    BY <2>1, <2>2
  <2>4. Paired'
    BY <2>3, SpaceFrame DEF Paired, PairedIn
  <2>5. QED
    BY <1>5, <2>4
<1>8. QED
  BY <1>6, <1>7

\* A section that is placed in a block of pairs begins at an even address.
LEMMA PlacedEvenly ==
    ASSUME EvenMemory, IInv, WellPlaced, ~errors', ~OddAssigned,
           NEW i \in Sections, NEW d \in Definitions, NEW n \in Nat, NEW b,
           AreaOf(i) = "rom" => d \in CodeSpace(input) /\ n % 2 = 0,
           \/ b \in SmallestBlock(used[AreaOf(i)], Start(d), Stop(d), n)
           \/ b \in FirstBlock(used[AreaOf(i)], Start(d), Stop(d), n),
           Place(i, d, b.address, n),
           UNCHANGED <<input, fillNext>>
    PROVE  WellPlaced'
<1>1. TypeOK /\ input \in Input
  BY DEF IInv
<1>2. /\ shadow' = [shadow EXCEPT ![i] = b.address]
      /\ relocated' = relocated \cup {i}
      /\ SetUsed(AreaOf(i), b.address, n)
  BY DEF Place
<1>3. ~errors /\ Paired /\ CodeIsAligned /\ Filled
  BY <1>2, SetUsedExactly DEF WellPlaced
<1>4. Start(d) \in Nat /\ Stop(d) \in Nat /\ AreaOf(i) \in Area
  BY <1>1, InputFacts
<1>5. b \in BlocksFound(used[AreaOf(i)], Start(d), Stop(d))
  BY <1>4, SelectedBlock
<1>6. b.address \in Nat
  <2>1. b.address \in Int /\ Start(d) <= b.address
    BY <1>4, <1>5, BlockBounds
  <2>2. QED
    BY <1>4, <2>1
<1>7. AreaOf(i) = "rom" => b.address % 2 = 0
  <2>1. SUFFICES ASSUME AreaOf(i) = "rom" PROVE b.address % 2 = 0
    OBVIOUS
  <2>2. PairedIn(used["rom"], Start(d), Stop(d))
    BY <1>3, <2>1 DEF Paired
  <2>3. Start(d) % 2 = 0 /\ Stop(d) % 2 = 1
    BY <1>1, <2>1, SpaceFacts
  <2>4. b \in BlocksFound(used["rom"], Start(d), Stop(d))
    BY <1>5, <2>1
  <2>5. QED
    BY <1>4, <2>2, <2>3, <2>4, EvenBlocks
<1>8. Paired' /\ Filled'
  BY <1>2, <1>3, <1>4, <1>6, <1>7, MarkingKeeps
<1>9. CodeIsAligned'
  <2> SUFFICES ASSUME NEW j \in relocated', input.pic16e, ~Sec(j).abs, AreaOf(j) = "rom"
               PROVE  shadow'[j] % 2 = 0
    BY InputFrame DEF CodeIsAligned
  <2>1. relocated \subseteq Sections /\ shadow \in [Sections -> Nat]
    BY <1>1 DEF TypeOK
  <2>2. CASE j = i
    BY <1>2, <1>7, <2>1, <2>2
  <2>3. CASE j # i
    <3>1. j \in relocated /\ shadow'[j] = shadow[j]
      BY <1>2, <2>1, <2>3
    <3>2. QED
      BY <1>3, <3>1 DEF CodeIsAligned
  <2>4. QED
    BY <2>2, <2>3
<1>10. QED
  BY <1>8, <1>9 DEF WellPlaced

LEMMA RelocAbsEvenly ==
    ASSUME EvenMemory, IInv, WellPlaced, RelocAbs, ~errors', ~OddAssigned
    PROVE  WellPlaced'
<1>1. TypeOK /\ input \in Input
  BY DEF IInv
<1>2. PICK i \in Pending : /\ Sec(i).abs
                           /\ SetUsed(AreaOf(i), Sec(i).address, Aligned(i))
                           /\ relocated' = relocated \cup {i}
  BY DEF RelocAbs
<1>3. UNCHANGED <<input, phase, address, shadow, value, fillNext, fills>>
  BY DEF RelocAbs
<1>4. i \in Sections
  BY DEF Pending
<1>5. ~errors /\ Paired /\ CodeIsAligned /\ Filled
  BY <1>2, SetUsedExactly DEF WellPlaced
<1>6. /\ Sec(i).size \in Nat /\ Sec(i).address \in Nat /\ AreaOf(i) \in Area
      /\ Aligned(i) \in Nat
  BY <1>1, <1>4, InputFacts
<1>7. AreaOf(i) = "rom" =>
          \/ Sec(i).address % 2 = 0 /\ Aligned(i) % 2 = 0
          \/ \A d \in CodeSpace(input) :
                 Sec(i).address + Aligned(i) <= Start(d) \/ Stop(d) < Sec(i).address
  <2> SUFFICES ASSUME AreaOf(i) = "rom"
               PROVE  \/ Sec(i).address % 2 = 0 /\ Aligned(i) % 2 = 0
                      \/ \A d \in CodeSpace(input) :
                             Sec(i).address + Aligned(i) <= Start(d) \/ Stop(d) < Sec(i).address
    OBVIOUS
  <2>1. Sec(i).kind = "code"
    BY DEF AreaOf
  <2>2. /\ Sec(i).address % 2 = 0
        /\ (~Sec(i).plain /\ Sec(i).size % 2 = 1) =>
              \A d \in CodeSpace(input) :
                  Sec(i).address + Sec(i).size <= Start(d) \/ Stop(d) < Sec(i).address
    BY <1>1, <1>2, <1>4, <2>1, SpaceFacts
  <2>3. ~input.pic16e => Sec(i).size % 2 = 0
    BY <1>1, <1>4, <2>1, SizeFacts
  <2>4. CASE Sec(i).size % 2 = 0
    <3>1. Aligned(i) = Sec(i).size
      BY <1>6, <2>4 DEF Aligned, OddCode
    <3>2. QED
      BY <2>2, <2>4, <3>1
  <2>5. CASE Sec(i).size % 2 = 1 /\ Sec(i).plain
    <3>1. Aligned(i) = Sec(i).size + 1
      BY <2>1, <2>3, <2>5 DEF Aligned, OddCode
    <3>2. Aligned(i) % 2 = 0
      BY <1>6, <2>5, <3>1
    <3>3. QED
      BY <2>2, <3>2
  <2>6. CASE Sec(i).size % 2 = 1 /\ ~Sec(i).plain
    <3>1. Aligned(i) = Sec(i).size
      BY <1>6, <2>6 DEF Aligned, OddCode
    <3>2. QED
      BY <2>2, <2>6, <3>1
  <2>7. QED
    BY <1>6, <2>4, <2>5, <2>6
<1>8. Paired' /\ Filled'
  BY <1>2, <1>3, <1>5, <1>6, <1>7, MarkingKeeps
<1>9. CodeIsAligned'
  <2>1. \A j \in relocated' : ~Sec(j).abs => j \in relocated
    BY <1>2
  <2>2. QED
    BY <1>3, <1>5, <2>1, InputFrame DEF CodeIsAligned
<1>10. QED
  BY <1>8, <1>9 DEF WellPlaced

LEMMA RelocCinitEvenly ==
    ASSUME EvenMemory, IInv, WellPlaced, RelocCinit, ~errors', ~OddAssigned
    PROVE  WellPlaced'
<1>1. TypeOK /\ input \in Input
  BY DEF IInv
<1>2. UNCHANGED <<input, value, fillNext, fills>> /\ ~GiveUp
  BY DEF RelocCinit, GiveUp
<1>3. PICK i \in CinitSections : \E p \in CinitPlaces(i) : Place(i, p.def, p.block.address, Sec(i).size)
  BY <1>2 DEF RelocCinit
<1>4. PICK p \in CinitPlaces(i) : Place(i, p.def, p.block.address, Sec(i).size)
  BY <1>3
<1>5. i \in Sections /\ Sec(i).cinit
  BY DEF CinitSections
<1>6. Sec(i).size \in Nat /\ Sec(i).kind = "code" /\ AreaOf(i) = "rom"
  BY <1>1, <1>5, InputFacts DEF AreaOf
<1>7. Sec(i).size % 2 = 0
  BY <1>1, <1>5, <1>6, SizeFacts
<1>8. PICK d \in Definitions : \E b \in FirstBlock(used["rom"], Start(d), Stop(d), Sec(i).size) :
           /\ Def(d).kind = "code" /\ ~Def(d).protected
           /\ p = [def |-> d, block |-> b]
  BY <1>4 DEF CinitPlaces
<1>9. PICK b \in FirstBlock(used["rom"], Start(d), Stop(d), Sec(i).size) : p = [def |-> d, block |-> b]
  BY <1>8
<1>10. d \in CodeSpace(input)
  BY <1>1, <1>8, SpaceFacts
<1>11. Place(i, d, b.address, Sec(i).size)
  BY <1>4, <1>9
<1>12. b \in FirstBlock(used[AreaOf(i)], Start(d), Stop(d), Sec(i).size)
  BY <1>6, <1>9
<1>13. QED
  BY <1>2, <1>5, <1>6, <1>7, <1>10, <1>11, <1>12, PlacedEvenly

LEMMA RelocAssignedEvenly ==
    ASSUME EvenMemory, IInv, AbsolutePlaced, WellPlaced, RelocAssigned, ~errors', ~OddAssigned
    PROVE  WellPlaced'
<1>1. TypeOK /\ input \in Input /\ phase \in {4, 5}
  BY PhaseOfStep DEF IInv
<1>2. UNCHANGED <<input, value, fillNext, fills>> /\ ~GiveUp
  BY DEF RelocAssigned, GiveUp
<1>3. PICK i \in Biggest(Assigned) :
         \E b \in SmallestBlock(used[AreaOf(i)], Start(Sec(i).logical), Stop(Sec(i).logical),
                                AlignedIfAbsolute(i)) :
             Place(i, Sec(i).logical, b.address, AlignedIfAbsolute(i))
  BY <1>2 DEF RelocAssigned
<1>4. i \in Sections /\ i \notin relocated /\ Sec(i).logical # 0
  BY DEF Biggest, Assigned, Pending
<1>5. PICK b : /\ b \in SmallestBlock(used[AreaOf(i)], Start(Sec(i).logical), Stop(Sec(i).logical),
                                      AlignedIfAbsolute(i))
               /\ Place(i, Sec(i).logical, b.address, AlignedIfAbsolute(i))
  BY <1>3
<1>6. Sec(i).logical \in Definitions /\ AlignedIfAbsolute(i) \in Nat /\ Sec(i).size \in Nat
  BY <1>1, <1>4, InputFacts
<1>7. AreaOf(i) = "rom" => Sec(i).logical \in CodeSpace(input) /\ AlignedIfAbsolute(i) % 2 = 0
  <2> SUFFICES ASSUME AreaOf(i) = "rom"
               PROVE  Sec(i).logical \in CodeSpace(input) /\ AlignedIfAbsolute(i) % 2 = 0
    OBVIOUS
  <2>1. Sec(i).kind = "code"
    BY DEF AreaOf
  <2>2. Sec(i).logical \in CodeSpace(input)
    BY <1>1, <1>4, <2>1, SpaceFacts
  <2>3. ~Sec(i).abs
    BY <1>1, <1>4 DEF AbsolutePlaced, UpdatePhase
  <2>4. Sec(i).size % 2 # 1
    BY <1>4, <2>3 DEF OddAssigned
  <2>5. AlignedIfAbsolute(i) = Sec(i).size
    BY <2>3 DEF AlignedIfAbsolute
  <2>6. QED
    BY <1>6, <2>2, <2>4, <2>5
<1>8. QED
  BY <1>2, <1>4, <1>5, <1>6, <1>7, PlacedEvenly

LEMMA RelocUnassignedEvenly ==
    ASSUME EvenMemory, IInv, AbsolutePlaced, WellPlaced, RelocUnassigned, ~errors', ~OddAssigned
    PROVE  WellPlaced'
<1>1. TypeOK /\ input \in Input /\ phase \in {6, 7}
  BY PhaseOfStep DEF IInv
<1>2. UNCHANGED <<input, value, fillNext, fills>> /\ ~GiveUp
  BY DEF RelocUnassigned, GiveUp
<1>3. PICK i \in Biggest(Pending) :
         \E p \in Places(i, KindFor(i)) : Place(i, p.def, p.block.address, Aligned(i))
  BY <1>2 DEF RelocUnassigned
<1>4. i \in Sections /\ i \notin relocated
  BY DEF Biggest, Pending
<1>5. PICK p \in Places(i, KindFor(i)) : Place(i, p.def, p.block.address, Aligned(i))
  BY <1>3
<1>6. PICK d \in Definitions : \E b \in SmallestBlock(used[AreaOf(i)], Start(d), Stop(d), Aligned(i)) :
           /\ Def(d).kind = KindFor(i) /\ ~Def(d).protected
           /\ p = [def |-> d, block |-> b]
  BY <1>5 DEF Places
<1>7. PICK b \in SmallestBlock(used[AreaOf(i)], Start(d), Stop(d), Aligned(i)) :
           p = [def |-> d, block |-> b]
  BY <1>6
<1>8. Aligned(i) \in Nat
  BY <1>1, <1>4, InputFacts
<1>9. AreaOf(i) = "rom" => d \in CodeSpace(input) /\ Aligned(i) % 2 = 0
  <2> SUFFICES ASSUME AreaOf(i) = "rom" PROVE d \in CodeSpace(input) /\ Aligned(i) % 2 = 0
    OBVIOUS
  <2>1. Sec(i).kind = "code"
    BY DEF AreaOf
  <2>2. KindFor(i) = "code"
    BY <2>1 DEF KindFor
  <2>3. d \in CodeSpace(input)
    BY <1>1, <1>6, <2>2, SpaceFacts
  <2>4. ~Sec(i).abs
    BY <1>1, <1>4 DEF AbsolutePlaced, UpdatePhase
  <2>5. QED
    BY <1>1, <1>4, <2>1, <2>3, <2>4, SizeFacts
<1>10. Place(i, d, b.address, Aligned(i))
  BY <1>5, <1>7
<1>11. QED
  BY <1>2, <1>4, <1>7, <1>8, <1>9, <1>10, PlacedEvenly

\* Filling marks whole pairs, too.
LEMMA FillPageEvenly ==
    ASSUME EvenMemory, IInv, WellPlaced, FillPage, ~errors', ~OddAssigned
    PROVE  WellPlaced'
<1>1. TypeOK /\ input \in Input
  BY DEF IInv
<1>2. PICK b \in FillBlocks(fillNext) : SetUsed("rom", b.address, b.size)
  BY DEF FillPage
<1>3. /\ fillNext \in Definitions
      /\ UNCHANGED <<input, phase, relocated, address, shadow, value, fillNext>>
  BY DEF FillPage
<1>4. /\ Def(fillNext).kind = "code" /\ Def(fillNext).fill
      /\ b \in SmallestBlock(used["rom"], Start(fillNext), Stop(fillNext), 1)
  BY <1>2 DEF FillBlocks
<1>5. ~errors /\ Paired /\ CodeIsAligned /\ Filled
  BY <1>2, SetUsedExactly DEF WellPlaced
<1>6. /\ fillNext \in CodeSpace(input)
      /\ Start(fillNext) \in Nat /\ Stop(fillNext) \in Nat
      /\ Start(fillNext) % 2 = 0 /\ Stop(fillNext) % 2 = 1
  BY <1>1, <1>3, <1>4, SpaceFacts
<1>7. b \in BlocksFound(used["rom"], Start(fillNext), Stop(fillNext))
  BY <1>4, <1>6, SelectedBlock
<1>8. b.address \in Nat /\ b.size \in Nat
  <2>1. b.address \in Int /\ b.size \in Nat /\ Start(fillNext) <= b.address
    BY <1>6, <1>7, BlockBounds
  <2>2. QED
    BY <1>6, <2>1
<1>9. b.address % 2 = 0 /\ b.size % 2 = 0
  <2>1. PairedIn(used["rom"], Start(fillNext), Stop(fillNext))
    BY <1>5, <1>6 DEF Paired
  <2>2. QED
    BY <1>6, <1>7, <2>1, EvenBlocks
<1>10. Paired' /\ Filled'
  BY <1>2, <1>3, <1>5, <1>8, <1>9, MarkingKeeps DEF Area
<1>11. CodeIsAligned'
  BY <1>3, <1>5, InputFrame DEF CodeIsAligned
<1>12. QED
  BY <1>10, <1>11 DEF WellPlaced

\* The loop leaves a page when the search finds no block in it.
LEMMA NextPageEvenly ==
    ASSUME EvenMemory, IInv, WellPlaced, PagesCounted, NextPage, ~errors', ~OddAssigned
    PROVE  WellPlaced'
<1>1. TypeOK /\ input \in Input
  BY DEF IInv
<1>2. /\ UNCHANGED <<input, used, relocated, address, shadow, value, fills, errors>>
      /\ \/ fillNext \in Definitions /\ FillBlocks(fillNext) = {} /\ fillNext' = fillNext + 1
         \/ fillNext' = fillNext
  BY DEF NextPage
<1>3. Paired /\ CodeIsAligned /\ Filled
  BY <1>2 DEF WellPlaced
<1>4. Paired' /\ CodeIsAligned'
  BY <1>2, <1>3, InputFrame, SpaceFrame DEF Paired, PairedIn, CodeIsAligned
<1>5. Filled'
  <2> SUFFICES ASSUME NEW d \in Definitions, d < fillNext', Def(d).kind = "code", Def(d).fill
               PROVE  Start(d) .. Stop(d) \subseteq used["rom"]
    BY <1>2, InputFrame, SpaceFrame DEF Filled
  <2>1. CASE d < fillNext
    BY <1>3, <2>1 DEF Filled
  <2>2. CASE ~(d < fillNext)
    <3>1. d \in Nat /\ fillNext \in Nat
      <4>1. input.definitions \in Seq(Definition)
        BY <1>1 DEF TypeOK, InputType
      <4>2. QED
        BY <1>1, <4>1 DEF Definitions, TypeOK
    <3>2. d = fillNext /\ FillBlocks(fillNext) = {}
      BY <1>2, <2>2, <3>1
    <3>3. SmallestBlock(used["rom"], Start(d), Stop(d), 1) = {}
      BY <3>2 DEF FillBlocks
    <3>4. /\ d \in CodeSpace(input)
          /\ Start(d) \in Nat /\ Stop(d) \in Nat /\ Start(d) % 2 = 0 /\ Stop(d) % 2 = 1
      BY <1>1, SpaceFacts
    <3>5. PairedIn(used["rom"], Start(d), Stop(d))
      BY <1>3, <3>4 DEF Paired
    <3>6. QED
      BY <3>3, <3>4, <3>5, NoBlockNoByte
  <2>3. QED
    BY <2>1, <2>2
<1>6. QED
  BY <1>4, <1>5 DEF WellPlaced

LEMMA FrameEvenly ==
    ASSUME WellPlaced, UNCHANGED <<input, used, fillNext, errors>>,
           UNCHANGED <<relocated, shadow>> \/ relocated' = {}, ~errors', ~OddAssigned
    PROVE  WellPlaced'
<1>1. Paired /\ CodeIsAligned /\ Filled
  BY DEF WellPlaced
<1>2. Paired' /\ Filled'
  BY <1>1, InputFrame, SpaceFrame DEF Paired, PairedIn, Filled
<1>3. CodeIsAligned'
  BY <1>1, InputFrame, SpaceFrame DEF CodeIsAligned
<1>4. QED
  BY <1>2, <1>3 DEF WellPlaced

LEMMA PagesCountedStep == IInv /\ PagesCounted /\ [Next]_vars => PagesCounted'
<1> SUFFICES ASSUME IInv, PagesCounted, [Next]_vars PROVE PagesCounted'
  OBVIOUS
<1>1. TypeOK /\ input \in Input /\ phase \in 1 .. 10
  BY PhaseOfStep DEF IInv
<1>2. Definitions = 1 .. Len(input.definitions) /\ Len(input.definitions) \in Nat
  <2>1. input.definitions \in Seq(Definition)
    BY <1>1 DEF TypeOK, InputType
  <2>2. QED
    BY <2>1 DEF Definitions
<1>3. input' = input /\ Definitions' = Definitions
  BY InputStays, InputFrame
<1>4. CASE NextPage
  <2>1. \/ fillNext \in Definitions /\ fillNext' = fillNext + 1 /\ phase' = phase
        \/ fillNext \notin Definitions /\ fillNext' = fillNext
    BY <1>4 DEF NextPage
  <2>2. phase = 9
    BY <1>1, <1>4, PhaseOfStep
  <2>3. QED
    BY <1>2, <1>3, <2>1, <2>2 DEF PagesCounted
<1>5. CASE UNCHANGED vars
  BY <1>3, <1>5 DEF vars, PagesCounted
<1>6. CASE RelocAbs \/ RelocCinit \/ RelocAssigned \/ RelocUnassigned
  <2>1. fillNext' = fillNext /\ phase' \in {phase, phase + 1}
    BY <1>6 DEF RelocAbs, RelocCinit, RelocAssigned, RelocUnassigned, GiveUp
  <2>2. phase \in 1 .. 7
    BY <1>1, <1>6, PhaseOfStep
  <2>3. QED
    BY <1>3, <2>1, <2>2 DEF PagesCounted
<1>7. CASE NextPass \/ UpdateTable \/ FillPage \/ RefuseFill
  <2>1. /\ fillNext' = fillNext /\ phase' \in {phase, phase + 1}
        /\ FillPage => phase' = phase
        /\ RefuseFill => errors'
    BY <1>7 DEF NextPass, UpdateTable, FillPage, RefuseFill, GiveUp
  <2>2. phase \in 1 .. 9 /\ (phase = 9 => FillPage \/ RefuseFill)
    BY <1>1, <1>7, PhaseOfStep
  <2>3. QED
    BY <1>3, <2>1, <2>2 DEF PagesCounted
<1>8. QED
  BY <1>4, <1>5, <1>6, <1>7 DEF Next

LEMMA WellPlacedStep ==
    ASSUME EvenMemory
    PROVE  IInv /\ AbsolutePlaced /\ PagesCounted /\ WellPlaced /\ [Next]_vars => WellPlaced'
<1> SUFFICES ASSUME IInv, AbsolutePlaced, PagesCounted, WellPlaced, [Next]_vars, ~errors', ~OddAssigned
             PROVE  WellPlaced'
  BY InputStays, SpaceFrame DEF WellPlaced
<1>1. CASE RelocAbs \/ RelocCinit \/ RelocAssigned \/ RelocUnassigned
  BY <1>1, RelocAbsEvenly, RelocCinitEvenly, RelocAssignedEvenly, RelocUnassignedEvenly
<1>2. CASE FillPage \/ RefuseFill \/ NextPage
  BY <1>2, FillPageEvenly, NextPageEvenly DEF RefuseFill, GiveUp
<1>3. CASE NextPass \/ UpdateTable
  BY <1>3, FrameEvenly DEF NextPass, UpdateTable
<1>4. CASE UNCHANGED vars
  BY <1>4, FrameEvenly DEF vars
<1>5. QED
  BY <1>1, <1>2, <1>3, <1>4 DEF Next

LEMMA InitEInv ==
    ASSUME EvenMemory, Init
    PROVE  EInv
<1>1. /\ input \in Input /\ phase = 1 /\ relocated = {} /\ fillNext = 1
      /\ used = [a \in Area |-> {}]
  BY DEF Init
<1>2. TypeOK
  BY InitIInv DEF IInv
<1>3. Definitions = 1 .. Len(input.definitions) /\ Len(input.definitions) \in Nat
  <2>1. input.definitions \in Seq(Definition)
    BY <1>2 DEF TypeOK, InputType
  <2>2. QED
    BY <2>1 DEF Definitions
<1>4. used["rom"] = {}
  BY <1>1 DEF Area
<1>5. Paired
  BY <1>4 DEF Paired, PairedIn
<1>6. Filled /\ PagesCounted
  BY <1>1, <1>3 DEF Filled, PagesCounted
<1>7. CodeIsAligned
  BY <1>1 DEF CodeIsAligned
<1>8. QED
  BY <1>5, <1>6, <1>7 DEF EInv, WellPlaced

(***************************************************************************)
(* For every object and script of whole words: in a link without errors    *)
(* code begins at even addresses, and pages with a fill value have no      *)
(* unused byte in the end.                                                 *)
(***************************************************************************)
THEOREM WholeWords ==
    ASSUME EvenMemory
    PROVE  Spec => []ProgramIsWellPlaced
<1>1. Init => EInv
  BY InitEInv
<1>2. IInv /\ AbsolutePlaced /\ EInv /\ [Next]_vars => EInv'
  BY PagesCountedStep, WellPlacedStep DEF EInv
<1>3. IInv /\ EInv => ProgramIsWellPlaced
  <2> SUFFICES ASSUME IInv, EInv PROVE PagesAreFull /\ CodeIsAligned
    BY DEF ProgramIsWellPlaced
  <2>1. TypeOK
    BY DEF IInv
  <2>2. CodeIsAligned
    BY DEF EInv, WellPlaced, CodeIsAligned
  <2>3. PagesAreFull
    <3> SUFFICES ASSUME Phases[phase] = "done", ~errors, ~OddAssigned,
                        NEW d \in Definitions, Def(d).kind = "code", Def(d).fill
                 PROVE  Start(d) .. Stop(d) \subseteq used["rom"]
      BY DEF PagesAreFull
    <3>1. phase = 10
      BY <2>1, PhaseNames
    <3>2. Definitions = 1 .. Len(input.definitions) /\ Len(input.definitions) \in Nat
      <4>1. input.definitions \in Seq(Definition)
        BY <2>1 DEF TypeOK, InputType
      <4>2. QED
        BY <4>1 DEF Definitions
    <3>3. d < fillNext
      BY <3>1, <3>2 DEF EInv, PagesCounted
    <3>4. QED
      BY <3>3 DEF EInv, WellPlaced, Filled
  <2>4. QED
    BY <2>2, <2>3
<1>4. QED
  BY <1>1, <1>2, <1>3, Invariance, AbsoluteFirst, PTL DEF Spec
=============================================================================
