-------------------------- MODULE CodeOptimizerProofs --------------------------
(***************************************************************************)
(* Deleting selections keeps code, relocations, window and sections in     *)
(* step, for every object and every size of a page.                        *)
(***************************************************************************)
EXTENDS CodeOptimizer, FiniteSetTheorems, WellFoundedInduction, TLAPS

(***************************************************************************)
(* Numbers.                                                                *)
(***************************************************************************)
LEMMA LeastOf ==
    ASSUME NEW S \in SUBSET Nat, S # {}
    PROVE  \E x \in S : \A y \in S : x <= y
<1>1. \A x, y \in Nat : <<y, x>> \in OpToRel(<, Nat) <=> y < x
  BY DEF OpToRel
<1>2. PICK x \in S : \A y \in S : ~(<<y, x>> \in OpToRel(<, Nat))
  BY NatLessThanWellFounded, WFMin
<1>3. ASSUME NEW y \in S PROVE x <= y
  <2>1. x \in Nat /\ y \in Nat
    OBVIOUS
  <2>2. ~(y < x)
    BY <1>1, <1>2, <2>1
  <2>3. QED
    BY <2>1, <2>2
<1>4. QED
  BY <1>3

\* What holds at 1 and goes on from each number to the next holds up to L.
LEMMA GoesOn ==
    ASSUME NEW L \in Nat, NEW Good,
           1 \in 1 .. L => 1 \in Good,
           \A n \in 1 .. L : (n # 1 /\ n - 1 \in Good) => n \in Good
    PROVE  \A n \in 1 .. L : n \in Good
<1> DEFINE Bad == (1 .. L) \ Good
<1>1. SUFFICES ASSUME Bad # {} PROVE FALSE
  OBVIOUS
<1>2. Bad \in SUBSET Nat
  OBVIOUS
<1>3. PICK n \in Bad : \A k \in Bad : n <= k
  BY <1>1, <1>2, LeastOf
<1>4. n \in 1 .. L /\ n \notin Good /\ n \in Nat
  BY <1>2
<1>5. n # 1
  BY <1>4
<1>6. n - 1 \in 1 .. L /\ ~(n <= n - 1)
  BY <1>4, <1>5
<1>7. n - 1 \notin Bad
  BY <1>3, <1>6
<1>8. n - 1 \in Good
  BY <1>6, <1>7
<1>9. QED
  BY <1>4, <1>5, <1>8

LEMMA Quotients ==
    ASSUME NEW p \in Nat \ {0}, NEW q \in Int, NEW r \in Int, p * q < p * (r + 1)
    PROVE  q <= r
OBVIOUS

\* Between two addresses of a page lies nothing of another page.
LEMMA OnePage ==
    ASSUME NEW a \in Nat, NEW b \in Nat, NEW c \in Nat, a <= b, b <= c, Page(a) = Page(c)
    PROVE  Page(b) = Page(a)
<1>1. PageSize \in Nat \ {0}
  BY InputAssumption
<1>2. ASSUME NEW x \in Nat, NEW y \in Nat, x <= y PROVE x \div PageSize <= y \div PageSize
  <2>1. x \div PageSize \in Int /\ y \div PageSize \in Int
    BY <1>1
  <2>2. PageSize * (x \div PageSize) <= x
    BY <1>1
  <2>3. y < PageSize * (y \div PageSize + 1)
    BY <1>1
  <2>4. PICK q \in Int : q = x \div PageSize
    BY <2>1
  <2>5. PICK r \in Int : r = y \div PageSize
    BY <2>1
  <2>6. PageSize * q < PageSize * (r + 1)
    <3>1. PageSize * q <= x /\ y < PageSize * (r + 1)
      BY <2>2, <2>3, <2>4, <2>5
    <3>2. PageSize * q \in Int /\ PageSize * (r + 1) \in Int
      BY <1>1
    <3>3. QED
      BY <1>2, <3>1, <3>2
  <2>7. QED
    BY <1>1, <2>4, <2>5, <2>6, Quotients
<1>3. Page(a) <= Page(b) /\ Page(b) <= Page(c)
  BY <1>2 DEF Page
<1>4. Page(a) \in Int /\ Page(b) \in Int
  BY <1>1 DEF Page
<1>5. QED
  BY <1>3, <1>4

(***************************************************************************)
(* Sizes.                                                                  *)
(***************************************************************************)
IsTable(insns, size, n) ==
    size = [k \in 0 .. n |-> IF k = 0 THEN 0 ELSE size[k - 1] + insns[k].size]

LEMMA TableRows ==
    ASSUME NEW insns, NEW size, NEW n \in Nat, IsTable(insns, size, n)
    PROVE  /\ DOMAIN size = 0 .. n
           /\ size[0] = 0
           /\ \A k \in 1 .. n : size[k] = size[k - 1] + insns[k].size
<1>1. PICK r : r = [k \in 0 .. n |-> IF k = 0 THEN 0 ELSE size[k - 1] + insns[k].size]
  OBVIOUS
<1>2. size = r
  BY <1>1 DEF IsTable
<1>3. DOMAIN r = 0 .. n /\ r[0] = 0
  BY <1>1
<1>4. ASSUME NEW k \in 1 .. n PROVE r[k] = size[k - 1] + insns[k].size
  <2>1. k \in 0 .. n /\ k # 0
    OBVIOUS
  <2>2. QED
    BY <1>1, <2>1
<1>5. QED
  BY <1>2, <1>3, <1>4

LEMMA TableExists ==
    ASSUME NEW insns, NEW L \in Nat
    PROVE  \E size : IsTable(insns, size, L)
<1> DEFINE Good == {n \in 1 .. L : \E size : IsTable(insns, size, n)}
<1>1. \E size : IsTable(insns, size, 0)
  <2>1. PICK f : f = [k \in 0 .. 0 |-> 0]
    OBVIOUS
  <2>2. PICK r : r = [k \in 0 .. 0 |-> IF k = 0 THEN 0 ELSE f[k - 1] + insns[k].size]
    OBVIOUS
  <2>3. \A k \in 0 .. 0 : k = 0 /\ f[k] = r[k]
    BY <2>1, <2>2
  <2>4. f = r
    BY <2>1, <2>2, <2>3
  <2>5. QED
    BY <2>2, <2>4 DEF IsTable
<1>2. ASSUME NEW n \in 1 .. L, NEW f, IsTable(insns, f, n - 1)
      PROVE  \E size : IsTable(insns, size, n)
  <2>1. n \in Nat /\ n - 1 \in Nat /\ n - 1 \in 0 .. n - 1
    OBVIOUS
  <2>2. f[0] = 0 /\ \A k \in 1 .. n - 1 : f[k] = f[k - 1] + insns[k].size
    BY <1>2, <2>1, TableRows
  <2>3. PICK g : g = [k \in 0 .. n |-> IF k = n THEN f[n - 1] + insns[n].size ELSE f[k]]
    OBVIOUS
  <2>4. PICK h : h = [k \in 0 .. n |-> IF k = 0 THEN 0 ELSE g[k - 1] + insns[k].size]
    OBVIOUS
  <2>5. ASSUME NEW k \in 0 .. n - 1 PROVE g[k] = f[k]
    BY <2>1, <2>3
  <2>6. ASSUME NEW k \in 0 .. n PROVE g[k] = h[k]
    <3>1. CASE k = 0
      <4>1. g[k] = f[k]
        BY <2>1, <2>5, <3>1
      <4>2. QED
        BY <2>2, <2>4, <3>1, <4>1
    <3>2. CASE k = n
      <4>1. g[k] = f[n - 1] + insns[n].size
        BY <2>3, <3>2
      <4>2. g[n - 1] = f[n - 1]
        BY <2>1, <2>5
      <4>3. h[k] = g[n - 1] + insns[n].size
        BY <2>1, <2>4, <3>2
      <4>4. QED
        BY <4>1, <4>2, <4>3
    <3>3. CASE k # 0 /\ k # n
      <4>1. k \in 1 .. n - 1 /\ k - 1 \in 0 .. n - 1 /\ k \in 0 .. n - 1
        BY <2>1, <3>3
      <4>2. g[k] = f[k - 1] + insns[k].size
        BY <2>2, <2>5, <4>1
      <4>3. g[k - 1] = f[k - 1]
        BY <2>5, <4>1
      <4>4. h[k] = g[k - 1] + insns[k].size
        BY <2>4, <3>3
      <4>5. QED
        BY <4>2, <4>3, <4>4
    <3>4. QED
      BY <3>1, <3>2, <3>3
  <2>7. g = h
    BY <2>3, <2>4, <2>6
  <2>8. IsTable(insns, g, n)
    BY <2>4, <2>7 DEF IsTable
  <2>9. QED
    BY <2>8
<1>3. 1 \in 1 .. L => 1 \in Good
  BY <1>1, <1>2
<1>4. ASSUME NEW n \in 1 .. L, n # 1, n - 1 \in Good PROVE n \in Good
  BY <1>2, <1>4
<1>5. \A n \in 1 .. L : n \in Good
  <2> HIDE DEF Good
  <2>1. QED
    BY <1>3, <1>4, GoesOn
<1>6. QED
  <2>1. CASE L = 0
    BY <1>1, <2>1
  <2>2. CASE L # 0
    BY <1>5, <2>2
  <2>3. QED
    BY <2>1, <2>2

\* Each instruction begins where the one before it ends.
LEMMA Sizes ==
    ASSUME NEW insns \in Seq(Insn)
    PROVE  /\ SizeTo(insns, 0) = 0
           /\ \A k \in 1 .. Len(insns) : SizeTo(insns, k) = SizeTo(insns, k - 1) + insns[k].size
           /\ \A k \in 0 .. Len(insns) : SizeTo(insns, k) \in Nat
<1> DEFINE L == Len(insns)
           size == CHOOSE f : IsTable(insns, f, L)
<1>1. L \in Nat
  OBVIOUS
<1>2. \E f : IsTable(insns, f, L)
  BY <1>1, TableExists
<1>3. IsTable(insns, size, L)
  BY <1>2
<1>4. ASSUME NEW n PROVE SizeTo(insns, n) = size[n]
  BY DEF SizeTo, IsTable
<1> HIDE DEF size
<1>5. size[0] = 0 /\ \A k \in 1 .. L : size[k] = size[k - 1] + insns[k].size
  BY <1>1, <1>3, TableRows
<1> DEFINE Good == {k \in 1 .. L : size[k] \in Nat}
<1>6. ASSUME NEW k \in 1 .. L, size[k - 1] \in Nat PROVE size[k] \in Nat
  <2>1. insns[k] \in Insn
    OBVIOUS
  <2>2. insns[k].size \in Nat
    BY <2>1 DEF Insn
  <2>3. QED
    BY <1>5, <1>6, <2>2
<1>7. 1 \in 1 .. L => 1 \in Good
  BY <1>5, <1>6
<1>8. \A k \in 1 .. L : (k # 1 /\ k - 1 \in Good) => k \in Good
  BY <1>6
<1>9. \A k \in 1 .. L : k \in Good
  <2> HIDE DEF Good
  <2>1. QED
    BY <1>1, <1>7, <1>8, GoesOn
<1>10. ASSUME NEW k \in 0 .. L PROVE size[k] \in Nat
  <2>1. CASE k = 0
    BY <1>5, <2>1
  <2>2. CASE k # 0
    BY <1>9, <2>2
  <2>3. QED
    BY <2>1, <2>2
<1>11. QED
  BY <1>4, <1>5, <1>10

\* An instruction takes a word at least.
LEMMA SizesGrow ==
    ASSUME NEW insns \in Seq(Insn), NEW i \in 0 .. Len(insns), NEW j \in 0 .. Len(insns), i < j
    PROVE  SizeTo(insns, i) < SizeTo(insns, j)
<1> DEFINE L == Len(insns)
           Good == {n \in 1 .. L : \A k \in 0 .. n - 1 : SizeTo(insns, k) < SizeTo(insns, n)}
<1>1. L \in Nat
  OBVIOUS
<1>2. ASSUME NEW n \in 1 .. L PROVE SizeTo(insns, n - 1) < SizeTo(insns, n)
  <2>1. insns[n] \in Insn
    OBVIOUS
  <2>2. insns[n].size \in Nat \ {0}
    BY <2>1 DEF Insn
  <2>3. n - 1 \in 0 .. L /\ SizeTo(insns, n - 1) \in Nat
    BY Sizes
  <2>4. QED
    BY <2>2, <2>3, Sizes
<1>3. 1 \in 1 .. L => 1 \in Good
  BY <1>2
<1>4. ASSUME NEW n \in 1 .. L, n # 1, n - 1 \in Good PROVE n \in Good
  <2>1. ASSUME NEW k \in 0 .. n - 1 PROVE SizeTo(insns, k) < SizeTo(insns, n)
    <3>1. CASE k = n - 1
      BY <1>2, <3>1
    <3>2. CASE k # n - 1
      <4>1. k \in 0 .. (n - 1) - 1 /\ k \in 0 .. L /\ n - 1 \in 0 .. L /\ n \in 0 .. L
        BY <3>2
      <4>2. SizeTo(insns, k) < SizeTo(insns, n - 1)
        BY <1>4, <4>1
      <4>3. SizeTo(insns, k) \in Nat /\ SizeTo(insns, n - 1) \in Nat /\ SizeTo(insns, n) \in Nat
        BY <4>1, Sizes
      <4>4. QED
        BY <1>2, <4>2, <4>3
    <3>3. QED
      BY <3>1, <3>2
  <2>2. QED
    BY <2>1
<1>5. \A n \in 1 .. L : n \in Good
  <2> HIDE DEF Good
  <2>1. QED
    BY <1>1, <1>3, <1>4, GoesOn
<1>6. j \in 1 .. L /\ i \in 0 .. j - 1
  OBVIOUS
<1>7. QED
  BY <1>5, <1>6

LEMMA RowIsSeq ==
    ASSUME NEW n \in Nat, NEW S, NEW w \in [1 .. n -> S]
    PROVE  w \in Seq(S) /\ Len(w) = n /\ DOMAIN w = 1 .. n
OBVIOUS

\* Every word belongs to an instruction.
LEMMA WordOfInsn ==
    ASSUME NEW insns \in Seq(Insn), NEW p \in 1 .. Size(insns)
    PROVE  \E k \in DOMAIN insns : SizeTo(insns, k - 1) < p /\ p <= SizeTo(insns, k)
<1> DEFINE L == Len(insns)
           S == {k \in 0 .. L : p <= SizeTo(insns, k)}
<1>1. L \in Nat /\ DOMAIN insns = 1 .. L /\ Size(insns) = SizeTo(insns, L)
  BY DEF Size
<1>2. L \in S /\ S \in SUBSET Nat
  BY <1>1
<1>3. PICK k \in S : \A j \in S : k <= j
  BY <1>2, LeastOf
<1>4. k # 0
  BY <1>3, Sizes
<1>5. k \in 1 .. L /\ k - 1 \in 0 .. L /\ ~(k <= k - 1)
  BY <1>1, <1>4
<1>6. ~(p <= SizeTo(insns, k - 1))
  BY <1>3, <1>5
<1>7. SizeTo(insns, k - 1) \in Nat
  BY <1>5, Sizes
<1>8. SizeTo(insns, k - 1) < p
  <2>1. p \in Int
    BY <1>1
  <2>2. QED
    BY <1>6, <1>7, <2>1
<1>9. QED
  BY <1>1, <1>5, <1>8

\* The data of a section before anything is deleted.
LEMMA FirstWords ==
    ASSUME NEW insns \in Seq(Insn), NEW w \in [1 .. Size(insns) -> DOMAIN insns],
           \A p \in 1 .. Size(insns) :
              SizeTo(insns, w[p] - 1) < p /\ p <= SizeTo(insns, w[p])
    PROVE  /\ w \in Seq(DOMAIN insns)
           /\ Len(w) = Size(insns) /\ Size(insns) \in Nat
           /\ \A p \in DOMAIN w : \A k \in DOMAIN insns :
                 w[p] = k <=> (SizeTo(insns, k - 1) < p /\ p <= SizeTo(insns, k))
<1> DEFINE L == Len(insns)
           In(k, p) == SizeTo(insns, k - 1) < p /\ p <= SizeTo(insns, k)
<1>1. L \in Nat /\ DOMAIN insns = 1 .. L /\ Size(insns) = SizeTo(insns, L) /\ Size(insns) \in Nat
  BY Sizes DEF Size
<1>2. ASSUME NEW p \in Nat, NEW j \in DOMAIN insns, NEW k \in DOMAIN insns, In(j, p), In(k, p), j < k
      PROVE  FALSE
  <2>1. j \in 0 .. L /\ k - 1 \in 0 .. L /\ (j = k - 1 \/ j < k - 1)
    BY <1>1, <1>2
  <2>2. j = k - 1 \/ SizeTo(insns, j) < SizeTo(insns, k - 1)
    BY <2>1, SizesGrow
  <2>3. SizeTo(insns, j) \in Nat /\ SizeTo(insns, k - 1) \in Nat
    BY <2>1, Sizes
  <2>4. QED
    BY <1>2, <2>2, <2>3
<1>3. w \in Seq(DOMAIN insns) /\ Len(w) = Size(insns) /\ DOMAIN w = 1 .. Size(insns)
  BY <1>1, RowIsSeq
<1>4. ASSUME NEW p \in DOMAIN w, NEW k \in DOMAIN insns PROVE w[p] = k <=> In(k, p)
  <2>1. p \in Nat /\ w[p] \in DOMAIN insns /\ In(w[p], p)
    BY <1>3
  <2>2. ASSUME In(k, p), w[p] # k PROVE FALSE
    <3>1. w[p] < k \/ k < w[p]
      BY <1>1, <2>1, <2>2
    <3>2. QED
      BY <1>2, <2>1, <2>2, <3>1
  <2>3. QED
    BY <2>1, <2>2
<1>5. QED
  BY <1>1, <1>3, <1>4

LEMMA ReferencesCount ==
    ASSUME NEW obj \in ObjectType, NEW S \in SUBSET DOMAIN obj.code, NEW l
    PROVE  References(obj, S, l) \in Nat
<1> DEFINE in(s) == {k \in DOMAIN obj.code[s] : obj.code[s][k].op \in PageInsns /\ obj.code[s][k].to = l}
           n == Len(obj.code)
           pairs == {{s} \X in(s) : s \in S}
<1>1. obj.code \in Seq(Seq(Insn))
  BY DEF ObjectType
<1>2. n \in Nat /\ DOMAIN obj.code = 1 .. n
  BY <1>1
<1>3. ASSUME NEW s \in 1 .. n PROVE IsFiniteSet({s} \X in(s))
  <2>1. obj.code[s] \in Seq(Insn)
    BY <1>1, <1>2
  <2>2. PICK m \in Nat : DOMAIN obj.code[s] = 1 .. m
    BY <2>1
  <2>3. IsFiniteSet(in(s))
    <3>1. IsFiniteSet(1 .. m) /\ in(s) \in SUBSET (1 .. m)
      BY <2>2, FS_Interval
    <3>2. QED
      BY <3>1, FS_Subset
  <2>4. IsFiniteSet({s})
    BY FS_Singleton
  <2>5. QED
    BY <2>3, <2>4, FS_Product
<1>4. IsFiniteSet(pairs)
  <2> DEFINE f == [s \in S |-> {s} \X in(s)]
  <2>1. f \in Surjection(S, pairs)
    BY DEF Surjection
  <2>2. IsFiniteSet(S)
    <3>1. IsFiniteSet(1 .. n) /\ S \in SUBSET (1 .. n)
      BY <1>2, FS_Interval
    <3>2. QED
      BY <3>1, FS_Subset
  <2>3. QED
    BY <2>1, <2>2, FS_Surjection
<1>5. \A T \in pairs : IsFiniteSet(T)
  BY <1>2, <1>3
<1>6. IsFiniteSet(UNION pairs)
  BY <1>4, <1>5, FS_UNION
<1>7. Cardinality(UNION pairs) \in Nat
  BY <1>6, FS_CardinalityType
<1>8. QED
  BY <1>7 DEF References

-----------------------------------------------------------------------------
(***************************************************************************)
(* The invariant.  The words of an instruction that is left form a block   *)
(* in the data of its section; what is not left are whole selections.  The *)
(* entries of the window are relocations of the section, the newer the     *)
(* further behind, none behind reloc_curr.                                 *)
(***************************************************************************)
Selections == {"pagesel", "banksel"}

\* In w, the entries k are size many and begin behind the offset o.
At(w, k, o, size) ==
    /\ o \in Nat
    /\ o + size <= Len(w)
    /\ \A p \in DOMAIN w : w[p] = k <=> (o < p /\ p <= o + size)

\* In the data w, the words of instruction k begin at the offset o.
Block(insns, w, k, o) == At(w, k, o, insns[k].size)

Sorted(w) == \A p, q \in DOMAIN w : p < q => w[p] <= w[q]

\* The data w and the relocations r are of this code, less some selections.
Whole(insns, w, r) ==
    /\ w \in Seq(DOMAIN insns)
    /\ w # <<>>
    /\ Sorted(w)
    /\ DOMAIN r \subseteq DOMAIN insns
    /\ \A k \in DOMAIN r : Block(insns, w, k, r[k])
    /\ \A k \in DOMAIN insns \ DOMAIN r :
          IF insns[k].op \in Selections
          THEN \A p \in DOMAIN w : w[p] # k
          ELSE \E o \in 0 .. Len(w) : Block(insns, w, k, o)

CodeIsWhole == \A s \in Sections : Whole(Code(s), words[s], reloc[s])

Apart ==
    \A s \in Sections :
        /\ Page(address[s]) = Page(object.start[s])
        /\ Page(address[s] + Len(words[s]) - 1) = Page(object.start[s])
        /\ \A t \in Sections :
              object.start[s] < object.start[t] => address[s] + Len(words[s]) <= address[t]

\* An entry e of the window, for relocations r of a section at a.
EntryIs(insns, r, a, e) ==
    IF e.insn = 0 THEN e.op = "null"
    ELSE /\ e.insn \in DOMAIN r
         /\ e.addr = a + r[e.insn]
         /\ e.op # "null" => e.op = insns[e.insn].op /\ e.len = insns[e.insn].size

Shows(insns, r, a, p) == \A i \in 0 .. 3 : EntryIs(insns, r, a, p[i])

Descends(p, last) ==
    /\ \A i \in 0 .. 3 : p[i].insn <= last
    /\ \A i, j \in 0 .. 3 : (i < j /\ p[i].insn # 0) => p[j].insn < p[i].insn

\* From entry n on, the window has no gaps.
Gapless(p, n) ==
    \A i \in 0 .. 2 :
        (n <= i /\ p[i + 1].insn # 0) =>
            p[i].insn # 0 /\ p[i + 1].addr + p[i + 1].len = p[i].addr

WindowIsRight ==
    step # "enter" =>
        /\ section \in Sections
        /\ Shows(Code(section), reloc[section], address[section], pipe)
        /\ Descends(pipe, current)
        /\ step = "analyze" => /\ current \in DOMAIN reloc[section]
                               /\ \A i \in 0 .. 3 : pipe[i].insn < current

NoGaps ==
    (step # "enter" /\ pass = "pagesel") =>
        /\ step # "remove"
        /\ IF step = "analyze" THEN pipe[0].insn = 0 /\ Gapless(pipe, 1) ELSE Gapless(pipe, 0)

StepOfPass ==
    step \in {"last", "two", "three", "four", "shift"} => pass = "pagesel"

IInv ==
    /\ object \in Input
    /\ TypeOK
    /\ DOMAIN reloc = Sections
    /\ CodeIsWhole
    /\ Apart
    /\ WindowIsRight
    /\ NoGaps
    /\ StepOfPass

-----------------------------------------------------------------------------
LEMMA ObjectFacts ==
    ASSUME object \in Input
    PROVE  /\ object \in ObjectType
           /\ Len(object.code) \in Nat /\ Sections = 1 .. Len(object.code)
           /\ DOMAIN object.start = Sections
           /\ \A l \in Labels : /\ object.labels[l].section \in Sections
                                /\ object.labels[l].insn \in DOMAIN Code(object.labels[l].section)
           /\ \A s \in Sections :
                 /\ object.start[s] \in Nat
                 /\ Code(s) \in Seq(Insn) /\ Code(s) # <<>>
                 /\ DOMAIN Code(s) = 1 .. Len(Code(s)) /\ Len(Code(s)) \in Nat
                 /\ \A k \in DOMAIN Code(s) :
                       /\ Code(s)[k].size \in Nat \ {0}
                       /\ Code(s)[k].op \in PageInsns \cup BankInsns \cup {"return", "nop"}
                       /\ Code(s)[k].to \in Nat
                       /\ Code(s)[k].op \in PageInsns => Code(s)[k].to \in Labels
                 /\ Page(object.start[s] + Size(Code(s)) - 1) = Page(object.start[s])
                 /\ \A t \in Sections :
                       t = s \/ object.start[s] + Size(Code(s)) <= object.start[t]
                             \/ object.start[t] + Size(Code(t)) <= object.start[s]
<1>1. object \in ObjectType
  BY InputAssumption
<1>2. /\ object.code \in Seq(Seq(Insn))
      /\ object.start \in Seq(Nat)
  BY <1>1 DEF ObjectType
<1>3. /\ DOMAIN object.start = DOMAIN object.code
      /\ \A l \in DOMAIN object.labels :
              /\ object.labels[l].section \in DOMAIN object.code
              /\ object.labels[l].insn \in DOMAIN object.code[object.labels[l].section]
      /\ \A s \in DOMAIN object.code :
              /\ object.code[s] # <<>>
              /\ \A k \in DOMAIN object.code[s] :
                    object.code[s][k].op \in PageInsns => object.code[s][k].to \in DOMAIN object.labels
              /\ Page(object.start[s] + Size(object.code[s]) - 1) = Page(object.start[s])
              /\ \A t \in DOMAIN object.code :
                    t = s \/ object.start[s] + Size(object.code[s]) <= object.start[t]
                          \/ object.start[t] + Size(object.code[t]) <= object.start[s]
  BY InputAssumption
<1>4. Len(object.code) \in Nat /\ Sections = 1 .. Len(object.code)
  BY <1>2 DEF Sections
<1>5. ASSUME NEW s \in Sections
      PROVE  /\ object.start[s] \in Nat
             /\ Code(s) \in Seq(Insn)
             /\ DOMAIN Code(s) = 1 .. Len(Code(s)) /\ Len(Code(s)) \in Nat
             /\ \A k \in DOMAIN Code(s) : /\ Code(s)[k].size \in Nat \ {0}
                                          /\ Code(s)[k].op \in PageInsns \cup BankInsns \cup {"return", "nop"}
                                          /\ Code(s)[k].to \in Nat
  <2>1. object.start[s] \in Nat
    BY <1>2, <1>3 DEF Sections
  <2>2. Code(s) \in Seq(Insn)
    BY <1>2 DEF Sections, Code
  <2>3. ASSUME NEW k \in DOMAIN Code(s) PROVE Code(s)[k] \in Insn
    BY <2>2
  <2>4. QED
    BY <2>1, <2>2, <2>3 DEF Insn
<1>6. QED
  BY <1>1, <1>3, <1>4, <1>5 DEF Sections, Labels, Code

\* The state before the optimisers.
LEMMA InitCode ==
    ASSUME Init, NEW s \in Sections
    PROVE  /\ words[s] \in Seq(DOMAIN Code(s))
           /\ Len(words[s]) = Size(Code(s)) /\ Size(Code(s)) \in Nat \ {0}
           /\ reloc[s] = [k \in Relocated(Code(s)) |-> SizeTo(Code(s), k - 1)]
           /\ \A k \in DOMAIN Code(s) : Block(Code(s), words[s], k, SizeTo(Code(s), k - 1))
           /\ \A p, q \in DOMAIN words[s] : p < q => words[s][p] <= words[s][q]
<1> DEFINE insns == Code(s)
           w == words[s]
<1>0. object \in Input
  BY DEF Init
<1>1. insns \in Seq(Insn) /\ insns # <<>> /\ Len(insns) \in Nat /\ DOMAIN insns = 1 .. Len(insns)
  BY <1>0, ObjectFacts
<1>2. /\ w \in [1 .. Size(insns) -> DOMAIN insns]
      /\ \A p \in 1 .. Size(insns) : SizeTo(insns, w[p] - 1) < p /\ p <= SizeTo(insns, w[p])
  <2> DEFINE In(k, p) == SizeTo(insns, k - 1) < p /\ p <= SizeTo(insns, k)
  <2>1. w = [p \in 1 .. Size(insns) |-> CHOOSE k \in DOMAIN insns : In(k, p)]
    BY DEF Init
  <2>2. \A p \in 1 .. Size(insns) : \E k \in DOMAIN insns : In(k, p)
    BY <1>1, WordOfInsn
  <2> HIDE DEF In, w
  <2>3. \A p \in 1 .. Size(insns) : w[p] \in DOMAIN insns /\ In(w[p], p)
    BY <2>1, <2>2
  <2>4. QED
    BY <2>1, <2>3 DEF In
<1> HIDE DEF w, insns
<1>3. /\ w \in Seq(DOMAIN insns)
      /\ Len(w) = Size(insns) /\ Size(insns) \in Nat
      /\ \A p \in DOMAIN w : \A k \in DOMAIN insns :
                 w[p] = k <=> (SizeTo(insns, k - 1) < p /\ p <= SizeTo(insns, k))
  BY <1>1, <1>2, FirstWords
<1>4. Size(insns) # 0
  <2>1. Len(insns) # 0
    BY <1>1
  <2>2. SizeTo(insns, 0) < SizeTo(insns, Len(insns))
    BY <1>1, <2>1, SizesGrow
  <2>3. QED
    BY <1>1, <2>2, Sizes DEF Size
<1>5. ASSUME NEW k \in DOMAIN insns
      PROVE  /\ SizeTo(insns, k - 1) \in Nat /\ SizeTo(insns, k) \in Nat
             /\ SizeTo(insns, k) = SizeTo(insns, k - 1) + insns[k].size
             /\ SizeTo(insns, k) <= Len(w)
  <2>1. k \in 1 .. Len(insns) /\ k - 1 \in 0 .. Len(insns) /\ k \in 0 .. Len(insns)
        /\ Len(insns) \in 0 .. Len(insns)
    BY <1>1
  <2>2. /\ SizeTo(insns, k - 1) \in Nat /\ SizeTo(insns, k) \in Nat /\ SizeTo(insns, Len(insns)) \in Nat
        /\ SizeTo(insns, k) = SizeTo(insns, k - 1) + insns[k].size
    BY <1>1, <2>1, Sizes
  <2>3. k = Len(insns) \/ SizeTo(insns, k) < SizeTo(insns, Len(insns))
    BY <1>1, <2>1, SizesGrow
  <2>4. QED
    BY <1>3, <2>2, <2>3 DEF Size
<1>6. ASSUME NEW k \in DOMAIN insns PROVE Block(Code(s), words[s], k, SizeTo(insns, k - 1))
  BY <1>3, <1>5 DEF Block, At, w, insns
<1>7. ASSUME NEW p \in DOMAIN w, NEW q \in DOMAIN w, p < q, ~(w[p] <= w[q]) PROVE FALSE
  <2>1. DOMAIN w = 1 .. Len(w) /\ Len(w) \in Nat /\ w[p] \in DOMAIN insns /\ w[q] \in DOMAIN insns
    BY <1>3
  <2>2. PICK i \in DOMAIN insns : i = w[p]
    BY <2>1
  <2>3. PICK j \in DOMAIN insns : j = w[q]
    BY <2>1
  <2>4. j \in 0 .. Len(insns) /\ i - 1 \in 0 .. Len(insns) /\ (j = i - 1 \/ j < i - 1)
    BY <1>1, <1>7, <2>2, <2>3
  <2>5. SizeTo(insns, i - 1) < p /\ q <= SizeTo(insns, j)
    BY <1>3, <2>2, <2>3
  <2>6. j = i - 1 \/ SizeTo(insns, j) < SizeTo(insns, i - 1)
    BY <1>1, <2>4, SizesGrow
  <2>7. SizeTo(insns, i - 1) \in Nat /\ SizeTo(insns, j) \in Nat /\ p \in Nat /\ q \in Nat
    BY <1>5, <2>1
  <2>8. QED
    BY <1>7, <2>5, <2>6, <2>7
<1>8. reloc[s] = [k \in Relocated(insns) |-> SizeTo(insns, k - 1)]
  BY DEF Init, insns
<1>9. QED
  BY <1>3, <1>4, <1>6, <1>7, <1>8 DEF w, insns

LEMMA InitType == Init => TypeOK
<1> SUFFICES ASSUME Init PROVE TypeOK
  OBVIOUS
<1>0. object \in Input
  BY DEF Init
<1>1. \A s \in Sections : object.start[s] \in Nat
  BY <1>0, ObjectFacts
<1>2. address = object.start /\ DOMAIN object.start = Sections
  BY <1>0, ObjectFacts DEF Init
<1>3. address \in [Sections -> Nat]
  <2>1. object.start \in Seq(Nat)
    BY <1>0, ObjectFacts DEF ObjectType
  <2>2. object.start = [s \in Sections |-> object.start[s]]
    BY <1>2, <2>1
  <2>3. QED
    BY <1>1, <1>2, <2>2
<1>4. words \in [Sections -> Seq(Nat \ {0})]
  <2>1. DOMAIN words = Sections /\ words = [s \in Sections |-> words[s]]
    BY DEF Init
  <2>2. ASSUME NEW s \in Sections PROVE words[s] \in Seq(Nat \ {0})
    <3>1. words[s] \in Seq(DOMAIN Code(s))
      BY InitCode
    <3>2. DOMAIN Code(s) \subseteq Nat \ {0}
      BY <1>0, ObjectFacts
    <3>3. QED
      BY <3>1, <3>2
  <2>3. QED
    BY <2>1, <2>2
<1>5. value \in [Labels -> Int]
  <2>1. ASSUME NEW l \in Labels PROVE value[l] \in Int
    <3> DEFINE at == object.labels[l]
    <3>1. at.section \in Sections /\ at.insn \in DOMAIN Code(at.section)
      BY <1>0, ObjectFacts
    <3>2. PICK s \in Sections : s = at.section
      BY <3>1
    <3>3. SizeTo(Code(s), at.insn - 1) \in Nat
      <4>1. Code(s) \in Seq(Insn) /\ at.insn - 1 \in 0 .. Len(Code(s))
        BY <1>0, <3>1, <3>2, ObjectFacts
      <4>2. QED
        BY <4>1, Sizes
    <3>4. value[l] = address[s] + SizeTo(Code(s), at.insn - 1)
      BY <3>2 DEF Init
    <3>5. QED
      BY <1>3, <3>3, <3>4
  <2>2. QED
    BY <2>1 DEF Init
<1>6. count \in [Labels -> Nat]
  <2>1. PICK again \in SUBSET Sections :
           count = [l \in Labels |-> References(object, Sections, l) + References(object, again, l)]
    BY DEF Init
  <2>2. \A l \in Labels : References(object, Sections, l) \in Nat /\ References(object, again, l) \in Nat
    <3>1. object \in ObjectType /\ Sections = DOMAIN object.code
      BY <1>0, ObjectFacts DEF Sections
    <3>2. QED
      BY <3>1, ReferencesCount
  <2>3. QED
    BY <2>1, <2>2
<1>7. array \in [Sections -> Seq(Labels)] /\ moved \subseteq Labels
  BY DEF Init
<1>8. pipe \in [0 .. 3 -> Entry]
  BY DEF Init, Empty, None, Entry
<1>9. section \in 0 .. Len(object.code)
  BY <1>0, ObjectFacts DEF Init
<1>10. /\ pass \in {"pagesel", "banksel", "done"}
       /\ current \in Nat /\ step = "enter"
       /\ saturation \in 0 .. 4 /\ first \in BOOLEAN
  <2>1. /\ pass = IF object.pagesel THEN "pagesel" ELSE "banksel"
        /\ current = 0 /\ step = "enter" /\ saturation = 0 /\ first = FALSE
    BY DEF Init
  <2>2. pass = "pagesel" \/ pass = "banksel"
    BY <2>1, Zenon
  <2>3. first \in BOOLEAN
    BY <2>1, Zenon
  <2>4. QED
    BY <2>1, <2>2, <2>3
<1>11. QED
  BY <1>3, <1>4, <1>5, <1>6, <1>7, <1>8, <1>9, <1>10 DEF TypeOK

LEMMA InitIInv == Init => IInv
<1> SUFFICES ASSUME Init PROVE IInv
  OBVIOUS
<1>0. object \in Input /\ step = "enter" /\ DOMAIN reloc = Sections
  BY DEF Init
<1>1. CodeIsWhole
  <2>1. ASSUME NEW s \in Sections
        PROVE  /\ DOMAIN reloc[s] \subseteq DOMAIN Code(s)
               /\ \A k \in DOMAIN reloc[s] : Block(Code(s), words[s], k, reloc[s][k])
               /\ \A k \in DOMAIN Code(s) \ DOMAIN reloc[s] :
                     /\ Code(s)[k].op \notin Selections
                     /\ \E o \in 0 .. Len(words[s]) : Block(Code(s), words[s], k, o)
    <3>1. PICK r : r = [k \in Relocated(Code(s)) |-> SizeTo(Code(s), k - 1)]
      OBVIOUS
    <3>2. reloc[s] = r
      BY <3>1, InitCode
    <3>3. DOMAIN r = Relocated(Code(s)) /\ Relocated(Code(s)) \subseteq DOMAIN Code(s)
      BY <3>1 DEF Relocated
    <3>4. ASSUME NEW k \in DOMAIN r PROVE Block(Code(s), words[s], k, r[k])
      BY <3>1, <3>3, InitCode
    <3>5. ASSUME NEW k \in DOMAIN Code(s) \ DOMAIN r PROVE Code(s)[k].op \notin Selections
      BY <3>3 DEF Relocated, Selections, PageInsns, BankInsns
    <3>6. ASSUME NEW k \in DOMAIN Code(s) PROVE \E o \in 0 .. Len(words[s]) : Block(Code(s), words[s], k, o)
      <4>1. Block(Code(s), words[s], k, SizeTo(Code(s), k - 1))
        BY InitCode
      <4>2. SizeTo(Code(s), k - 1) \in 0 .. Len(words[s])
        <5>1. Code(s)[k].size \in Nat /\ Len(words[s]) \in Nat
          BY <1>0, ObjectFacts, InitCode
        <5>2. QED
          BY <4>1, <5>1 DEF Block, At
      <4>3. QED
        BY <4>1, <4>2
    <3>7. QED
      BY <3>2, <3>3, <3>4, <3>5, <3>6
  <2>2. ASSUME NEW s \in Sections
        PROVE  /\ words[s] \in Seq(DOMAIN Code(s))
               /\ words[s] # <<>>
               /\ \A p, q \in DOMAIN words[s] : p < q => words[s][p] <= words[s][q]
    BY InitCode
  <2>3. QED
    BY <2>1, <2>2 DEF CodeIsWhole, Whole, Sorted
<1>2. Apart
  <2>1. address = object.start
    BY DEF Init
  <2>2. \A s \in Sections : Len(words[s]) = Size(Code(s)) /\ Size(Code(s)) \in Nat \ {0}
    BY InitCode
  <2>3. ASSUME NEW s \in Sections
        PROVE  /\ object.start[s] \in Nat
               /\ Page(object.start[s] + Size(Code(s)) - 1) = Page(object.start[s])
               /\ \A t \in Sections :
                     t = s \/ object.start[s] + Size(Code(s)) <= object.start[t]
                           \/ object.start[t] + Size(Code(t)) <= object.start[s]
    BY <1>0, ObjectFacts
  <2>4. ASSUME NEW s \in Sections, NEW t \in Sections, object.start[s] < object.start[t]
        PROVE  object.start[s] + Size(Code(s)) <= object.start[t]
    BY <2>2, <2>3, <2>4
  <2>5. QED
    BY <2>1, <2>2, <2>3, <2>4 DEF Apart
<1>3. QED
  BY <1>0, <1>1, <1>2, InitType DEF IInv, WindowIsRight, NoGaps, StepOfPass

-----------------------------------------------------------------------------
(***************************************************************************)
(* Deleting words.                                                         *)
(***************************************************************************)
CutOut(w, offset, len) == SubSeq(w, 1, offset) \o SubSeq(w, offset + len + 1, Len(w))

\* c is w without the len words behind offset.
Less(w, c, offset, len) ==
    /\ offset + len <= Len(w)
    /\ Len(c) = Len(w) - len
    /\ \A p \in 1 .. Len(c) : c[p] = IF p <= offset THEN w[p] ELSE w[p + len]

LEMMA Cut ==
    ASSUME NEW S, NEW w \in Seq(S), NEW offset \in Nat, NEW len \in Nat, offset + len <= Len(w)
    PROVE  /\ CutOut(w, offset, len) \in Seq(S)
           /\ Less(w, CutOut(w, offset, len), offset, len)
<1> DEFINE c == CutOut(w, offset, len)
<1>1. Len(w) \in Nat /\ DOMAIN w = 1 .. Len(w)
  OBVIOUS
<1>2. PICK a : a = SubSeq(w, 1, offset)
  OBVIOUS
<1>3. PICK b : b = SubSeq(w, offset + len + 1, Len(w))
  OBVIOUS
<1>4. /\ a \in Seq(S) /\ Len(a) = offset
      /\ \A k \in 1 .. offset : a[k] = w[k]
  BY <1>1, <1>2
<1>5. /\ b \in Seq(S) /\ Len(b) = Len(w) - (offset + len)
      /\ \A k \in 1 .. Len(b) : b[k] = w[offset + len + k]
  <2>1. PICK m \in Nat : m = offset + len
    OBVIOUS
  <2>2. b = SubSeq(w, m + 1, Len(w)) /\ m <= Len(w)
    BY <1>3, <2>1
  <2>3. /\ b \in Seq(S) /\ Len(b) = Len(w) - m
        /\ \A k \in 1 .. Len(w) - m : b[k] = w[m + k]
    <3>1. m + 1 \in Int /\ Len(w) \in Int
      BY <1>1
    <3>2. b \in Seq(S)
      BY <1>1, <2>2
    <3>3. Len(b) = Len(w) - m
      <4>1. PICK n \in Nat : n = Len(w)
        BY <1>1
      <4>2. b = SubSeq(w, m + 1, n) /\ m <= n
        BY <2>2, <4>1
      <4>3. CASE m = n
        <5>1. Len(b) = 0
          BY <4>1, <4>2, <4>3
        <5>2. QED
          BY <4>1, <4>3, <5>1
      <4>4. CASE m < n
        <5>1. Len(b) = n - (m + 1) + 1
          BY <4>1, <4>2, <4>4
        <5>2. QED
          BY <4>1, <5>1
      <4>5. QED
        BY <4>2, <4>3, <4>4
    <3>4. ASSUME NEW k \in 1 .. Len(w) - m PROVE b[k] = w[m + k]
      <4>1. b[k] = w[(m + 1) + k - 1]
        BY <1>1, <2>2
      <4>2. (m + 1) + k - 1 = m + k
        BY <1>1
      <4>3. QED
        BY <4>1, <4>2
    <3>5. QED
      BY <3>2, <3>3, <3>4
  <2>4. QED
    BY <2>1, <2>3
<1>6. c = a \o b
  BY <1>2, <1>3 DEF CutOut
<1> HIDE DEF c
<1>7. c \in Seq(S) /\ Len(c) = Len(w) - len /\ DOMAIN c = 1 .. Len(c)
  <2>1. c \in Seq(S) /\ Len(c) = Len(a) + Len(b)
    BY <1>4, <1>5, <1>6
  <2>2. QED
    BY <1>1, <1>4, <1>5, <2>1
<1>8. ASSUME NEW p \in 1 .. Len(c) PROVE c[p] = IF p <= offset THEN w[p] ELSE w[p + len]
  <2>1. p \in Nat /\ p <= Len(w) - len
    BY <1>1, <1>7
  <2>2. CASE p <= offset
    <3>1. p \in 1 .. Len(a)
      BY <1>4, <2>1, <2>2
    <3>2. c[p] = a[p]
      BY <1>4, <1>5, <1>6, <3>1
    <3>3. QED
      BY <1>4, <2>2, <3>1, <3>2
  <2>3. CASE ~(p <= offset)
    <3>1. p - offset \in 1 .. Len(b) /\ offset + len + (p - offset) = p + len
      BY <1>1, <1>5, <2>1, <2>3
    <3>2. c[p] = b[p - offset]
      <4>1. \A q \in 1 .. Len(b) : (a \o b)[Len(a) + q] = b[q]
        BY <1>4, <1>5
      <4>2. c[offset + (p - offset)] = b[p - offset]
        BY <1>4, <1>6, <3>1, <4>1
      <4>3. offset + (p - offset) = p
        BY <2>1
      <4>4. QED
        BY <4>2, <4>3
    <3>3. QED
      BY <1>5, <2>3, <3>1, <3>2
  <2>4. QED
    BY <2>2, <2>3
<1>9. QED
  BY <1>7, <1>8 DEF c, Less

\* The block of another instruction stays whole, and moves down when it lies behind.
LEMMA BlockStays ==
    ASSUME NEW S \in SUBSET Nat, NEW w \in Seq(S), Sorted(w),
           NEW offset, NEW len \in Nat \ {0}, NEW gone \in S, At(w, gone, offset, len),
           NEW c \in Seq(S), Less(w, c, offset, len),
           NEW k \in S, k # gone, NEW o, NEW size \in Nat \ {0}, At(w, k, o, size)
    PROVE  /\ k < gone => At(c, k, o, size)
           /\ gone < k => o >= len /\ At(c, k, o - len, size)
<1>0. /\ offset \in Nat /\ offset + len <= Len(w)
      /\ \A p \in DOMAIN w : w[p] = gone <=> (offset < p /\ p <= offset + len)
      /\ Len(c) = Len(w) - len
      /\ \A p \in 1 .. Len(c) : c[p] = IF p <= offset THEN w[p] ELSE w[p + len]
      /\ o \in Nat /\ o + size <= Len(w)
      /\ \A p \in DOMAIN w : w[p] = k <=> (o < p /\ p <= o + size)
      /\ \A p, q \in DOMAIN w : p < q => w[p] <= w[q]
  BY DEF At, Less, Sorted
<1>1. /\ Len(w) \in Nat /\ DOMAIN w = 1 .. Len(w) /\ DOMAIN c = 1 .. Len(c)
      /\ k \in Nat /\ gone \in Nat
      /\ offset + 1 \in DOMAIN w /\ o + 1 \in DOMAIN w /\ offset + len \in DOMAIN w /\ o + size \in DOMAIN w
  BY <1>0, <1>0
<1>2. /\ w[offset + 1] = gone /\ w[offset + len] = gone
      /\ w[o + 1] = k /\ w[o + size] = k
  <2>1. PICK p : p = offset + 1
    OBVIOUS
  <2>2. PICK q : q = offset + len
    OBVIOUS
  <2>3. PICK x : x = o + 1
    OBVIOUS
  <2>4. PICK y : y = o + size
    OBVIOUS
  <2>5. offset < p /\ p <= offset + len /\ offset < q /\ q <= offset + len
    BY <1>0, <2>1, <2>2
  <2>6. o < x /\ x <= o + size /\ o < y /\ y <= o + size
    BY <1>0, <2>3, <2>4
  <2>7. p \in DOMAIN w /\ q \in DOMAIN w /\ x \in DOMAIN w /\ y \in DOMAIN w
    BY <1>0, <1>1, <2>1, <2>2, <2>3, <2>4
  <2>8. w[p] = gone /\ w[q] = gone
    BY <1>0, <2>5, <2>7
  <2>9. w[x] = k /\ w[y] = k
    BY <1>0, <2>6, <2>7
  <2>10. QED
    BY <1>0, <2>1, <2>2, <2>3, <2>4, <2>8, <2>9
<1>3. ASSUME k < gone PROVE o + size <= offset
  <2>1. ~(offset + 1 < o + size)
    <3>1. offset + 1 < o + size => w[offset + 1] <= w[o + size]
      BY <1>0, <1>1
    <3>2. ~(gone <= k)
      BY <1>0, <1>1, <1>3
    <3>3. QED
      BY <1>0, <1>2, <3>1, <3>2
  <2>2. offset + 1 # o + size
    BY <1>0, <1>2
  <2>3. QED
    BY <1>0, <2>1, <2>2
<1>4. ASSUME gone < k PROVE offset + len <= o
  <2>1. ~(o + 1 < offset + len)
    <3>1. o + 1 < offset + len => w[o + 1] <= w[offset + len]
      BY <1>0, <1>1
    <3>2. ~(k <= gone)
      BY <1>0, <1>1, <1>4
    <3>3. QED
      BY <1>0, <1>2, <3>1, <3>2
  <2>2. o + 1 # offset + len
    BY <1>0, <1>2
  <2>3. QED
    BY <1>0, <2>1, <2>2
<1>5. ASSUME k < gone, NEW p \in DOMAIN c PROVE c[p] = k <=> (o < p /\ p <= o + size)
  <2>1. p \in 1 .. Len(c) /\ p \in Nat /\ p <= Len(w) - len
    BY <1>0, <1>1
  <2>2. CASE p <= offset
    <3>1. c[p] = w[p] /\ p \in DOMAIN w
      BY <1>0, <1>1, <2>1, <2>2
    <3>2. QED
      BY <1>0, <3>1
  <2>3. CASE ~(p <= offset)
    <3>1. c[p] = w[p + len] /\ p + len \in DOMAIN w
      BY <1>0, <1>1, <2>1, <2>3
    <3>2. w[p + len] = k <=> (o < p + len /\ p + len <= o + size)
      BY <1>0, <3>1
    <3>3. QED
      BY <1>0, <1>3, <1>5, <2>1, <2>3, <3>1, <3>2
  <2>4. QED
    BY <1>0, <2>2, <2>3
<1>6. ASSUME gone < k, NEW p \in DOMAIN c PROVE c[p] = k <=> (o - len < p /\ p <= (o - len) + size)
  <2>1. p \in 1 .. Len(c) /\ p \in Nat /\ p <= Len(w) - len
    BY <1>0, <1>1
  <2>2. CASE p <= offset
    <3>1. c[p] = w[p] /\ p \in DOMAIN w
      BY <1>0, <1>1, <2>1, <2>2
    <3>2. w[p] = k <=> (o < p /\ p <= o + size)
      BY <1>0, <3>1
    <3>3. QED
      BY <1>0, <1>4, <1>6, <2>1, <2>2, <3>1, <3>2
  <2>3. CASE ~(p <= offset)
    <3>1. c[p] = w[p + len] /\ p + len \in DOMAIN w
      BY <1>0, <1>1, <2>1, <2>3
    <3>2. w[p + len] = k <=> (o < p + len /\ p + len <= o + size)
      BY <1>0, <3>1
    <3>3. /\ o - len < p <=> o < p + len
          /\ p <= (o - len) + size <=> p + len <= o + size
      <4>1. o \in Nat /\ p \in Nat
        BY <1>0, <2>1
      <4>2. QED
        BY <4>1
    <3>4. QED
      BY <3>1, <3>2, <3>3
  <2>4. QED
    BY <1>0, <2>2, <2>3
<1>7. ASSUME k < gone PROVE At(c, k, o, size)
  <2>1. o + size <= Len(c)
    <3>1. Len(w) \in Nat /\ offset <= Len(w) - len
      BY <1>0, <1>1
    <3>2. QED
      BY <1>0, <1>3, <1>7, <3>1
  <2>2. QED
    BY <1>0, <1>5, <1>7, <2>1 DEF At
<1>8. ASSUME gone < k PROVE o >= len /\ At(c, k, o - len, size)
  <2>1. PICK n \in Nat : n = Len(w)
    BY <1>1
  <2>2. PICK m \in Int : m = o - len
    BY <1>0
  <2>3. offset + len <= o /\ o + size <= n
    BY <1>0, <1>4, <1>8, <2>1
  <2>4. o >= len /\ m \in Nat /\ m + size <= n - len
    BY <1>0, <2>2, <2>3
  <2>5. m + size <= Len(c)
    BY <1>0, <2>1, <2>4
  <2>6. \A p \in DOMAIN c : c[p] = k <=> (m < p /\ p <= m + size)
    BY <1>6, <1>8, <2>2
  <2>7. At(c, k, m, size)
    BY <2>4, <2>5, <2>6 DEF At
  <2>8. QED
    BY <2>2, <2>4, <2>7
<1>9. QED
  BY <1>7, <1>8

(***************************************************************************)
(* _destroy_insn_and_update_addr                                           *)
(***************************************************************************)
\* What the rules give it: a selection in the window, and another relocation
\* or instruction that stays.
Given(i, other) ==
    /\ IInv
    /\ i \in 0 .. 3
    /\ section \in Sections
    /\ pipe[i].insn \in DOMAIN reloc[section]
    /\ pipe[i].addr = address[section] + reloc[section][pipe[i].insn]
    /\ I(pipe[i].insn).op \in Selections
    /\ pipe[i].len = I(pipe[i].insn).size
    /\ other \in DOMAIN words[section]
    /\ words[section][other] # pipe[i].insn
    /\ Destroy(i)
    /\ UNCHANGED <<object, section>>

\* The image without the labels.
LEMMA DestroyIs ==
    ASSUME NEW i, Destroy(i)
    PROVE  LET gone   == pipe[i].insn
               len    == pipe[i].len
               offset == pipe[i].addr - address[section]
           IN  /\ words' = [words EXCEPT ![section] =
                               CutOut(words[section], offset, len)]
               /\ address' = [t \in Sections |->
                                 IF t \in SectionsBehind THEN address[t] - len ELSE address[t]]
               /\ reloc' = [reloc EXCEPT ![section] =
                               [k \in DOMAIN @ \ {gone} |->
                                   IF k \in {j \in DOMAIN reloc[section] : j > gone /\ Moves(j, len)}
                                   THEN @[k] - len ELSE @[k]]]
               /\ count' = [l \in Labels |->
                               IF I(gone).op = "pagesel" /\ I(gone).to = l /\ count[l] > 0
                               THEN count[l] - 1 ELSE count[l]]
BY DEF Destroy, CutOut

\* The window and the code before.
LEMMA GivenFacts ==
    ASSUME NEW i, NEW other, Given(i, other)
    PROVE  LET gone   == pipe[i].insn
               len    == pipe[i].len
               offset == pipe[i].addr - address[section]
           IN  /\ object \in Input
               /\ gone \in DOMAIN Code(section) /\ gone \in DOMAIN reloc[section]
               /\ gone \in Nat \ {0}
               /\ len \in Nat \ {0} /\ len = Code(section)[gone].size
               /\ address[section] \in Nat
               /\ offset \in Nat /\ offset = reloc[section][gone]
               /\ Block(Code(section), words[section], gone, offset)
               /\ offset + len <= Len(words[section]) /\ Len(words[section]) \in Nat
               /\ words[section] \in Seq(DOMAIN Code(section))
               /\ DOMAIN Code(section) \in SUBSET Nat
<1>1. object \in Input /\ section \in Sections /\ TypeOK
  BY DEF Given, IInv
<1>2. pipe[i].insn \in DOMAIN Code(section) /\ DOMAIN Code(section) \subseteq Nat \ {0}
  <2>1. pipe[i].insn \in DOMAIN reloc[section] /\ DOMAIN reloc[section] \subseteq DOMAIN Code(section)
    BY DEF Given, IInv, CodeIsWhole, Whole
  <2>2. QED
    BY <1>1, <2>1, ObjectFacts
<1>3. pipe[i].len \in Nat \ {0} /\ pipe[i].len = Code(section)[pipe[i].insn].size
  <2>1. pipe[i].len = Code(section)[pipe[i].insn].size
    BY DEF Given, I, Code
  <2>2. QED
    BY <1>1, <1>2, <2>1, ObjectFacts
<1>4. address[section] \in Nat
  BY <1>1 DEF TypeOK
<1>5. Block(Code(section), words[section], pipe[i].insn, reloc[section][pipe[i].insn])
  BY DEF Given, IInv, CodeIsWhole, Whole
<1>6. reloc[section][pipe[i].insn] \in Nat
  BY <1>5 DEF Block, At
<1>7. pipe[i].addr - address[section] = reloc[section][pipe[i].insn]
  BY <1>4, <1>6 DEF Given
<1>8. words[section] \in Seq(DOMAIN Code(section))
  BY <1>1 DEF Given, IInv, CodeIsWhole, Whole
<1>9. reloc[section][pipe[i].insn] + pipe[i].len <= Len(words[section])
  BY <1>3, <1>5 DEF Block, At
<1>10. QED
  BY <1>1, <1>2, <1>3, <1>4, <1>5, <1>6, <1>7, <1>8, <1>9 DEF Given

\* left are the relocations without one, those behind it moved.
MovedOver(r, left, gone, len) ==
    /\ DOMAIN left = DOMAIN r \ {gone}
    /\ \A k \in DOMAIN left : left[k] = IF gone < k THEN r[k] - len ELSE r[k]

\* Where a word was.
LEMMA WordsLeft ==
    ASSUME NEW S, NEW w \in Seq(S), NEW c \in Seq(S), NEW offset \in Nat, NEW len \in Nat,
           Less(w, c, offset, len)
    PROVE  /\ \A p \in DOMAIN c : \E x \in DOMAIN w :
                 c[p] = w[x] /\ ~(offset < x /\ x <= offset + len)
           /\ \A p, q \in DOMAIN c : p < q => \E x, y \in DOMAIN w :
                 x < y /\ c[p] = w[x] /\ c[q] = w[y]
<1> DEFINE From(p) == IF p <= offset THEN p ELSE p + len
<1>1. DOMAIN w = 1 .. Len(w) /\ Len(w) \in Nat /\ DOMAIN c = 1 .. Len(c) /\ Len(c) = Len(w) - len
  BY DEF Less
<1>2. ASSUME NEW p \in DOMAIN c
      PROVE  /\ c[p] = w[From(p)] /\ From(p) \in DOMAIN w
             /\ ~(offset < From(p) /\ From(p) <= offset + len)
  <2>1. p \in 1 .. Len(c) /\ p \in Nat /\ 1 <= p /\ p <= Len(w) - len
    BY <1>1
  <2>2. CASE p <= offset
    BY <1>1, <2>1, <2>2 DEF Less
  <2>3. CASE ~(p <= offset)
    BY <1>1, <2>1, <2>3 DEF Less
  <2>4. QED
    BY <2>2, <2>3
<1>3. ASSUME NEW p \in DOMAIN c, NEW q \in DOMAIN c, p < q PROVE From(p) < From(q)
  BY <1>1, <1>3
<1> HIDE DEF From
<1>4. QED
  BY <1>2, <1>3

\* Every instruction that is left stays whole.
LEMMA OtherBlocks ==
    ASSUME NEW insns, DOMAIN insns \in SUBSET Nat,
           \A j \in DOMAIN insns : insns[j].size \in Nat \ {0},
           NEW w, NEW r, Whole(insns, w, r),
           NEW gone \in DOMAIN r, NEW offset, offset = r[gone], NEW len, len = insns[gone].size,
           NEW c \in Seq(DOMAIN insns), Less(w, c, offset, len),
           NEW k \in DOMAIN insns, k # gone,
           NEW o, Block(insns, w, k, o)
    PROVE  /\ k < gone => Block(insns, c, k, o)
           /\ gone < k => o >= len /\ Block(insns, c, k, o - len)
<1>1. len \in Nat \ {0} /\ gone \in DOMAIN insns
  BY DEF Whole
<1>2. PICK size \in Nat \ {0} : size = insns[k].size
  OBVIOUS
<1>3. PICK S \in SUBSET Nat : S = DOMAIN insns
  OBVIOUS
<1>4. w \in Seq(S) /\ c \in Seq(S) /\ gone \in S /\ k \in S /\ Sorted(w)
  BY <1>1, <1>3 DEF Whole
<1>5. At(w, gone, offset, len) /\ At(w, k, o, size)
  BY <1>2 DEF Whole, Block
<1>6. PICK from : from = offset
  OBVIOUS
<1>7. PICK n \in Nat \ {0} : n = len
  BY <1>1
<1>8. At(w, gone, from, n) /\ Less(w, c, from, n)
  BY <1>5, <1>6, <1>7
<1>9. /\ k < gone => At(c, k, o, size)
      /\ gone < k => o >= n /\ At(c, k, o - n, size)
  <2> HIDE <1>6, <1>7
  <2>1. QED
    BY <1>4, <1>5, <1>8, BlockStays
<1>10. QED
  BY <1>2, <1>7, <1>9 DEF Block

\* Code and relocations less one selection.
LEMMA SelectionGone ==
    ASSUME NEW insns, DOMAIN insns \in SUBSET Nat,
           \A j \in DOMAIN insns : insns[j].size \in Nat \ {0},
           NEW w, NEW r, Whole(insns, w, r),
           NEW gone \in DOMAIN r, insns[gone].op \in Selections,
           NEW other \in DOMAIN w, w[other] # gone,
           NEW offset, offset = r[gone], NEW len, len = insns[gone].size,
           NEW c \in Seq(DOMAIN insns), Less(w, c, offset, len),
           NEW left, MovedOver(r, left, gone, len)
    PROVE  Whole(insns, c, left)
<1>1. len \in Nat \ {0} /\ gone \in DOMAIN insns
  BY DEF Whole
<1>2. Block(insns, w, gone, offset) /\ w \in Seq(DOMAIN insns)
  BY DEF Whole
<1>3. /\ offset \in Nat
      /\ \A p \in DOMAIN w : w[p] = gone <=> (offset < p /\ p <= offset + len)
  BY <1>2 DEF Block, At
<1>4. \A p, q \in DOMAIN w : p < q => w[p] <= w[q]
  BY DEF Whole, Sorted
<1>5. c # <<>>
  <2>1. DOMAIN w = 1 .. Len(w) /\ Len(w) \in Nat
    BY <1>2
  <2>2. other \in 1 .. Len(w) /\ ~(offset < other /\ other <= offset + len) /\ offset + len <= Len(w)
    BY <1>3, <2>1 DEF Less
  <2>3. Len(w) # len
    BY <1>1, <1>3, <2>1, <2>2
  <2>4. Len(c) # 0
    <3>1. Len(c) = Len(w) - len
      BY DEF Less
    <3>2. QED
      BY <1>1, <2>1, <2>3, <3>1
  <2>5. QED
    BY <2>4
<1>6. ASSUME NEW p \in DOMAIN c, NEW q \in DOMAIN c, p < q PROVE c[p] <= c[q]
  <2>1. PICK x \in DOMAIN w, y \in DOMAIN w : x < y /\ c[p] = w[x] /\ c[q] = w[y]
    BY <1>1, <1>2, <1>3, <1>6, WordsLeft
  <2>2. QED
    BY <1>4, <2>1
<1>7. DOMAIN left \subseteq DOMAIN insns
  BY DEF Whole, MovedOver
<1>8. ASSUME NEW k \in DOMAIN insns, k # gone, NEW o, Block(insns, w, k, o)
      PROVE  /\ k < gone => Block(insns, c, k, o)
             /\ gone < k => Block(insns, c, k, o - len)
  BY <1>8, OtherBlocks
<1>9. ASSUME NEW k \in DOMAIN insns, k # gone
      PROVE  (k < gone /\ ~(gone < k)) \/ gone < k
  <2>1. k \in Nat /\ gone \in Nat
    BY <1>1
  <2>2. QED
    BY <1>9, <2>1
<1>10. ASSUME NEW k \in DOMAIN left PROVE Block(insns, c, k, left[k])
  <2>1. k \in DOMAIN r /\ k # gone
    BY DEF MovedOver
  <2>2. k \in DOMAIN insns /\ Block(insns, w, k, r[k])
    BY <2>1 DEF Whole
  <2>3. CASE k < gone /\ ~(gone < k)
    <3>1. left[k] = r[k]
      BY <2>3 DEF MovedOver
    <3>2. QED
      BY <1>8, <2>1, <2>2, <2>3, <3>1
  <2>4. CASE gone < k
    <3>1. left[k] = r[k] - len
      BY <2>4 DEF MovedOver
    <3>2. QED
      BY <1>8, <2>1, <2>2, <2>4, <3>1
  <2>5. QED
    BY <1>9, <2>1, <2>2, <2>3, <2>4
<1>11. ASSUME NEW k \in DOMAIN insns \ DOMAIN left, insns[k].op \in Selections,
              NEW p \in DOMAIN c, c[p] = k
       PROVE  FALSE
  <2>1. PICK x \in DOMAIN w : c[p] = w[x] /\ ~(offset < x /\ x <= offset + len)
    BY <1>1, <1>2, <1>3, WordsLeft
  <2>2. w[x] # gone
    BY <1>3, <2>1
  <2>3. k \in DOMAIN insns \ DOMAIN r
    BY <1>11, <2>1, <2>2 DEF MovedOver
  <2>4. w[x] # k
    BY <1>11, <2>3 DEF Whole
  <2>5. QED
    BY <1>11, <2>1, <2>4
<1>12. ASSUME NEW k \in DOMAIN insns \ DOMAIN left, insns[k].op \notin Selections
       PROVE  \E o \in 0 .. Len(c) : Block(insns, c, k, o)
  <2>1. k # gone /\ k \in DOMAIN insns \ DOMAIN r /\ k \in DOMAIN insns
    BY <1>12 DEF MovedOver
  <2>2. PICK o \in 0 .. Len(w) : Block(insns, w, k, o)
    BY <1>12, <2>1 DEF Whole
  <2>3. PICK x : Block(insns, c, k, x)
    BY <1>8, <1>9, <2>1, <2>2
  <2>4. x \in 0 .. Len(c)
    <3>1. x \in Nat /\ x + insns[k].size <= Len(c) /\ insns[k].size \in Nat
      BY <2>1, <2>3 DEF Block, At
    <3>2. Len(c) \in Nat
      OBVIOUS
    <3>3. QED
      BY <3>1, <3>2
  <2>5. QED
    BY <2>3, <2>4
<1>13. QED
  BY <1>5, <1>6, <1>7, <1>10, <1>11, <1>12 DEF Whole, Sorted

\* Words and relocations after a deletion.
LEMMA NewCode ==
    ASSUME NEW i, NEW other, Given(i, other)
    PROVE  LET gone == pipe[i].insn
               len  == pipe[i].len
           IN  /\ DOMAIN words' = Sections /\ DOMAIN reloc' = Sections
               /\ \A s \in Sections : s # section => words'[s] = words[s] /\ reloc'[s] = reloc[s]
               /\ words'[section] \in Seq(DOMAIN Code(section))
               /\ Less(words[section], words'[section], reloc[section][gone], len)
               /\ MovedOver(reloc[section], reloc'[section], gone, len)
<1> DEFINE gone   == pipe[i].insn
           len    == pipe[i].len
           offset == pipe[i].addr - address[section]
           c      == CutOut(words[section], offset, len)
           r      == [k \in DOMAIN reloc[section] \ {gone} |->
                         IF k \in {j \in DOMAIN reloc[section] : j > gone /\ Moves(j, len)}
                         THEN reloc[section][k] - len ELSE reloc[section][k]]
<1>1. section \in Sections /\ DOMAIN words = Sections /\ DOMAIN reloc = Sections
  BY DEF Given, IInv, TypeOK
<1>2. /\ DOMAIN words' = Sections /\ DOMAIN reloc' = Sections
      /\ words'[section] = c /\ reloc'[section] = r
      /\ \A s \in Sections : s # section => words'[s] = words[s] /\ reloc'[s] = reloc[s]
  <2>1. Destroy(i)
    BY DEF Given
  <2>2. words' = [words EXCEPT ![section] = c]
    BY <2>1, DestroyIs
  <2>3. reloc' = [reloc EXCEPT ![section] = r]
    BY <2>1, DestroyIs
  <2> HIDE DEF c, r
  <2>4. QED
    BY <1>1, <2>2, <2>3
<1>3. c \in Seq(DOMAIN Code(section)) /\ Less(words[section], c, offset, len)
  <2>1. /\ words[section] \in Seq(DOMAIN Code(section)) /\ offset \in Nat /\ len \in Nat
        /\ offset + len <= Len(words[section])
    BY GivenFacts
  <2>2. QED
    BY <2>1, Cut
<1>4. offset = reloc[section][gone] /\ len = Code(section)[gone].size
      /\ gone \in DOMAIN reloc[section] /\ gone \in Nat
  BY GivenFacts
<1>5. DOMAIN r = DOMAIN reloc[section] \ {gone}
  OBVIOUS
<1>6. Whole(Code(section), words[section], reloc[section])
  BY <1>1 DEF Given, IInv, CodeIsWhole
<1>7. /\ DOMAIN Code(section) \in SUBSET Nat
      /\ \A j \in DOMAIN Code(section) : Code(section)[j].size \in Nat \ {0}
  BY <1>1, GivenFacts, ObjectFacts
<1>8. ASSUME NEW k \in DOMAIN r
      PROVE  r[k] = IF gone < k THEN reloc[section][k] - len ELSE reloc[section][k]
  <2>1. k \in DOMAIN reloc[section] /\ k # gone
    OBVIOUS
  <2>2. k \in DOMAIN Code(section) /\ Block(Code(section), words[section], k, reloc[section][k])
    BY <1>6, <2>1 DEF Whole
  <2>3. gone < k => reloc[section][k] >= len
    <3> HIDE DEF c, r, gone, len, offset
    <3>1. QED
      BY <1>3, <1>4, <1>6, <1>7, <2>1, <2>2, OtherBlocks
  <2>4. k \in Nat
    BY <1>7, <2>2
  <2>5. QED
    BY <1>4, <2>1, <2>3, <2>4 DEF Moves
<1>9. MovedOver(reloc[section], r, gone, len)
  <2> HIDE DEF r
  <2>1. QED
    BY <1>5, <1>8 DEF MovedOver
<1>10. QED
  <2> HIDE DEF c, r, offset
  <2>1. QED
    BY <1>2, <1>3, <1>4, <1>9

\* What is left of the code, after a selection is deleted.
LEMMA DestroyCode ==
    ASSUME NEW i, NEW other, Given(i, other)
    PROVE  CodeIsWhole'
<1> DEFINE gone == pipe[i].insn
<1>1. section \in Sections /\ object' = object /\ object \in Input
  BY DEF Given, IInv
<1>2. Sections' = Sections /\ \A s : Code(s)' = Code(s)
  BY <1>1 DEF Sections, Code
<1>3. Whole(Code(section), words[section], reloc[section])
  BY <1>1 DEF Given, IInv, CodeIsWhole
<1>4. Whole(Code(section), words'[section], reloc'[section])
  <2>1. /\ DOMAIN Code(section) \in SUBSET Nat
        /\ \A j \in DOMAIN Code(section) : Code(section)[j].size \in Nat \ {0}
    BY <1>1, GivenFacts, ObjectFacts
  <2>2. /\ gone \in DOMAIN reloc[section] /\ Code(section)[gone].op \in Selections
        /\ other \in DOMAIN words[section] /\ words[section][other] # gone
        /\ pipe[i].len = Code(section)[gone].size
    BY DEF Given, I, Code
  <2>3. PICK c : c = words'[section]
    OBVIOUS
  <2>4. PICK left : left = reloc'[section]
    OBVIOUS
  <2>5. /\ c \in Seq(DOMAIN Code(section))
        /\ Less(words[section], c, reloc[section][gone], pipe[i].len)
        /\ MovedOver(reloc[section], left, gone, pipe[i].len)
    BY <2>3, <2>4, NewCode
  <2> HIDE DEF gone
  <2>6. Whole(Code(section), c, left)
    BY <1>3, <2>1, <2>2, <2>5, SelectionGone
  <2>7. QED
    BY <2>3, <2>4, <2>6
<1>5. ASSUME NEW s \in Sections PROVE Whole(Code(s), words'[s], reloc'[s])
  <2>1. CASE s = section
    BY <1>4, <2>1
  <2>2. CASE s # section
    <3>1. words'[s] = words[s] /\ reloc'[s] = reloc[s]
      BY <2>2, NewCode
    <3>2. QED
      BY <3>1 DEF Given, IInv, CodeIsWhole
  <2>3. QED
    BY <2>1, <2>2
<1>6. QED
  BY <1>2, <1>5 DEF CodeIsWhole
-----------------------------------------------------------------------------
(***************************************************************************)
(* Labels.                                                                 *)
(***************************************************************************)
LEMMA RemoveFirstIsSeq ==
    ASSUME NEW S, NEW labels \in Seq(S), NEW e
    PROVE  RemoveFirst(labels, e) \in Seq(S)
<1> DEFINE places == {i \in 1 .. Len(labels) : labels[i] = e}
<1>1. CASE places = {}
  <2>1. RemoveFirst(labels, e) = labels
    BY <1>1 DEF RemoveFirst
  <2>2. QED
    BY <2>1
<1>2. CASE places # {}
  <2>1. PICK m \in places : \A j \in places : m <= j
    <3>1. places \in SUBSET Nat
      OBVIOUS
    <3> HIDE DEF places
    <3>2. QED
      BY <1>2, <3>1, LeastOf
  <2>2. Min(places) \in places
    BY <2>1 DEF Min
  <2>3. SelectInSeq(labels, LAMBDA v : v = e) = Min(places)
    BY <1>2 DEF SelectInSeq
  <2>4. \E i \in 1 .. Len(labels) : labels[i] = e
    BY <1>2
  <2>5. RemoveFirst(labels, e) = RemoveAt(labels, Min(places))
    BY <2>3, <2>4 DEF RemoveFirst
  <2>6. PICK p \in 1 .. Len(labels) : p = Min(places)
    BY <2>2
  <2>7. p - 1 \in Nat /\ (p - 1) + 1 <= Len(labels) /\ (p - 1) + 1 + 1 = p + 1 /\ 1 \in Nat
    OBVIOUS
  <2>8. RemoveAt(labels, p) = CutOut(labels, p - 1, 1)
    BY <2>7 DEF RemoveAt, CutOut
  <2>9. CutOut(labels, p - 1, 1) \in Seq(S)
    BY <2>7, Cut
  <2>10. QED
    BY <2>5, <2>6, <2>8, <2>9
<1>3. QED
  BY <1>1, <1>2

\* Labels are found by the arrays of the sections behind and by relocations.
LEMMA DestroyLabels ==
    ASSUME NEW i, NEW other, Given(i, other)
    PROVE  \E byArray, byReloc \in SUBSET Labels :
              /\ moved' \subseteq Labels
              /\ value' = [l \in Labels |-> value[l] - (IF l \in byArray THEN pipe[i].len ELSE 0)
                                                     - (IF l \in byReloc THEN pipe[i].len ELSE 0)]
              /\ \A t \in SectionsBehind : \A l \in ToSet(array[t]) :
                    value[l] >= address[t] => l \in byArray /\ l \notin byReloc
              /\ array' \in [Sections -> Seq(Labels)]
<1>1. PICK deleted \in FindByValue(pipe[i].addr) :
    LET gone     == pipe[i].insn
        len      == pipe[i].len
        labels   == RemoveFirst(array[section], deleted)
        flagged  == moved \ UNION {ToSet(IF t = section THEN labels ELSE array[t]) : t \in Sections}
        bySection == Unmoved({l \in UNION {ToSet(array[t]) : t \in SectionsBehind} :
                                 \E t \in SectionsBehind :
                                     l \in ToSet(array[t]) /\ value[l] >= address[t]}, flagged)
        behind   == {k \in DOMAIN reloc[section] : k > gone /\ Moves(k, len)}
        byReloc  == Unmoved({l \in {I(k).to : k \in {j \in behind : I(j).op \in PageInsns}} :
                                 Page(value[l]) = Page(pipe[i].addr)}, flagged \cup bySection)
    IN  /\ array' = [array EXCEPT ![section] = labels]
        /\ value' = [l \in Labels |->
                        value[l] - (IF l \in bySection THEN len ELSE 0)
                                 - (IF l \in byReloc THEN len ELSE 0)]
        /\ moved' = flagged \cup bySection \cup byReloc
  BY DEF Given, Destroy
<1> DEFINE gone     == pipe[i].insn
           len      == pipe[i].len
           labels   == RemoveFirst(array[section], deleted)
           flagged  == moved \ UNION {ToSet(IF t = section THEN labels ELSE array[t]) : t \in Sections}
           bySection == Unmoved({l \in UNION {ToSet(array[t]) : t \in SectionsBehind} :
                                 \E t \in SectionsBehind :
                                     l \in ToSet(array[t]) /\ value[l] >= address[t]}, flagged)
           behind   == {k \in DOMAIN reloc[section] : k > gone /\ Moves(k, len)}
           byReloc  == Unmoved({l \in {I(k).to : k \in {j \in behind : I(j).op \in PageInsns}} :
                                 Page(value[l]) = Page(pipe[i].addr)}, flagged \cup bySection)
<1>2. /\ array' = [array EXCEPT ![section] = labels]
      /\ value' = [l \in Labels |->
                        value[l] - (IF l \in bySection THEN len ELSE 0)
                                 - (IF l \in byReloc THEN len ELSE 0)]
      /\ moved' = flagged \cup bySection \cup byReloc
  BY <1>1, Zenon
<1>3. /\ object \in Input /\ section \in Sections /\ moved \subseteq Labels
      /\ array \in [Sections -> Seq(Labels)]
      /\ DOMAIN reloc[section] \subseteq DOMAIN Code(section)
  BY DEF Given, IInv, TypeOK, CodeIsWhole, Whole
<1>4. \A t \in Sections : ToSet(array[t]) \subseteq Labels
  <2>1. ASSUME NEW t \in Sections, NEW l \in ToSet(array[t]) PROVE l \in Labels
    <3>1. array[t] \in Seq(Labels)
      BY <1>3
    <3>2. QED
      BY <2>1, <3>1 DEF ToSet
  <2>2. QED
    BY <2>1
<1>5. section \notin SectionsBehind /\ SectionsBehind \subseteq Sections
  <2>1. address[section] \in Nat
    BY GivenFacts
  <2>2. QED
    BY <2>1 DEF SectionsBehind, OnPage
<1>6. bySection \subseteq Labels
  <2> HIDE DEF flagged
  <2>1. QED
    BY <1>4, <1>5 DEF Unmoved
<1>7. byReloc \subseteq Labels
  <2>1. ASSUME NEW k \in behind, I(k).op \in PageInsns PROVE I(k).to \in Labels
    <3>1. k \in DOMAIN Code(section) /\ I(k) = Code(section)[k]
      BY <1>3 DEF I, Code
    <3>2. QED
      BY <1>3, <2>1, <3>1, ObjectFacts
  <2> HIDE DEF behind, flagged, bySection
  <2>2. QED
    BY <2>1 DEF Unmoved
<1>8. moved' \subseteq Labels
  <2>1. flagged \subseteq Labels
    BY <1>3
  <2> HIDE DEF flagged, bySection, byReloc
  <2>2. QED
    BY <1>2, <1>6, <1>7, <2>1
<1>9. ASSUME NEW t \in SectionsBehind, NEW l \in ToSet(array[t]), value[l] >= address[t]
      PROVE  l \in bySection /\ l \notin byReloc
  <2>1. t \in Sections /\ t # section
    BY <1>5
  <2>2. l \in ToSet(IF t = section THEN labels ELSE array[t])
    BY <2>1
  <2>3. l \notin flagged
    <3> HIDE DEF labels
    <3>1. QED
      BY <2>1, <2>2
  <2> HIDE DEF flagged
  <2>4. l \in bySection
    BY <1>9, <2>3 DEF Unmoved
  <2> HIDE DEF bySection, behind
  <2>5. QED
    BY <2>4 DEF Unmoved
<1>10. array' \in [Sections -> Seq(Labels)]
  <2>1. labels \in Seq(Labels)
    BY <1>3, RemoveFirstIsSeq
  <2> HIDE DEF labels
  <2>2. QED
    BY <1>2, <1>3, <2>1
<1>11. QED
  <2> HIDE DEF bySection, byReloc
  <2>1. QED
    BY <1>2, <1>6, <1>7, <1>8, <1>9, <1>10

-----------------------------------------------------------------------------
(***************************************************************************)
(* Sections.                                                               *)
(***************************************************************************)
\* Sections are in the order of their first addresses, and not empty.
LEMMA InOrder ==
    ASSUME IInv
    PROVE  /\ \A s \in Sections : address[s] \in Nat /\ Len(words[s]) \in Nat \ {0}
           /\ \A s, t \in Sections :
                 \/ s = t
                 \/ address[s] < address[t] /\ address[s] + Len(words[s]) <= address[t]
                                            /\ object.start[s] < object.start[t]
                 \/ address[t] < address[s] /\ address[t] + Len(words[t]) <= address[s]
                                            /\ object.start[t] < object.start[s]
<1>1. object \in Input /\ address \in [Sections -> Nat] /\ Apart
  BY DEF IInv, TypeOK
<1>2. ASSUME NEW s \in Sections PROVE address[s] \in Nat /\ Len(words[s]) \in Nat \ {0}
  <2>1. words[s] \in Seq(DOMAIN Code(s)) /\ words[s] # <<>>
    BY DEF IInv, CodeIsWhole, Whole
  <2>2. QED
    BY <1>1, <2>1
<1>3. ASSUME NEW s \in Sections PROVE Size(Code(s)) \in Nat \ {0}
  <2>1. Code(s) \in Seq(Insn) /\ Len(Code(s)) \in Nat /\ Len(Code(s)) # 0
    BY <1>1, ObjectFacts
  <2>2. SizeTo(Code(s), 0) < SizeTo(Code(s), Len(Code(s)))
    BY <2>1, SizesGrow
  <2>3. SizeTo(Code(s), 0) = 0 /\ SizeTo(Code(s), Len(Code(s))) \in Nat
    BY <2>1, Sizes
  <2>4. QED
    BY <2>2, <2>3 DEF Size
<1>4. ASSUME NEW s \in Sections, NEW t \in Sections, s # t
      PROVE  object.start[s] < object.start[t] \/ object.start[t] < object.start[s]
  <2>1. /\ object.start[s] \in Nat /\ object.start[t] \in Nat
        /\ \/ object.start[s] + Size(Code(s)) <= object.start[t]
           \/ object.start[t] + Size(Code(t)) <= object.start[s]
    BY <1>1, <1>4, ObjectFacts
  <2>2. QED
    BY <1>3, <2>1
<1>5. ASSUME NEW s \in Sections, NEW t \in Sections, object.start[s] < object.start[t]
      PROVE  address[s] < address[t] /\ address[s] + Len(words[s]) <= address[t]
  <2>1. address[s] + Len(words[s]) <= address[t]
    BY <1>1, <1>5 DEF Apart
  <2>2. QED
    BY <1>2, <2>1
<1>6. QED
  BY <1>2, <1>4, <1>5

\* What a deletion does to addresses and lengths.
LEMMA DestroySections ==
    ASSUME NEW i, NEW other, Given(i, other)
    PROVE  /\ \A t \in Sections : /\ address'[t] \in Nat
                                  /\ Len(words'[t]) \in Nat \ {0}
           /\ address' \in [Sections -> Nat]
           /\ address'[section] = address[section]
           /\ \A t \in Sections : address'[t] # address[t] =>
                 t \in SectionsBehind /\ address'[t] = address[t] - pipe[i].len
           /\ \A s \in Sections :
                 /\ Page(address'[s]) = Page(object.start[s])
                 /\ Page(address'[s] + Len(words'[s]) - 1) = Page(object.start[s])
                 /\ \A t \in Sections :
                       object.start[s] < object.start[t] => address'[s] + Len(words'[s]) <= address'[t]
<1> DEFINE len == pipe[i].len
<1>1. IInv /\ section \in Sections /\ object \in Input /\ Apart
  BY DEF Given, IInv
<1>2. /\ len \in Nat \ {0} /\ address[section] \in Nat
      /\ \A s \in Sections : address[s] \in Nat /\ Len(words[s]) \in Nat \ {0}
  BY <1>1, GivenFacts, InOrder
<1>3. address' = [t \in Sections |-> IF t \in SectionsBehind THEN address[t] - len ELSE address[t]]
  BY DestroyIs DEF Given
<1>4. \A t \in Sections : t \in SectionsBehind <=>
          Page(address[t]) = Page(address[section]) /\ address[t] > address[section]
  BY DEF SectionsBehind, OnPage
<1>5. section \notin SectionsBehind
  BY <1>1, <1>2, <1>4
<1>6. /\ Len(words'[section]) = Len(words[section]) - len
      /\ \A t \in Sections : t # section => words'[t] = words[t]
  BY NewCode DEF Less
<1>7. Len(words'[section]) \in Nat \ {0}
  <2>1. Whole(Code(section), words'[section], reloc'[section])
    <3>1. CodeIsWhole' /\ section' = section /\ object' = object
      BY DestroyCode DEF Given
    <3>2. QED
      BY <1>1, <3>1 DEF CodeIsWhole, Sections, Code
  <2>2. PICK c : c = words'[section]
    OBVIOUS
  <2>3. c \in Seq(DOMAIN Code(section)) /\ c # <<>>
    BY <2>1, <2>2 DEF Whole
  <2>4. QED
    BY <2>2, <2>3
<1> HIDE DEF len
<1>8. \A t \in Sections : Len(words'[t]) \in Nat \ {0} /\ Len(words'[t]) <= Len(words[t])
  <2>1. ASSUME NEW t \in Sections PROVE Len(words'[t]) \in Nat \ {0} /\ Len(words'[t]) <= Len(words[t])
    <3>1. CASE t = section
      BY <1>1, <1>2, <1>6, <1>7, <3>1
    <3>2. CASE t # section
      BY <1>2, <1>6, <3>2
    <3>3. QED
      BY <3>1, <3>2
  <2>2. QED
    BY <2>1
<1>9. ASSUME NEW t \in SectionsBehind
      PROVE  /\ t \in Sections /\ address'[t] = address[t] - len
             /\ address[section] + Len(words'[section]) <= address'[t]
  <2>1. t \in Sections /\ address[section] < address[t]
    BY <1>4 DEF SectionsBehind, OnPage
  <2>2. address[section] + Len(words[section]) <= address[t]
    BY <1>1, <1>2, <2>1, InOrder
  <2>3. address'[t] = address[t] - len
    BY <1>3, <2>1
  <2>4. QED
    BY <1>1, <1>2, <1>6, <1>7, <2>1, <2>2, <2>3
<1>10. ASSUME NEW t \in Sections, t \notin SectionsBehind PROVE address'[t] = address[t]
  BY <1>3, <1>10
<1>11. ASSUME NEW t \in Sections PROVE address'[t] \in Nat /\ address'[t] <= address[t]
  <2>1. CASE t \in SectionsBehind
    BY <1>1, <1>2, <1>7, <1>9, <2>1
  <2>2. CASE t \notin SectionsBehind
    BY <1>2, <1>10, <2>2
  <2>3. QED
    BY <2>1, <2>2
<1>12. ASSUME NEW s \in Sections
       PROVE  /\ Page(address'[s]) = Page(object.start[s])
              /\ Page(address'[s] + Len(words'[s]) - 1) = Page(object.start[s])
  <2>1. /\ Page(address[s]) = Page(object.start[s])
        /\ Page(address[s] + Len(words[s]) - 1) = Page(object.start[s])
    BY <1>1 DEF Apart
  <2>2. PICK a \in Nat : a = address[s]
    BY <1>2
  <2>3. PICK b \in Nat : b = address'[s]
    BY <1>11
  <2>4. PICK n \in Nat \ {0} : n = Len(words[s])
    BY <1>2
  <2>5. PICK m \in Nat \ {0} : m = Len(words'[s])
    BY <1>8
  <2>6. b <= a /\ m <= n
    BY <1>8, <1>11, <2>2, <2>3, <2>4, <2>5
  <2>7. Page(b) = Page(a)
    <3>1. CASE s \in SectionsBehind
      <4>1. PICK z \in Nat : z = address[section]
        BY <1>2
      <4>2. Page(z) = Page(a)
        BY <1>4, <2>2, <3>1, <4>1
      <4>3. z <= b
        BY <1>7, <1>9, <2>3, <3>1, <4>1
      <4>4. QED
        BY <2>6, <4>2, <4>3, OnePage
    <3>2. CASE s \notin SectionsBehind
      BY <1>10, <2>2, <2>3, <3>2
    <3>3. QED
      BY <3>1, <3>2
  <2>8. Page(b + m - 1) = Page(b)
    <3>1. PICK x \in Nat : x = b + m - 1
      OBVIOUS
    <3>2. PICK y \in Nat : y = a + n - 1
      OBVIOUS
    <3>3. b <= x /\ x <= y
      BY <2>6, <3>1, <3>2
    <3>4. Page(b) = Page(y)
      BY <2>1, <2>2, <2>4, <2>7, <3>2
    <3>5. QED
      BY <3>1, <3>3, <3>4, OnePage
  <2>9. QED
    BY <2>1, <2>2, <2>3, <2>5, <2>7, <2>8
<1>13. ASSUME NEW s \in Sections, NEW t \in Sections, object.start[s] < object.start[t]
       PROVE  address'[s] + Len(words'[s]) <= address'[t]
  <2>1. address[s] + Len(words[s]) <= address[t] /\ address[s] < address[t]
    <3>1. address[s] + Len(words[s]) <= address[t]
      BY <1>1, <1>13 DEF Apart
    <3>2. QED
      BY <1>2, <3>1
  <2>2. CASE t \notin SectionsBehind
    BY <1>2, <1>8, <1>10, <1>11, <2>1, <2>2
  <2>3. CASE t \in SectionsBehind /\ s = section
    BY <1>5, <1>9, <1>10, <2>3
  <2>4. CASE t \in SectionsBehind /\ s \in SectionsBehind
    <3>1. address'[t] = address[t] - len /\ address'[s] = address[s] - len
      BY <1>9, <2>4
    <3>2. Len(words'[s]) <= Len(words[s]) /\ Len(words'[s]) \in Nat
      BY <1>8
    <3>3. QED
      BY <1>2, <2>1, <3>1, <3>2
  <2>5. CASE t \in SectionsBehind /\ s \notin SectionsBehind /\ s # section
    <3>1. address'[s] = address[s] /\ words'[s] = words[s]
      BY <1>6, <1>10, <2>5
    <3>2. address[section] + Len(words'[section]) <= address'[t]
      BY <1>9, <2>5
    <3>3. address[s] + Len(words[s]) <= address[section]
      <4>1. CASE address[s] < address[section]
        BY <1>1, <1>2, <4>1, InOrder
      <4>2. CASE address[section] < address[s]
        <5>1. Page(address[section]) = Page(address[t])
          BY <1>4, <2>5
        <5>2. PICK x \in Nat : x = address[section]
          BY <1>2
        <5>3. PICK y \in Nat : y = address[s]
          BY <1>2
        <5>4. PICK z \in Nat : z = address[t]
          BY <1>2
        <5>5. x <= y /\ y <= z /\ Page(x) = Page(z)
          BY <2>1, <4>2, <5>1, <5>2, <5>3, <5>4
        <5>6. Page(y) = Page(x)
          BY <5>5, OnePage
        <5>7. QED
          BY <1>4, <2>5, <4>2, <5>2, <5>3, <5>6
      <4>3. QED
        BY <1>1, <2>5, <4>1, <4>2, InOrder
    <3>4. QED
      BY <1>2, <1>7, <1>11, <3>1, <3>2, <3>3
  <2>6. QED
    BY <2>2, <2>3, <2>4, <2>5
<1>14. address' \in [Sections -> Nat]
  BY <1>3, <1>11
<1>15. address'[section] = address[section]
  BY <1>1, <1>5, <1>10
<1>16. ASSUME NEW t \in Sections, address'[t] # address[t]
       PROVE  t \in SectionsBehind /\ address'[t] = address[t] - pipe[i].len
  BY <1>9, <1>10, <1>16 DEF len
<1>17. QED
  BY <1>8, <1>11, <1>12, <1>13, <1>14, <1>15, <1>16

-----------------------------------------------------------------------------
(***************************************************************************)
(* The invariant but for the window and what the loops keep.               *)
(***************************************************************************)
ImageOK ==
    /\ address \in [Sections -> Nat]
    /\ words \in [Sections -> Seq(Nat \ {0})]
    /\ value \in [Labels -> Int]
    /\ count \in [Labels -> Nat]
    /\ moved \subseteq Labels
    /\ array \in [Sections -> Seq(Labels)]

ControlOK ==
    /\ pass \in {"pagesel", "banksel", "done"}
    /\ section \in 0 .. Len(object.code)
    /\ current \in Nat
    /\ step \in {"enter", "analyze", "last", "two", "three", "four", "remove", "shift"}
    /\ pipe \in [0 .. 3 -> Entry]
    /\ saturation \in 0 .. 4
    /\ first \in BOOLEAN

Kept ==
    /\ object \in Input
    /\ ImageOK
    /\ DOMAIN reloc = Sections
    /\ CodeIsWhole
    /\ Apart

LEMMA Parts == IInv <=> (Kept /\ ControlOK /\ WindowIsRight /\ NoGaps /\ StepOfPass)
BY DEF IInv, TypeOK, Kept, ImageOK, ControlOK

LEMMA PartsNext == (Kept /\ ControlOK /\ WindowIsRight /\ NoGaps /\ StepOfPass)' => IInv'
BY DEF IInv, TypeOK, Kept, ImageOK, ControlOK

LEMMA DestroyKeeps ==
    ASSUME NEW i, NEW other, Given(i, other)
    PROVE  Kept'
<1>1. /\ object' = object /\ object \in Input /\ section \in Sections
      /\ TypeOK
  BY DEF Given, IInv
<1>2. Sections' = Sections /\ Labels' = Labels
  BY <1>1 DEF Sections, Labels
<1>3. words' \in [Sections -> Seq(Nat \ {0})]
  <2>1. words \in [Sections -> Seq(Nat \ {0})]
    BY <1>1 DEF TypeOK
  <2>2. PICK c : words' = [words EXCEPT ![section] = c]
    BY DestroyIs DEF Given
  <2>3. words'[section] \in Seq(Nat \ {0})
    <3>1. words'[section] \in Seq(DOMAIN Code(section))
      BY NewCode
    <3>2. DOMAIN Code(section) \subseteq Nat \ {0}
      BY <1>1, ObjectFacts
    <3>3. QED
      BY <3>1, <3>2
  <2>4. QED
    BY <1>1, <2>1, <2>2, <2>3
<1>4. /\ value' \in [Labels -> Int]
      /\ moved' \subseteq Labels /\ array' \in [Sections -> Seq(Labels)]
  <2>1. PICK byArray \in SUBSET Labels, byReloc \in SUBSET Labels :
              /\ moved' \subseteq Labels
              /\ value' = [l \in Labels |-> value[l] - (IF l \in byArray THEN pipe[i].len ELSE 0)
                                                     - (IF l \in byReloc THEN pipe[i].len ELSE 0)]
              /\ array' \in [Sections -> Seq(Labels)]
    BY DestroyLabels
  <2>2. pipe[i].len \in Nat /\ value \in [Labels -> Int]
    BY <1>1, GivenFacts DEF TypeOK
  <2>3. value' \in [Labels -> Int]
    BY <2>1, <2>2
  <2>4. QED
    BY <2>1, <2>3
<1>5. count' \in [Labels -> Nat]
  <2>1. count \in [Labels -> Nat]
    BY <1>1 DEF TypeOK
  <2>2. count' = [l \in Labels |->
                     IF I(pipe[i].insn).op = "pagesel" /\ I(pipe[i].insn).to = l /\ count[l] > 0
                     THEN count[l] - 1 ELSE count[l]]
    BY DestroyIs DEF Given
  <2>3. QED
    BY <2>1, <2>2
<1>6. address' \in [Sections -> Nat]
  BY DestroySections
<1>7. ImageOK'
  BY <1>2, <1>3, <1>4, <1>5, <1>6 DEF ImageOK
<1>8. Apart'
  BY <1>1, <1>2, DestroySections DEF Apart
<1>9. (DOMAIN reloc = Sections)'
  BY <1>2, NewCode
<1>10. QED
  BY <1>1, <1>7, <1>8, <1>9, DestroyCode DEF Kept

LEMMA ImageStays ==
    ASSUME IInv, UNCHANGED <<object, address, words, reloc, value, count, moved>>,
           array' \in [Sections -> Seq(Labels)]
    PROVE  Kept'
<1>1. Kept
  BY Parts
<1>2. Sections' = Sections /\ Labels' = Labels /\ \A s : Code(s)' = Code(s)
  BY DEF Sections, Labels, Code
<1>3. ImageOK'
  BY <1>1, <1>2 DEF Kept, ImageOK
<1>4. CodeIsWhole' /\ Apart'
  BY <1>1, <1>2 DEF Kept, CodeIsWhole, Apart
<1>5. QED
  BY <1>1, <1>2, <1>3, <1>4 DEF Kept

LEMMA ImageSame ==
    ASSUME IInv, UNCHANGED <<object, image>>
    PROVE  Kept'
<1>1. array \in [Sections -> Seq(Labels)]
  BY DEF IInv, TypeOK
<1>2. QED
  BY <1>1, ImageStays DEF image

-----------------------------------------------------------------------------
(***************************************************************************)
(* The window.                                                             *)
(***************************************************************************)
Down(e, len) == [e EXCEPT !.addr = @ - len]

PipeOut(p, i) == [j \in 0 .. 3 |-> IF j < i THEN Down(p[j], p[i].len) ELSE Backward(p)[j]]

LEMMA NoneFacts ==
    /\ None \in Entry /\ None.insn = 0 /\ None.op = "null"
    /\ Empty \in [0 .. 3 -> Entry] /\ \A i \in 0 .. 3 : Empty[i] = None
BY DEF None, Empty, Entry

LEMMA DownFacts ==
    ASSUME NEW e \in Entry, NEW len \in Nat
    PROVE  /\ Down(e, len) \in Entry
           /\ Down(e, len).insn = e.insn /\ Down(e, len).op = e.op /\ Down(e, len).len = e.len
           /\ Down(e, len).addr = e.addr - len
BY DEF Down, Entry

LEMMA EntryFacts ==
    ASSUME NEW e \in Entry
    PROVE  e.insn \in Nat /\ e.addr \in Int /\ e.len \in Nat
BY DEF Entry

\* An entry left, behind and before the deleted one.
LEMMA EntryStays ==
    ASSUME NEW insns, NEW r, NEW left, NEW gone, NEW len \in Nat, MovedOver(r, left, gone, len),
           NEW a \in Nat, \A k \in DOMAIN r : r[k] \in Nat,
           NEW e \in Entry, EntryIs(insns, r, a, e), e.insn # gone
    PROVE  /\ gone < e.insn => EntryIs(insns, left, a, Down(e, len))
           /\ (e.insn # 0 /\ gone < e.insn) \/ e.insn = 0 \/ EntryIs(insns, left, a, e)
           /\ e.insn = 0 => EntryIs(insns, left, a, e) /\ EntryIs(insns, left, a, Down(e, len))
<1>1. /\ Down(e, len).insn = e.insn /\ Down(e, len).op = e.op /\ Down(e, len).len = e.len
      /\ Down(e, len).addr = e.addr - len
  BY DownFacts
<1>2. CASE e.insn = 0
  BY <1>1, <1>2 DEF EntryIs
<1>3. CASE e.insn # 0
  <2>1. /\ e.insn \in DOMAIN r /\ e.insn \in DOMAIN left
        /\ e.addr = a + r[e.insn]
        /\ e.op # "null" => e.op = insns[e.insn].op /\ e.len = insns[e.insn].size
    BY <1>3 DEF EntryIs, MovedOver
  <2>2. CASE gone < e.insn
    <3>1. left[e.insn] = r[e.insn] - len
      BY <2>1, <2>2 DEF MovedOver
    <3>2. e.addr - len = a + left[e.insn]
      <4>1. r[e.insn] \in Nat
        BY <2>1
      <4>2. QED
        BY <2>1, <3>1, <4>1
    <3>3. EntryIs(insns, left, a, Down(e, len))
      BY <1>1, <1>3, <2>1, <3>2 DEF EntryIs
    <3>4. QED
      BY <1>3, <2>2, <3>3
  <2>3. CASE ~(gone < e.insn)
    <3>1. left[e.insn] = r[e.insn]
      BY <2>1, <2>3 DEF MovedOver
    <3>2. EntryIs(insns, left, a, e)
      BY <1>3, <2>1, <3>1 DEF EntryIs
    <3>3. QED
      BY <1>3, <2>3, <3>2
  <2>4. QED
    BY <2>2, <2>3
<1>4. QED
  BY <1>2, <1>3

LEMMA PipeOutFacts ==
    ASSUME NEW p \in [0 .. 3 -> Entry], NEW i \in 0 .. 3
    PROVE  /\ PipeOut(p, i) \in [0 .. 3 -> Entry]
           /\ \A j \in 0 .. 3 :
                 \/ j < i /\ PipeOut(p, i)[j] = Down(p[j], p[i].len)
                 \/ ~(j < i) /\ j = 3 /\ PipeOut(p, i)[j] = None
                 \/ ~(j < i) /\ j + 1 \in 0 .. 3 /\ j # 3 /\ PipeOut(p, i)[j] = p[j + 1]
<1>1. PipeOut(p, i) = [j \in 0 .. 3 |-> IF j < i THEN Down(p[j], p[i].len) ELSE Backward(p)[j]]
  BY DEF PipeOut
<1>2. ASSUME NEW j \in 0 .. 3 PROVE Backward(p)[j] = IF j = 3 THEN None ELSE p[j + 1]
  BY DEF Backward
<1>3. ASSUME NEW j \in 0 .. 3
      PROVE  \/ j < i /\ PipeOut(p, i)[j] = Down(p[j], p[i].len)
             \/ ~(j < i) /\ j = 3 /\ PipeOut(p, i)[j] = None
             \/ ~(j < i) /\ j + 1 \in 0 .. 3 /\ j # 3 /\ PipeOut(p, i)[j] = p[j + 1]
  <2>1. CASE j < i
    BY <1>1, <2>1
  <2>2. CASE ~(j < i) /\ j = 3
    BY <1>1, <1>2, <2>2
  <2>3. CASE ~(j < i) /\ j # 3
    <3>1. j + 1 \in 0 .. 3
      BY <2>3
    <3>2. PipeOut(p, i)[j] = p[j + 1]
      BY <1>1, <1>2, <2>3
    <3>3. QED
      BY <2>3, <3>1, <3>2
  <2>4. QED
    BY <2>1, <2>2, <2>3
<1>4. ASSUME NEW j \in 0 .. 3 PROVE PipeOut(p, i)[j] \in Entry
  <2>1. p[i].len \in Nat
    BY EntryFacts
  <2>2. Down(p[j], p[i].len) \in Entry
    BY <2>1, DownFacts
  <2>3. QED
    BY <1>3, <2>2, NoneFacts
<1>5. QED
  BY <1>1, <1>3, <1>4

\* The window without the entry of a deleted instruction.
LEMMA PipeOutShows ==
    ASSUME NEW p \in [0 .. 3 -> Entry], NEW i \in 0 .. 3, p[i].insn # 0,
           NEW insns, NEW r, NEW left, MovedOver(r, left, p[i].insn, p[i].len),
           NEW a \in Nat, \A k \in DOMAIN r : r[k] \in Nat,
           NEW last, Shows(insns, r, a, p), Descends(p, last)
    PROVE  Shows(insns, left, a, PipeOut(p, i))
<1>1. SUFFICES ASSUME NEW j \in 0 .. 3 PROVE EntryIs(insns, left, a, PipeOut(p, i)[j])
  BY DEF Shows
<1>2. p[i].len \in Nat /\ p[i].insn \in Nat /\ \A k \in 0 .. 3 : p[k] \in Entry /\ p[k].insn \in Nat
  BY EntryFacts
<1>3. CASE j < i /\ PipeOut(p, i)[j] = Down(p[j], p[i].len)
  <2>1. EntryIs(insns, r, a, p[j])
    BY DEF Shows
  <2>2. p[j].insn = 0 \/ p[i].insn < p[j].insn
    BY <1>3 DEF Descends
  <2>3. p[j].insn # p[i].insn
    BY <1>2, <2>2
  <2>4. EntryIs(insns, left, a, Down(p[j], p[i].len))
    BY <1>2, <2>1, <2>2, <2>3, EntryStays
  <2>5. QED
    BY <1>3, <2>4
<1>4. CASE ~(j < i) /\ j = 3 /\ PipeOut(p, i)[j] = None
  BY <1>4, NoneFacts DEF EntryIs
<1>5. CASE ~(j < i) /\ j + 1 \in 0 .. 3 /\ j # 3 /\ PipeOut(p, i)[j] = p[j + 1]
  <2>1. EntryIs(insns, r, a, p[j + 1])
    BY <1>5 DEF Shows
  <2>2. i < j + 1
    BY <1>5
  <2>3. p[j + 1].insn < p[i].insn
    BY <1>5, <2>2 DEF Descends
  <2>4. p[j + 1].insn # p[i].insn /\ ~(p[i].insn < p[j + 1].insn) /\ p[j + 1] \in Entry
    BY <1>2, <1>5, <2>3
  <2>5. EntryIs(insns, left, a, p[j + 1])
    BY <1>2, <2>1, <2>4, EntryStays
  <2>6. QED
    BY <1>5, <2>5
<1>6. \/ j < i /\ PipeOut(p, i)[j] = Down(p[j], p[i].len)
      \/ ~(j < i) /\ j = 3 /\ PipeOut(p, i)[j] = None
      \/ ~(j < i) /\ j + 1 \in 0 .. 3 /\ j # 3 /\ PipeOut(p, i)[j] = p[j + 1]
  BY PipeOutFacts, Zenon
<1>7. QED
  BY <1>3, <1>4, <1>5, <1>6, Zenon

LEMMA PipeOutDescends ==
    ASSUME NEW p \in [0 .. 3 -> Entry], NEW i \in 0 .. 3, NEW last \in Nat, Descends(p, last)
    PROVE  Descends(PipeOut(p, i), last)
<1> DEFINE q == PipeOut(p, i)
           from(j) == IF j < i THEN j ELSE j + 1
<1>1. p[i].len \in Nat /\ \A k \in 0 .. 3 : p[k] \in Entry /\ p[k].insn \in Nat
  BY EntryFacts
<1>2. ASSUME NEW j \in 0 .. 3
      PROVE  \/ q[j].insn = 0
             \/ from(j) \in 0 .. 3 /\ q[j].insn = p[from(j)].insn
  <2>1. CASE j < i /\ PipeOut(p, i)[j] = Down(p[j], p[i].len)
    BY <1>1, <2>1, DownFacts
  <2>2. CASE ~(j < i) /\ j = 3 /\ PipeOut(p, i)[j] = None
    BY <2>2, NoneFacts
  <2>3. CASE ~(j < i) /\ j + 1 \in 0 .. 3 /\ j # 3 /\ PipeOut(p, i)[j] = p[j + 1]
    BY <2>3
  <2>4. \/ j < i /\ PipeOut(p, i)[j] = Down(p[j], p[i].len)
        \/ ~(j < i) /\ j = 3 /\ PipeOut(p, i)[j] = None
        \/ ~(j < i) /\ j + 1 \in 0 .. 3 /\ j # 3 /\ PipeOut(p, i)[j] = p[j + 1]
    BY PipeOutFacts, Zenon
  <2>5. QED
    BY <2>1, <2>2, <2>3, <2>4, Zenon
<1>3. ASSUME NEW j \in 0 .. 3, NEW k \in 0 .. 3, j < k PROVE from(j) < from(k)
  BY <1>3
<1> HIDE DEF q, from
<1>4. \A j \in 0 .. 3 : q[j].insn <= last
  BY <1>1, <1>2 DEF Descends
<1>5. ASSUME NEW j \in 0 .. 3, NEW k \in 0 .. 3, j < k, q[j].insn # 0 PROVE q[k].insn < q[j].insn
  <2>1. from(j) \in 0 .. 3 /\ q[j].insn = p[from(j)].insn
    BY <1>2, <1>5
  <2>2. CASE q[k].insn = 0
    BY <1>1, <1>5, <2>1, <2>2
  <2>3. CASE q[k].insn # 0
    <3>1. from(k) \in 0 .. 3 /\ q[k].insn = p[from(k)].insn
      BY <1>2, <2>3
    <3>2. from(j) < from(k)
      BY <1>3, <1>5
    <3>3. QED
      BY <1>5, <2>1, <3>1, <3>2 DEF Descends
  <2>4. QED
    BY <2>2, <2>3
<1>6. QED
  BY <1>4, <1>5 DEF Descends, q

LEMMA PipeOutGapless ==
    ASSUME NEW p \in [0 .. 3 -> Entry], NEW i \in 0 .. 3, p[i].insn # 0, Gapless(p, 0)
    PROVE  Gapless(PipeOut(p, i), 0)
<1> DEFINE q == PipeOut(p, i)
<1>1. /\ p[i].len \in Nat
      /\ \A k \in 0 .. 3 : p[k] \in Entry /\ p[k].addr \in Int /\ p[k].len \in Nat
  BY EntryFacts
<1>2. \A k \in 0 .. 3 : Down(p[k], p[i].len).insn = p[k].insn
        /\ Down(p[k], p[i].len).len = p[k].len /\ Down(p[k], p[i].len).addr = p[k].addr - p[i].len
  BY <1>1, DownFacts
<1>3. \A k \in 0 .. 2 : p[k + 1].insn # 0 =>
            p[k].insn # 0 /\ p[k + 1].addr + p[k + 1].len = p[k].addr
  BY DEF Gapless
<1>4. SUFFICES ASSUME NEW j \in 0 .. 2, q[j + 1].insn # 0
               PROVE  q[j].insn # 0 /\ q[j + 1].addr + q[j + 1].len = q[j].addr
  BY DEF Gapless
<1>5. j \in 0 .. 3 /\ j + 1 \in 0 .. 3
  OBVIOUS
<1>6. /\ \/ j < i /\ q[j] = Down(p[j], p[i].len)
         \/ ~(j < i) /\ j = 3 /\ q[j] = None
         \/ ~(j < i) /\ j + 1 \in 0 .. 3 /\ j # 3 /\ q[j] = p[j + 1]
      /\ \/ j + 1 < i /\ q[j + 1] = Down(p[j + 1], p[i].len)
         \/ ~(j + 1 < i) /\ j + 1 = 3 /\ q[j + 1] = None
         \/ ~(j + 1 < i) /\ (j + 1) + 1 \in 0 .. 3 /\ j + 1 # 3 /\ q[j + 1] = p[(j + 1) + 1]
  <2>1. \A k \in 0 .. 3 :
            \/ k < i /\ q[k] = Down(p[k], p[i].len)
            \/ ~(k < i) /\ k = 3 /\ q[k] = None
            \/ ~(k < i) /\ k + 1 \in 0 .. 3 /\ k # 3 /\ q[k] = p[k + 1]
    BY PipeOutFacts, Zenon
  <2> HIDE DEF q
  <2>2. QED
    BY <1>5, <2>1, Zenon
<1> HIDE DEF q
<1>7. CASE j + 1 < i
  <2>1. q[j] = Down(p[j], p[i].len) /\ q[j + 1] = Down(p[j + 1], p[i].len)
    BY <1>5, <1>6, <1>7
  <2>2. p[j + 1].insn # 0
    BY <1>2, <1>4, <1>5, <2>1
  <2>3. p[j].insn # 0 /\ p[j + 1].addr + p[j + 1].len = p[j].addr
    BY <1>3, <2>2
  <2>4. QED
    BY <1>1, <1>2, <1>5, <2>1, <2>3
<1>8. CASE j + 1 = i
  <2>1. q[j] = Down(p[j], p[i].len) /\ q[j + 1] = p[i + 1] /\ i \in 0 .. 2 /\ i + 1 \in 0 .. 3
    <3>1. j < i /\ ~(j + 1 < i)
      BY <1>8
    <3>2. j + 1 # 3
      BY <1>4, <1>6, <3>1, NoneFacts
    <3>3. QED
      BY <1>6, <1>8, <3>1, <3>2
  <2>2. p[i + 1].addr + p[i + 1].len = p[i].addr
    BY <1>3, <1>4, <2>1
  <2>3. p[j].insn # 0 /\ p[i].addr + p[i].len = p[j].addr
    BY <1>3, <1>8
  <2>4. QED
    BY <1>1, <1>2, <1>5, <2>1, <2>2, <2>3
<1>9. CASE i < j + 1
  <2>1. ~(j < i) /\ ~(j + 1 < i) /\ j # 3
    BY <1>9
  <2>2. j + 1 # 3
    BY <1>4, <1>6, <2>1, NoneFacts
  <2>3. q[j] = p[j + 1] /\ q[j + 1] = p[(j + 1) + 1] /\ j + 1 \in 0 .. 2
    BY <1>6, <2>1, <2>2
  <2>4. QED
    BY <1>3, <1>4, <2>3
<1>10. QED
  BY <1>7, <1>8, <1>9

LEMMA BackwardIs ==
    ASSUME NEW p \in [0 .. 3 -> Entry]
    PROVE  /\ Backward(p) \in [0 .. 3 -> Entry]
           /\ Backward(p)[3] = None
           /\ \A j \in 0 .. 2 : j + 1 \in 0 .. 3 /\ Backward(p)[j] = p[j + 1]
BY NoneFacts DEF Backward

LEMMA BackwardFacts ==
    ASSUME NEW p \in [0 .. 3 -> Entry], NEW insns, NEW r, NEW a, Shows(insns, r, a, p),
           NEW last \in Nat, Descends(p, last)
    PROVE  /\ Backward(p) \in [0 .. 3 -> Entry]
           /\ Shows(insns, r, a, Backward(p))
           /\ Descends(Backward(p), last)
           /\ Gapless(p, 0) => Gapless(Backward(p), 0)
<1> DEFINE q == Backward(p)
<1>1. /\ q \in [0 .. 3 -> Entry] /\ q[3] = None
      /\ \A j \in 0 .. 2 : j + 1 \in 0 .. 3 /\ q[j] = p[j + 1]
  BY BackwardIs
<1> HIDE DEF q
<1>2. \A k \in 0 .. 3 : p[k].insn \in Nat
  BY EntryFacts
<1>3. ASSUME NEW j \in 0 .. 3 PROVE j = 3 \/ j \in 0 .. 2
  OBVIOUS
<1>4. Shows(insns, r, a, q)
  <2>1. EntryIs(insns, r, a, q[3])
    BY <1>1, NoneFacts DEF EntryIs
  <2>2. ASSUME NEW j \in 0 .. 2 PROVE EntryIs(insns, r, a, q[j])
    BY <1>1 DEF Shows
  <2>3. QED
    BY <1>3, <2>1, <2>2 DEF Shows
<1>5. Descends(q, last)
  <2>1. ASSUME NEW j \in 0 .. 3 PROVE q[j].insn <= last
    BY <1>1, <1>3, NoneFacts DEF Descends
  <2>2. ASSUME NEW j \in 0 .. 3, NEW k \in 0 .. 3, j < k, q[j].insn # 0
        PROVE  q[k].insn < q[j].insn
    <3>1. j \in 0 .. 2 /\ q[j] = p[j + 1] /\ j + 1 \in 0 .. 3
      BY <1>1, <2>2
    <3>2. CASE k = 3
      <4>1. q[k].insn = 0
        BY <1>1, <3>2, NoneFacts
      <4>2. QED
        BY <1>2, <2>2, <3>1, <4>1
    <3>3. CASE k # 3
      <4>1. q[k] = p[k + 1] /\ k + 1 \in 0 .. 3 /\ j + 1 < k + 1
        BY <1>1, <2>2, <3>3
      <4>2. QED
        BY <2>2, <3>1, <4>1 DEF Descends
    <3>4. QED
      BY <3>2, <3>3
  <2>3. QED
    BY <2>1, <2>2 DEF Descends
<1>6. ASSUME Gapless(p, 0) PROVE Gapless(q, 0)
  <2>1. SUFFICES ASSUME NEW j \in 0 .. 2, q[j + 1].insn # 0
                 PROVE  q[j].insn # 0 /\ q[j + 1].addr + q[j + 1].len = q[j].addr
    BY DEF Gapless
  <2>2. j + 1 \in 0 .. 2
    BY <1>1, <2>1, NoneFacts
  <2>3. q[j] = p[j + 1] /\ q[j + 1] = p[(j + 1) + 1]
    BY <1>1, <2>2
  <2>4. p[(j + 1) + 1].insn # 0 => p[j + 1].insn # 0 /\
            p[(j + 1) + 1].addr + p[(j + 1) + 1].len = p[j + 1].addr
    BY <1>6, <2>2 DEF Gapless
  <2>5. QED
    BY <2>1, <2>3, <2>4
<1>7. QED
  BY <1>1, <1>4, <1>5, <1>6 DEF q

\* The window moved on, its first entry not yet filled.
LEMMA ForwardFacts ==
    ASSUME pipe \in [0 .. 3 -> Entry], NEW insns, NEW r, NEW a, Shows(insns, r, a, pipe),
           NEW last \in Nat, Descends(pipe, last)
    PROVE  /\ Forward \in [0 .. 3 -> Entry] /\ Forward[0] = None
           /\ Shows(insns, r, a, Forward)
           /\ Descends(Forward, last)
           /\ Gapless(pipe, 0) => Gapless(Forward, 1)
<1> DEFINE q == Forward
<1>1. /\ q \in [0 .. 3 -> Entry] /\ q[0] = None
      /\ \A j \in 1 .. 3 : j - 1 \in 0 .. 3 /\ q[j] = pipe[j - 1]
  BY NoneFacts DEF Forward
<1> HIDE DEF q
<1>2. ASSUME NEW j \in 0 .. 3 PROVE j = 0 \/ j \in 1 .. 3
  OBVIOUS
<1>3. Shows(insns, r, a, q)
  <2>1. EntryIs(insns, r, a, q[0])
    BY <1>1, NoneFacts DEF EntryIs
  <2>2. ASSUME NEW j \in 1 .. 3 PROVE EntryIs(insns, r, a, q[j])
    BY <1>1 DEF Shows
  <2>3. QED
    BY <1>2, <2>1, <2>2 DEF Shows
<1>4. Descends(q, last)
  <2>1. ASSUME NEW j \in 0 .. 3 PROVE q[j].insn <= last
    BY <1>1, <1>2, NoneFacts DEF Descends
  <2>2. ASSUME NEW j \in 0 .. 3, NEW k \in 0 .. 3, j < k, q[j].insn # 0
        PROVE  q[k].insn < q[j].insn
    <3>1. j \in 1 .. 3
      BY <1>1, <1>2, <2>2, NoneFacts
    <3>2. /\ q[j] = pipe[j - 1] /\ q[k] = pipe[k - 1] /\ j - 1 \in 0 .. 3 /\ k - 1 \in 0 .. 3
          /\ j - 1 < k - 1
      BY <1>1, <2>2, <3>1
    <3>3. QED
      BY <2>2, <3>2 DEF Descends
  <2>3. QED
    BY <2>1, <2>2 DEF Descends
<1>5. ASSUME Gapless(pipe, 0) PROVE Gapless(q, 1)
  <2>1. SUFFICES ASSUME NEW j \in 0 .. 2, 1 <= j, q[j + 1].insn # 0
                 PROVE  q[j].insn # 0 /\ q[j + 1].addr + q[j + 1].len = q[j].addr
    BY DEF Gapless
  <2>2. j \in 1 .. 3 /\ j + 1 \in 1 .. 3 /\ (j + 1) - 1 = j /\ j - 1 \in 0 .. 2 /\ (j - 1) + 1 = j
    BY <2>1
  <2>3. q[j] = pipe[j - 1] /\ q[j + 1] = pipe[j]
    BY <1>1, <2>2
  <2>4. pipe[j].insn # 0 => pipe[j - 1].insn # 0 /\ pipe[j].addr + pipe[j].len = pipe[j - 1].addr
    BY <1>5, <2>2 DEF Gapless
  <2>5. QED
    BY <2>1, <2>3, <2>4
<1>6. QED
  BY <1>1, <1>3, <1>4, <1>5 DEF q

LEMMA EmptyFacts ==
    ASSUME NEW insns, NEW r, NEW a, NEW last \in Nat, NEW n \in Nat
    PROVE  /\ Empty \in [0 .. 3 -> Entry]
           /\ Shows(insns, r, a, Empty) /\ Descends(Empty, last) /\ Gapless(Empty, n)
           /\ Empty[0].insn = 0
<1>1. \A j \in 0 .. 3 : Empty[j].insn = 0 /\ Empty[j].op = "null"
  BY NoneFacts
<1>2. Shows(insns, r, a, Empty)
  BY <1>1 DEF Shows, EntryIs
<1>3. Descends(Empty, last)
  BY <1>1 DEF Descends
<1>4. Gapless(Empty, n)
  <2>1. ASSUME NEW j \in 0 .. 2 PROVE Empty[j + 1].insn = 0
    <3>1. j + 1 \in 0 .. 3
      OBVIOUS
    <3>2. QED
      BY <1>1, <3>1
  <2>2. QED
    BY <2>1 DEF Gapless
<1>5. QED
  BY <1>1, <1>2, <1>3, <1>4, NoneFacts

\* The window after a deletion.
LEMMA WindowAfter ==
    ASSUME NEW i, NEW other, Given(i, other), step # "enter"
    PROVE  /\ PipeWithout(i) \in [0 .. 3 -> Entry]
           /\ Shows(Code(section), reloc'[section], address'[section], PipeWithout(i))
           /\ Descends(PipeWithout(i), current)
           /\ Gapless(pipe, 0) => Gapless(PipeWithout(i), 0)
<1>1. PipeWithout(i) = PipeOut(pipe, i)
  BY DEF PipeWithout, PipeOut, Down
<1>2. /\ IInv /\ i \in 0 .. 3 /\ section \in Sections
      /\ pipe \in [0 .. 3 -> Entry] /\ current \in Nat
  BY DEF Given, IInv, TypeOK
<1>3. /\ Shows(Code(section), reloc[section], address[section], pipe)
      /\ Descends(pipe, current)
  BY <1>2 DEF IInv, WindowIsRight
<1>4. /\ pipe[i].insn # 0 /\ address[section] \in Nat
  BY GivenFacts
<1>5. MovedOver(reloc[section], reloc'[section], pipe[i].insn, pipe[i].len)
  BY NewCode
<1>6. address'[section] = address[section]
  BY DestroySections
<1>7. \A k \in DOMAIN reloc[section] : reloc[section][k] \in Nat
  BY <1>2 DEF IInv, CodeIsWhole, Whole, Block, At
<1>8. PICK left : left = reloc'[section]
  OBVIOUS
<1>9. Shows(Code(section), left, address[section], PipeOut(pipe, i))
  BY <1>2, <1>3, <1>4, <1>5, <1>7, <1>8, PipeOutShows
<1>10. Descends(PipeOut(pipe, i), current) /\ PipeOut(pipe, i) \in [0 .. 3 -> Entry]
  BY <1>2, <1>3, PipeOutDescends, PipeOutFacts
<1>11. Gapless(pipe, 0) => Gapless(PipeOut(pipe, i), 0)
  BY <1>2, <1>4, PipeOutGapless
<1>12. QED
  BY <1>1, <1>6, <1>8, <1>9, <1>10, <1>11

-----------------------------------------------------------------------------
(***************************************************************************)
(* The rules delete selections, and leave another instruction.             *)
(***************************************************************************)
\* A selection in the window may be deleted while another entry stays.
LEMMA RuleGives ==
    ASSUME IInv, step # "enter", NEW i \in 0 .. 3, pipe[i].op \in Selections,
           Destroy(i), UNCHANGED <<object, section>>,
           NEW other \in DOMAIN words[section], words[section][other] # pipe[i].insn
    PROVE  Given(i, other)
<1>1. section \in Sections /\ Shows(Code(section), reloc[section], address[section], pipe)
  BY DEF IInv, WindowIsRight
<1>2. EntryIs(Code(section), reloc[section], address[section], pipe[i])
  BY <1>1 DEF Shows
<1>3. pipe[i].op # "null"
  BY DEF Selections
<1>4. /\ pipe[i].insn \in DOMAIN reloc[section]
      /\ pipe[i].addr = address[section] + reloc[section][pipe[i].insn]
      /\ pipe[i].op = Code(section)[pipe[i].insn].op
      /\ pipe[i].len = Code(section)[pipe[i].insn].size
  BY <1>2, <1>3 DEF EntryIs
<1>5. QED
  BY <1>1, <1>4 DEF Given, I, Code

LEMMA PairGives ==
    ASSUME IInv, step # "enter", NEW i \in 0 .. 3, NEW j \in 0 .. 3, i # j,
           pipe[i].op \in Selections, pipe[j].op # "null",
           Destroy(i), UNCHANGED <<object, section>>
    PROVE  \E other : Given(i, other)
<1>1. /\ section \in Sections /\ Shows(Code(section), reloc[section], address[section], pipe)
      /\ Descends(pipe, current)
      /\ Whole(Code(section), words[section], reloc[section])
      /\ object \in Input
  BY DEF IInv, WindowIsRight, CodeIsWhole
<1>2. pipe[i].insn # 0 /\ pipe[j].insn # 0 /\ pipe[j].insn \in DOMAIN reloc[section]
  BY <1>1 DEF Shows, EntryIs, Selections
<1>3. pipe[i].insn \in Nat /\ pipe[j].insn \in Nat
  BY EntryFacts DEF IInv, TypeOK
<1>4. pipe[i].insn # pipe[j].insn
  <2>1. i < j \/ j < i
    OBVIOUS
  <2>2. pipe[i].insn < pipe[j].insn \/ pipe[j].insn < pipe[i].insn
    BY <1>1, <1>2, <2>1 DEF Descends
  <2>3. QED
    BY <1>3, <2>2
<1>5. PICK k : k = pipe[j].insn
  OBVIOUS
<1>6. k \in DOMAIN Code(section) /\ At(words[section], k, reloc[section][k], Code(section)[k].size)
  BY <1>1, <1>2, <1>5 DEF Whole, Block
<1>7. Code(section)[k].size \in Nat \ {0}
  BY <1>1, <1>6, ObjectFacts
<1>8. PICK o \in Nat : o = reloc[section][k]
  BY <1>6 DEF At
<1>9. PICK p \in Nat : p = o + 1
  OBVIOUS
<1>10. p \in DOMAIN words[section] /\ words[section][p] = k
  <2>1. words[section] \in Seq(DOMAIN Code(section))
    BY <1>1 DEF Whole
  <2>2. DOMAIN words[section] = 1 .. Len(words[section]) /\ Len(words[section]) \in Nat
    BY <2>1
  <2>3. o + Code(section)[k].size <= Len(words[section])
    BY <1>6, <1>8 DEF At
  <2>4. p \in 1 .. Len(words[section])
    BY <1>7, <1>9, <2>2, <2>3
  <2>5. o < p /\ p <= o + Code(section)[k].size
    BY <1>7, <1>9
  <2>6. QED
    BY <1>6, <1>8, <2>2, <2>4, <2>5 DEF At
<1>11. Given(i, p)
  BY <1>4, <1>5, <1>10, RuleGives
<1>12. QED
  BY <1>11

LEMMA AtEndGives ==
    ASSUME IInv, step = "last", NEW i \in UselessAtEnd, Destroy(i), UNCHANGED <<object, section>>
    PROVE  i = 0 /\ \E other : Given(i, other)
<1>1. i = 0 /\ pipe[i].op = "pagesel" /\ IsReturn(pipe[0].addr + pipe[0].len)
  BY DEF UselessAtEnd, MayGo, Is
<1>2. PICK p \in DOMAIN words[section] : I(words[section][p]).op = "return"
  BY <1>1 DEF IsReturn
<1>3. /\ Shows(Code(section), reloc[section], address[section], pipe)
  BY DEF IInv, WindowIsRight
<1>4. I(pipe[i].insn).op = "pagesel"
  <2>1. i \in 0 .. 3
    BY <1>1
  <2>2. EntryIs(Code(section), reloc[section], address[section], pipe[i])
    BY <1>3, <2>1 DEF Shows
  <2>3. QED
    BY <1>1, <2>2 DEF EntryIs, I, Code
<1>5. words[section][p] # pipe[i].insn
  BY <1>2, <1>4
<1>6. Given(i, p)
  BY <1>1, <1>5, RuleGives DEF Selections
<1>7. QED
  BY <1>1, <1>6

\* What a rule of pagesel finds.
LEMMA FoundGives ==
    ASSUME IInv, step # "enter", NEW i \in UselessOfTwo \cup UselessOfThree \cup UselessOfFour,
           Destroy(i), UNCHANGED <<object, section>>
    PROVE  i \in 0 .. 3 /\ \E other : Given(i, other)
<1>1. \E j \in 0 .. 3 : i \in 0 .. 3 /\ i # j /\ pipe[i].op = "pagesel" /\ pipe[j].op # "null"
  <2>1. CASE i \in UselessOfTwo
    <3>1. CASE i = 0
      <4>1. pipe[1].op = "call" /\ pipe[0].op = "pagesel"
        BY <2>1, <3>1 DEF UselessOfTwo, MayGo, Is
      <4>2. 1 \in 0 .. 3 /\ 0 \in 0 .. 3 /\ pipe[1].op # "null"
        BY <4>1
      <4>3. QED
        BY <3>1, <4>1, <4>2
    <3>2. CASE i = 1
      <4>1. pipe[1].op = "pagesel" /\ pipe[0].op \in {"pagesel", "goto", "call", "bra"}
        BY <2>1, <3>2 DEF UselessOfTwo, MayGo, Is
      <4>2. 1 \in 0 .. 3 /\ 0 \in 0 .. 3 /\ pipe[0].op # "null"
        BY <4>1
      <4>3. QED
        BY <3>2, <4>1, <4>2
    <3>3. QED
      BY <2>1, <3>1, <3>2 DEF UselessOfTwo
  <2>2. CASE i \in UselessOfThree
    <3>1. i = 1 /\ pipe[1].op = "pagesel" /\ pipe[2].op = "call"
      BY <2>2 DEF UselessOfThree, MayGo, Is
    <3>2. 1 \in 0 .. 3 /\ 2 \in 0 .. 3 /\ pipe[2].op # "null"
      BY <3>1
    <3>3. QED
      BY <3>1, <3>2
  <2>3. CASE i \in UselessOfFour
    <3>1. i = 2 /\ pipe[2].op = "pagesel" /\ pipe[3].op = "call"
      BY <2>3 DEF UselessOfFour, MayGo, Is
    <3>2. 2 \in 0 .. 3 /\ 3 \in 0 .. 3 /\ pipe[3].op # "null"
      BY <3>1
    <3>3. QED
      BY <3>1, <3>2
  <2>4. QED
    BY <2>1, <2>2, <2>3
<1>2. QED
  BY <1>1, PairGives DEF Selections

LEMMA BankselGives ==
    ASSUME IInv, step # "enter", NEW i \in UselessBanksel, Destroy(i), UNCHANGED <<object, section>>
    PROVE  i \in 0 .. 3 /\ \E other : Given(i, other)
<1>1. i \in {0, 1} /\ pipe[1].op = "banksel" /\ pipe[0].op = "banksel"
  BY DEF UselessBanksel
<1>2. PICK j \in 0 .. 3 : i # j /\ pipe[i].op = "banksel" /\ pipe[j].op = "banksel" /\ i \in 0 .. 3
  <2>1. 0 \in 0 .. 3 /\ 1 \in 0 .. 3
    OBVIOUS
  <2>2. QED
    BY <1>1, <2>1
<1>3. pipe[i].op \in Selections /\ pipe[j].op # "null"
  BY <1>2 DEF Selections
<1>4. QED
  BY <1>2, <1>3, PairGives

-----------------------------------------------------------------------------
(***************************************************************************)
(* The steps.                                                              *)
(***************************************************************************)
\* Window and loop after a step within a turn.
LEMMA TurnGoesOn ==
    ASSUME IInv, Kept', step \in {"last", "two", "three", "four"},
           step' \in {"two", "three", "four", "shift"},
           pipe' \in [0 .. 3 -> Entry],
           Shows(Code(section), reloc'[section], address'[section], pipe'),
           Descends(pipe', current), Gapless(pipe', 0),
           UNCHANGED <<object, pass, section, current, saturation, first>>
    PROVE  IInv'
<1>1. pass = "pagesel" /\ section \in Sections /\ ControlOK
  BY Parts DEF IInv, WindowIsRight, StepOfPass
<1>2. Sections' = Sections /\ \A s : Code(s)' = Code(s)
  BY DEF Sections, Code
<1>3. ControlOK'
  BY <1>1 DEF ControlOK
<1>4. step' # "enter" /\ step' # "analyze" /\ step' # "remove"
  OBVIOUS
<1>5. WindowIsRight'
  BY <1>1, <1>2, <1>4 DEF WindowIsRight
<1>6. NoGaps'
  BY <1>4 DEF NoGaps
<1>7. StepOfPass'
  BY <1>1 DEF StepOfPass
<1>8. QED
  BY <1>3, <1>5, <1>6, <1>7, PartsNext

LEMMA RuleStep ==
    ASSUME IInv, NEW found, found \subseteq UselessOfTwo \cup UselessOfThree \cup UselessOfFour,
           NEW next \in {"three", "four", "shift"}, step \in {"two", "three", "four"},
           Rule(found, next)
    PROVE  IInv'
<1>1. /\ step # "enter" /\ step # "analyze" /\ pass = "pagesel"
      /\ UNCHANGED <<object, pass, section, current, saturation, first>> /\ step' = next
  BY DEF Rule, IInv, StepOfPass
<1>2. /\ Gapless(pipe, 0) /\ Descends(pipe, current) /\ pipe \in [0 .. 3 -> Entry]
      /\ Shows(Code(section), reloc[section], address[section], pipe)
  BY <1>1 DEF IInv, NoGaps, WindowIsRight, TypeOK
<1>3. CASE \E i \in found : Destroy(i) /\ pipe' = PipeWithout(i)
  <2>1. PICK i \in found : Destroy(i) /\ pipe' = PipeWithout(i)
    BY <1>3
  <2>2. PICK other : Given(i, other)
    BY <1>1, <2>1, FoundGives
  <2>3. Kept'
    BY <2>2, DestroyKeeps
  <2>4. /\ pipe' \in [0 .. 3 -> Entry]
        /\ Shows(Code(section), reloc'[section], address'[section], pipe')
        /\ Descends(pipe', current) /\ Gapless(pipe', 0)
    BY <1>1, <1>2, <2>1, <2>2, WindowAfter
  <2>5. QED
    BY <1>1, <2>3, <2>4, TurnGoesOn
<1>4. CASE UNCHANGED <<image, pipe>>
  <2>1. Kept' /\ reloc' = reloc /\ address' = address
    BY <1>1, <1>4, ImageSame DEF image
  <2>2. QED
    BY <1>1, <1>2, <1>4, <2>1, TurnGoesOn
<1>5. QED
  BY <1>3, <1>4 DEF Rule

LEMMA RuleAtEndStep == ASSUME IInv, RuleAtEnd PROVE IInv'
<1>1. /\ step = "last" /\ step # "enter" /\ step # "analyze" /\ pass = "pagesel"
      /\ UNCHANGED <<object, pass, section, current, saturation, first>>
  BY DEF RuleAtEnd, IInv, StepOfPass
<1>2. /\ Gapless(pipe, 0) /\ Descends(pipe, current) /\ pipe \in [0 .. 3 -> Entry] /\ current \in Nat
      /\ Shows(Code(section), reloc[section], address[section], pipe)
  BY <1>1 DEF IInv, NoGaps, WindowIsRight, TypeOK
<1>3. CASE /\ \E i \in UselessAtEnd : Destroy(i) /\ pipe' = Backward(PipeWithout(i))
           /\ step' = "shift"
  <2>1. PICK i \in UselessAtEnd : Destroy(i) /\ pipe' = Backward(PipeWithout(i))
    BY <1>3
  <2>2. PICK other : Given(i, other)
    BY <1>1, <2>1, AtEndGives
  <2>3. Kept'
    BY <2>2, DestroyKeeps
  <2>4. PICK q : q = PipeWithout(i)
    OBVIOUS
  <2>5. PICK left : left = reloc'[section]
    OBVIOUS
  <2>6. PICK a : a = address'[section]
    OBVIOUS
  <2>7. /\ q \in [0 .. 3 -> Entry]
        /\ Shows(Code(section), left, a, q)
        /\ Descends(q, current) /\ Gapless(q, 0)
    BY <1>1, <1>2, <2>2, <2>4, <2>5, <2>6, WindowAfter
  <2>8. /\ Backward(q) \in [0 .. 3 -> Entry]
        /\ Shows(Code(section), left, a, Backward(q))
        /\ Descends(Backward(q), current) /\ Gapless(Backward(q), 0)
    BY <1>2, <2>7, BackwardFacts
  <2>9. /\ pipe' \in [0 .. 3 -> Entry]
        /\ Shows(Code(section), reloc'[section], address'[section], pipe')
        /\ Descends(pipe', current) /\ Gapless(pipe', 0)
    BY <2>1, <2>4, <2>5, <2>6, <2>8
  <2>10. QED
    BY <1>1, <1>3, <2>3, <2>9, TurnGoesOn
<1>4. CASE step' = "two" /\ UNCHANGED <<image, pipe>>
  <2>1. Kept' /\ reloc' = reloc /\ address' = address
    BY <1>1, <1>4, ImageSame DEF image
  <2>2. QED
    BY <1>1, <1>2, <1>4, <2>1, TurnGoesOn
<1>5. QED
  BY <1>3, <1>4 DEF RuleAtEnd

LEMMA ProtectSecondStep == ASSUME IInv, ProtectSecond PROVE IInv'
<1>1. /\ step = "three" /\ step' = "four" /\ pass = "pagesel"
      /\ UNCHANGED <<object, pass, section, current, saturation, first, image>>
      /\ pipe' = [pipe EXCEPT ![1].protected = FALSE, ![0].protected = TRUE]
  BY DEF ProtectSecond, IInv, StepOfPass
<1>2. /\ Gapless(pipe, 0) /\ Descends(pipe, current) /\ pipe \in [0 .. 3 -> Entry]
      /\ Shows(Code(section), reloc[section], address[section], pipe)
  BY <1>1 DEF IInv, NoGaps, WindowIsRight, TypeOK
<1>3. PICK q : q = pipe'
  OBVIOUS
<1>4. ASSUME NEW j \in 0 .. 3
      PROVE  /\ q[j] \in Entry
             /\ q[j].insn = pipe[j].insn /\ q[j].op = pipe[j].op
             /\ q[j].addr = pipe[j].addr /\ q[j].len = pipe[j].len
  <2>1. pipe[j] \in Entry
    BY <1>2
  <2>2. \E b \in BOOLEAN : q[j] = pipe[j] \/ q[j] = [pipe[j] EXCEPT !.protected = b]
    <3>1. /\ q[0] = [pipe[0] EXCEPT !.protected = TRUE]
          /\ q[1] = [pipe[1] EXCEPT !.protected = FALSE]
          /\ q[2] = pipe[2] /\ q[3] = pipe[3]
      <4>1. PICK a : a = [pipe[1] EXCEPT !.protected = FALSE]
        OBVIOUS
      <4>2. PICK b : b = [pipe[0] EXCEPT !.protected = TRUE]
        OBVIOUS
      <4>3. q = [pipe EXCEPT ![1] = a, ![0] = b]
        BY <1>1, <1>2, <1>3, <4>1, <4>2
      <4>4. q[0] = b /\ q[1] = a /\ q[2] = pipe[2] /\ q[3] = pipe[3]
        BY <1>2, <4>3
      <4>5. QED
        BY <4>1, <4>2, <4>4
    <3>2. j = 0 \/ j = 1 \/ j = 2 \/ j = 3
      OBVIOUS
    <3>3. QED
      BY <3>1, <3>2
  <2>3. QED
    BY <2>1, <2>2 DEF Entry
<1>5. q \in [0 .. 3 -> Entry]
  <2>1. DOMAIN q = 0 .. 3 /\ q = [j \in 0 .. 3 |-> q[j]]
    BY <1>1, <1>2, <1>3
  <2>2. QED
    BY <1>4, <2>1
<1>6. Shows(Code(section), reloc[section], address[section], q)
  BY <1>2, <1>4 DEF Shows, EntryIs
<1>7. Descends(q, current)
  BY <1>2, <1>4 DEF Descends
<1>8. Gapless(q, 0)
  <2>1. ASSUME NEW j \in 0 .. 2 PROVE j \in 0 .. 3 /\ j + 1 \in 0 .. 3
    OBVIOUS
  <2>2. QED
    BY <1>2, <1>4, <2>1 DEF Gapless
<1>9. Kept' /\ reloc' = reloc /\ address' = address
  BY <1>1, ImageSame DEF image
<1>10. QED
  BY <1>1, <1>3, <1>5, <1>6, <1>7, <1>8, <1>9, TurnGoesOn

\* On to the next relocation, or to the next section.
LEMMA AdvanceStep ==
    ASSUME IInv, Kept', step # "enter", Advance, Later \subseteq DOMAIN reloc'[section],
           pipe' \in [0 .. 3 -> Entry], saturation' \in 0 .. 4, first' \in BOOLEAN,
           Shows(Code(section), reloc'[section], address'[section], pipe'),
           Descends(pipe', current),
           pass = "pagesel" => pipe'[0].insn = 0 /\ Gapless(pipe', 1),
           UNCHANGED <<object, pass, section>>
    PROVE  IInv'
<1>1. section \in Sections /\ ControlOK /\ Kept /\ object \in Input
  BY Parts DEF IInv, WindowIsRight
<1>2. Sections' = Sections /\ \A s : Code(s)' = Code(s)
  BY DEF Sections, Code
<1>3. CASE Later = {}
  <2>1. step' = "enter" /\ current' = current
    BY <1>3 DEF Advance
  <2>2. ControlOK'
    BY <1>1, <2>1 DEF ControlOK
  <2>3. WindowIsRight' /\ NoGaps' /\ StepOfPass'
    BY <2>1 DEF WindowIsRight, NoGaps, StepOfPass
  <2>4. QED
    BY <2>2, <2>3, PartsNext
<1>4. CASE Later # {}
  <2>1. Later \in SUBSET Nat
    <3>1. DOMAIN reloc[section] \subseteq DOMAIN Code(section)
      BY <1>1 DEF Kept, CodeIsWhole, Whole
    <3>2. DOMAIN Code(section) \subseteq Nat
      BY <1>1, ObjectFacts
    <3>3. QED
      BY <3>1, <3>2 DEF Later
  <2>2. \E k \in Later : \A j \in Later : k <= j
    <3> DEFINE S == Later
    <3>1. S \in SUBSET Nat /\ S # {}
      BY <1>4, <2>1
    <3> HIDE DEF S
    <3>2. \E k \in S : \A j \in S : k <= j
      BY <3>1, LeastOf
    <3>3. QED
      BY <3>2 DEF S
  <2>3. step' = "analyze" /\ current' \in Later
    BY <1>4, <2>2 DEF Advance
  <2>4. current < current' /\ current' \in Nat /\ current' \in DOMAIN reloc'[section]
    BY <2>1, <2>3 DEF Later
  <2>5. ControlOK'
    BY <1>1, <2>3, <2>4 DEF ControlOK
  <2>6. ASSUME NEW j \in 0 .. 3 PROVE pipe'[j].insn <= current /\ pipe'[j].insn \in Nat
    BY EntryFacts DEF Descends
  <2>7. Descends(pipe', current') /\ \A j \in 0 .. 3 : pipe'[j].insn < current'
    <3>1. current \in Nat
      BY <1>1 DEF ControlOK
    <3>2. \A j \in 0 .. 3 : pipe'[j].insn < current' /\ pipe'[j].insn <= current'
      BY <2>4, <2>6, <3>1
    <3>3. QED
      BY <3>2 DEF Descends
  <2>8. WindowIsRight'
    BY <1>1, <1>2, <2>4, <2>7 DEF WindowIsRight
  <2>9. NoGaps' /\ StepOfPass'
    BY <2>3 DEF NoGaps, StepOfPass
  <2>10. QED
    BY <2>5, <2>8, <2>9, PartsNext
<1>5. QED
  BY <1>3, <1>4

LEMMA ShiftStep == ASSUME IInv, Shift PROVE IInv'
<1>1. /\ step = "shift" /\ pass = "pagesel" /\ pipe' = Forward /\ Advance
      /\ UNCHANGED <<object, pass, section, saturation, first, image>>
  BY DEF Shift, IInv, StepOfPass
<1>2. /\ Gapless(pipe, 0) /\ Descends(pipe, current) /\ pipe \in [0 .. 3 -> Entry] /\ current \in Nat
      /\ Shows(Code(section), reloc[section], address[section], pipe)
      /\ saturation \in 0 .. 4 /\ first \in BOOLEAN
  BY <1>1 DEF IInv, NoGaps, WindowIsRight, TypeOK
<1>3. /\ Forward \in [0 .. 3 -> Entry] /\ Forward[0].insn = 0
      /\ Shows(Code(section), reloc[section], address[section], Forward)
      /\ Descends(Forward, current) /\ Gapless(Forward, 1)
  BY <1>2, ForwardFacts, NoneFacts
<1>4. Kept' /\ reloc' = reloc /\ address' = address /\ saturation' = saturation /\ first' = first
  BY <1>1, ImageSame DEF image
<1>5. Later \subseteq DOMAIN reloc'[section]
  BY <1>4 DEF Later
<1>6. QED
  BY <1>1, <1>2, <1>3, <1>4, <1>5, AdvanceStep

\* A relocation enters the window.
LEMMA Fill ==
    ASSUME NEW old \in [0 .. 3 -> Entry], NEW e \in Entry, e.insn # 0,
           NEW insns, NEW r, NEW a, Shows(insns, r, a, old), EntryIs(insns, r, a, e),
           Descends(old, e.insn - 1), NEW q, q = [old EXCEPT ![0] = e]
    PROVE  /\ q \in [0 .. 3 -> Entry]
           /\ Shows(insns, r, a, q)
           /\ Descends(q, e.insn)
           /\ (/\ Gapless(old, 1)
               /\ old[1].insn # 0 => old[1].addr + old[1].len = e.addr) => Gapless(q, 0)
<1>1. /\ q \in [0 .. 3 -> Entry] /\ q[0] = e
      /\ \A j \in 1 .. 3 : q[j] = old[j] /\ j \in 0 .. 3
  OBVIOUS
<1>2. \A j \in 0 .. 3 : old[j].insn \in Nat /\ e.insn \in Nat
  BY EntryFacts
<1>3. \A j \in 0 .. 3 : j = 0 \/ j \in 1 .. 3
  OBVIOUS
<1>4. Shows(insns, r, a, q)
  <2>1. ASSUME NEW j \in 0 .. 3 PROVE EntryIs(insns, r, a, q[j])
    BY <1>1, <1>3 DEF Shows
  <2>2. QED
    BY <2>1 DEF Shows
<1>5. \A j \in 1 .. 3 : q[j].insn < e.insn
  <2>1. ASSUME NEW j \in 1 .. 3 PROVE q[j].insn < e.insn
    <3>1. old[j].insn <= e.insn - 1
      BY <1>1 DEF Descends
    <3>2. QED
      BY <1>1, <1>2, <3>1
  <2>2. QED
    BY <2>1
<1>6. Descends(q, e.insn)
  <2>1. \A j \in 0 .. 3 : q[j].insn <= e.insn
    BY <1>1, <1>2, <1>3, <1>5
  <2>2. ASSUME NEW j \in 0 .. 3, NEW k \in 0 .. 3, j < k, q[j].insn # 0 PROVE q[k].insn < q[j].insn
    <3>1. k \in 1 .. 3
      BY <2>2
    <3>2. CASE j = 0
      BY <1>1, <1>5, <3>1, <3>2
    <3>3. CASE j # 0
      BY <1>1, <1>3, <2>2, <3>1, <3>3 DEF Descends
    <3>4. QED
      BY <3>2, <3>3
  <2>3. QED
    BY <2>1, <2>2 DEF Descends
<1>7. ASSUME Gapless(old, 1), old[1].insn # 0 => old[1].addr + old[1].len = e.addr
      PROVE  Gapless(q, 0)
  <2>1. SUFFICES ASSUME NEW j \in 0 .. 2, q[j + 1].insn # 0
                 PROVE  q[j].insn # 0 /\ q[j + 1].addr + q[j + 1].len = q[j].addr
    BY DEF Gapless
  <2>2. j + 1 \in 1 .. 3
    OBVIOUS
  <2>3. CASE j = 0
    <3>1. q[1] = old[1] /\ j + 1 = 1
      BY <1>1, <2>3
    <3>2. QED
      BY <1>1, <1>7, <2>1, <2>3, <3>1
  <2>4. CASE j # 0
    <3>1. j \in 1 .. 3 /\ 1 <= j
      BY <2>4
    <3>2. q[j] = old[j] /\ q[j + 1] = old[j + 1]
      BY <1>1, <2>2, <3>1
    <3>3. QED
      BY <1>7, <2>1, <3>1, <3>2 DEF Gapless
  <2>5. QED
    BY <2>3, <2>4
<1>8. QED
  BY <1>1, <1>4, <1>6, <1>7

\* What the loop over the relocations finds.
LEMMA CurrentFacts ==
    ASSUME IInv, step = "analyze"
    PROVE  /\ object \in Input /\ section \in Sections
           /\ current \in DOMAIN Code(section) /\ current \in Nat \ {0}
           /\ I(current) = Code(section)[current]
           /\ I(current) \in Insn /\ (I(current).op \in PageInsns => I(current).to \in Labels)
           /\ address[section] \in Nat /\ reloc[section][current] \in Nat
           /\ current \in DOMAIN reloc[section]
           /\ pipe \in [0 .. 3 -> Entry]
           /\ Shows(Code(section), reloc[section], address[section], pipe)
           /\ Descends(pipe, current - 1)
<1>1. /\ object \in Input /\ TypeOK /\ section \in Sections /\ current \in DOMAIN reloc[section]
      /\ Whole(Code(section), words[section], reloc[section])
      /\ Shows(Code(section), reloc[section], address[section], pipe)
      /\ Descends(pipe, current) /\ \A i \in 0 .. 3 : pipe[i].insn < current
  BY DEF IInv, WindowIsRight, CodeIsWhole
<1>2. current \in DOMAIN Code(section) /\ reloc[section][current] \in Nat
  BY <1>1 DEF Whole, Block, At
<1>3. /\ Code(section) \in Seq(Insn) /\ DOMAIN Code(section) = 1 .. Len(Code(section))
      /\ Len(Code(section)) \in Nat
      /\ Code(section)[current].op \in PageInsns => Code(section)[current].to \in Labels
  BY <1>1, <1>2, ObjectFacts
<1>4. current \in Nat \ {0} /\ Code(section)[current] \in Insn
  BY <1>2, <1>3
<1>5. Descends(pipe, current - 1)
  <2>1. \A j \in 0 .. 3 : pipe[j].insn \in Nat
    BY <1>1, EntryFacts DEF TypeOK
  <2>2. \A j \in 0 .. 3 : pipe[j].insn <= current - 1
    BY <1>1, <1>4, <2>1
  <2>3. QED
    BY <1>1, <2>2 DEF Descends
<1>6. QED
  BY <1>1, <1>2, <1>3, <1>4, <1>5 DEF TypeOK, I, Code

LEMMA PagesAreNumbers == ASSUME NEW a \in Int PROVE Page(a) \in Int
<1>1. PageSize \in Nat \ {0}
  BY InputAssumption
<1>2. QED
  BY <1>1 DEF Page

LEMMA FewEntries ==
    ASSUME NEW n \in 2 .. 3, NEW S, S \subseteq 0 .. n
    PROVE  Cardinality(S) \in 0 .. n + 1
<1>1. IsFiniteSet(0 .. n) /\ Cardinality(0 .. n) = n + 1
  BY FS_Interval
<1>2. IsFiniteSet(S) /\ Cardinality(S) <= Cardinality(0 .. n)
  BY <1>1, FS_Subset
<1>3. Cardinality(S) \in Nat
  BY <1>2, FS_CardinalityType
<1>4. QED
  BY <1>1, <1>2, <1>3

LEMMA AnalyzePageselStep == ASSUME IInv, AnalyzePagesel PROVE IInv'
<1> DEFINE addr == address[section] + reloc[section][current]
           page == Page(value[I(current).to])
           old  == IF Adjoins(addr) THEN pipe ELSE Empty
           seen == I(current).op \in PageInsns
           e(l) == [insn |-> current,
                    op |-> IF seen THEN I(current).op ELSE "null",
                    same |-> seen /\ page = Page(addr),
                    protected |-> IsProtected(l),
                    target |-> IF seen THEN page ELSE 0,
                    addr |-> addr,
                    len |-> IF seen THEN I(current).size ELSE 0]
<1>1. /\ pass = "pagesel" /\ step = "analyze" /\ step' = "last"
      /\ UNCHANGED <<object, pass, section, current, first, image>>
      /\ saturation' = Cardinality({i \in 0 .. 3 : i = 0 \/ old[i].insn # 0})
  BY DEF AnalyzePagesel
<1>2. PICK l : pipe' = [old EXCEPT ![0] = e(l)]
  BY Zenon DEF AnalyzePagesel
<1>3. /\ object \in Input /\ section \in Sections
      /\ current \in Nat \ {0} /\ current \in DOMAIN reloc[section]
      /\ I(current) = Code(section)[current]
      /\ I(current) \in Insn /\ (seen => I(current).to \in Labels)
      /\ address[section] \in Nat /\ reloc[section][current] \in Nat
      /\ pipe \in [0 .. 3 -> Entry]
      /\ Shows(Code(section), reloc[section], address[section], pipe)
      /\ Descends(pipe, current - 1)
  BY <1>1, CurrentFacts
<1>4. pipe[0].insn = 0 /\ Gapless(pipe, 1)
  BY <1>1 DEF IInv, NoGaps
<1>5. /\ old \in [0 .. 3 -> Entry]
      /\ Shows(Code(section), reloc[section], address[section], old)
      /\ Descends(old, current - 1) /\ Gapless(old, 1)
      /\ old[1].insn # 0 => old[1].addr + old[1].len = addr
  <2>1. CASE Adjoins(addr)
    <3>1. old = pipe
      BY <2>1
    <3>2. pipe[1].addr + pipe[1].len = addr
      BY <2>1 DEF Adjoins
    <3> HIDE DEF old, addr
    <3>3. QED
      BY <1>3, <1>4, <3>1, <3>2
  <2>2. CASE ~Adjoins(addr)
    <3>1. old = Empty
      BY <2>2
    <3>2. Empty[1].insn = 0 /\ current - 1 \in Nat
      BY <1>3, NoneFacts
    <3> HIDE DEF old, addr
    <3>3. QED
      BY <3>1, <3>2, EmptyFacts
  <2>3. QED
    BY <2>1, <2>2
<1>6. e(l) \in Entry
  <2>1. addr \in Int
    BY <1>3
  <2>2. I(current).size \in Nat /\ I(current).op \in PageInsns \cup BankInsns \cup {"return", "nop"}
    BY <1>3 DEF Insn
  <2>3. (IF seen THEN I(current).op ELSE "null") \in {"null", "pagesel", "banksel"} \cup Branches
    BY DEF PageInsns
  <2>4. (seen /\ page = Page(addr)) \in BOOLEAN /\ IsProtected(l) \in BOOLEAN
    BY DEF IsProtected
  <2>5. (IF seen THEN page ELSE 0) \in Int
    <3>1. CASE seen
      <4>1. value[I(current).to] \in Int
        BY <1>3, <3>1 DEF IInv, TypeOK
      <4>2. QED
        BY <3>1, <4>1, PagesAreNumbers
    <3>2. CASE ~seen
      BY <3>2
    <3>3. QED
      BY <3>1, <3>2
  <2>6. (IF seen THEN I(current).size ELSE 0) \in Nat
    BY <2>2
  <2>7. current \in Nat
    BY <1>3
  <2> HIDE DEF addr, page, seen
  <2>8. QED
    BY <2>1, <2>3, <2>4, <2>5, <2>6, <2>7 DEF Entry
<1>7. /\ e(l).insn = current /\ e(l).addr = addr
      /\ EntryIs(Code(section), reloc[section], address[section], e(l))
  <2>1. /\ e(l).insn = current /\ e(l).addr = addr
        /\ e(l).op = IF seen THEN I(current).op ELSE "null"
        /\ e(l).len = IF seen THEN I(current).size ELSE 0
    OBVIOUS
  <2>2. e(l).op # "null" => seen
    BY <2>1
  <2> HIDE DEF e
  <2>3. QED
    BY <1>3, <2>1, <2>2 DEF EntryIs
<1> HIDE DEF e, old, addr, seen
<1>8. /\ pipe' \in [0 .. 3 -> Entry]
      /\ Shows(Code(section), reloc[section], address[section], pipe')
      /\ Descends(pipe', current)
      /\ Gapless(pipe', 0)
  <2>1. PICK q : q = pipe'
    OBVIOUS
  <2>2. PICK d \in Entry : d = e(l)
    BY <1>6
  <2>3. /\ q = [old EXCEPT ![0] = d] /\ d.insn = current /\ d.insn # 0
        /\ d.addr = addr /\ EntryIs(Code(section), reloc[section], address[section], d)
        /\ Descends(old, d.insn - 1)
    BY <1>2, <1>3, <1>5, <1>7, <2>1, <2>2
  <2>4. /\ q \in [0 .. 3 -> Entry]
        /\ Shows(Code(section), reloc[section], address[section], q)
        /\ Descends(q, d.insn)
        /\ (/\ Gapless(old, 1)
            /\ old[1].insn # 0 => old[1].addr + old[1].len = d.addr) => Gapless(q, 0)
    BY <1>5, <2>3, Fill
  <2>5. QED
    BY <1>5, <2>1, <2>3, <2>4
<1>9. saturation' \in 0 .. 4
  <2>1. PICK S : S = {i \in 0 .. 3 : i = 0 \/ old[i].insn # 0}
    OBVIOUS
  <2>2. S \subseteq 0 .. 3
    BY <2>1
  <2>3. PICK n \in 2 .. 3 : n = 3
    OBVIOUS
  <2>4. Cardinality(S) \in 0 .. n + 1
    BY <2>2, <2>3, FewEntries
  <2>5. QED
    BY <1>1, <2>1, <2>3, <2>4
<1>10. Kept' /\ reloc' = reloc /\ address' = address
  BY <1>1, ImageSame DEF image
<1>11. ControlOK'
  BY <1>1, <1>8, <1>9 DEF IInv, TypeOK, ControlOK
<1>12. Sections' = Sections /\ \A s : Code(s)' = Code(s)
  BY <1>1 DEF Sections, Code
<1>13. WindowIsRight'
  BY <1>1, <1>3, <1>8, <1>10, <1>12 DEF WindowIsRight
<1>14. NoGaps' /\ StepOfPass'
  BY <1>1, <1>8 DEF NoGaps, StepOfPass
<1>15. QED
  BY <1>10, <1>11, <1>13, <1>14, PartsNext

LEMMA AnalyzeBankselStep == ASSUME IInv, AnalyzeBanksel PROVE IInv'
<1> DEFINE addr == address[section] + reloc[section][current]
           e(l) == [insn |-> current, op |-> "banksel", same |-> FALSE,
                    protected |-> IsProtected(l) \/ ~first,
                    target |-> I(current).to, addr |-> addr,
                    len |-> I(current).size]
<1>1. /\ pass = "banksel" /\ step = "analyze" /\ step # "enter" /\ pass # "pagesel"
      /\ UNCHANGED <<object, pass, section, image>>
  BY DEF AnalyzeBanksel
<1>2. /\ object \in Input /\ section \in Sections
      /\ current \in Nat \ {0} /\ current \in DOMAIN reloc[section]
      /\ I(current) = Code(section)[current]
      /\ I(current) \in Insn
      /\ address[section] \in Nat /\ reloc[section][current] \in Nat
      /\ pipe \in [0 .. 3 -> Entry]
      /\ Shows(Code(section), reloc[section], address[section], pipe)
      /\ Descends(pipe, current - 1)
  BY <1>1, CurrentFacts
<1>3. Kept' /\ reloc' = reloc /\ address' = address
  BY <1>1, ImageSame DEF image
<1>4. Later \subseteq DOMAIN reloc'[section]
  BY <1>3 DEF Later
<1>5. saturation \in 0 .. 4 /\ first \in BOOLEAN /\ Descends(pipe, current) /\ ControlOK
  BY <1>1, Parts DEF IInv, TypeOK, WindowIsRight
<1>6. CASE pipe' = Empty /\ Advance /\ UNCHANGED <<saturation, first>>
  <2>1. /\ Empty \in [0 .. 3 -> Entry]
        /\ Shows(Code(section), reloc[section], address[section], Empty)
        /\ Descends(Empty, current)
    <3>1. current \in Nat /\ 0 \in Nat
      BY <1>2
    <3>2. QED
      BY <3>1, EmptyFacts
  <2>2. QED
    BY <1>1, <1>3, <1>4, <1>5, <1>6, <2>1, AdvanceStep
<1>7. CASE Advance /\ UNCHANGED <<pipe, saturation, first>>
  BY <1>1, <1>2, <1>3, <1>4, <1>5, <1>7, AdvanceStep
<1>8. CASE /\ I(current).op = "banksel"
           /\ \E l \in FindByValue(addr) : pipe' = [Forward EXCEPT ![0] = e(l)]
           /\ saturation' = Cardinality({i \in 0 .. 2 : pipe[i].insn # 0}) + 1
           /\ first' = TRUE
           /\ step' = "remove"
           /\ UNCHANGED current
  <2>1. PICK l : pipe' = [Forward EXCEPT ![0] = e(l)]
    BY <1>8, Zenon
  <2>2. e(l) \in Entry
    <3>1. addr \in Int
      BY <1>2
    <3>2. I(current).size \in Nat /\ I(current).to \in Int
      BY <1>2 DEF Insn
    <3>3. (IsProtected(l) \/ ~first) \in BOOLEAN
      BY DEF IsProtected
    <3>4. current \in Nat
      BY <1>2
    <3> HIDE DEF addr
    <3>5. QED
      BY <3>1, <3>2, <3>3, <3>4 DEF Entry
  <2>3. /\ e(l).insn = current
        /\ EntryIs(Code(section), reloc[section], address[section], e(l))
    BY <1>2, <1>8 DEF EntryIs
  <2> HIDE DEF e, addr
  <2>4. /\ pipe' \in [0 .. 3 -> Entry]
        /\ Shows(Code(section), reloc[section], address[section], pipe')
        /\ Descends(pipe', current)
    <3>1. PICK q : q = pipe'
      OBVIOUS
    <3>2. PICK d \in Entry : d = e(l)
      BY <2>2
    <3>3. PICK f : f = Forward
      OBVIOUS
    <3>4. /\ q = [f EXCEPT ![0] = d] /\ d.insn = current /\ d.insn # 0 /\ d.insn - 1 \in Nat
          /\ EntryIs(Code(section), reloc[section], address[section], d)
          /\ Descends(pipe, d.insn - 1)
      BY <1>2, <2>1, <2>3, <3>1, <3>2, <3>3
    <3>5. /\ f \in [0 .. 3 -> Entry]
          /\ Shows(Code(section), reloc[section], address[section], f)
          /\ Descends(f, d.insn - 1)
      BY <1>2, <3>3, <3>4, ForwardFacts
    <3>6. /\ q \in [0 .. 3 -> Entry]
          /\ Shows(Code(section), reloc[section], address[section], q)
          /\ Descends(q, d.insn)
      BY <3>4, <3>5, Fill
    <3>7. QED
      BY <3>1, <3>4, <3>6
  <2>5. saturation' \in 0 .. 4
    <3>1. PICK S : S = {i \in 0 .. 2 : pipe[i].insn # 0}
      OBVIOUS
    <3>2. S \subseteq 0 .. 2
      BY <3>1
    <3>3. PICK n \in 2 .. 3 : n = 2
      OBVIOUS
    <3>4. Cardinality(S) \in 0 .. n + 1
      BY <3>2, <3>3, FewEntries
    <3>5. QED
      BY <1>8, <3>1, <3>3, <3>4
  <2>6. ControlOK'
    BY <1>1, <1>5, <1>8, <2>4, <2>5 DEF ControlOK
  <2>7. Sections' = Sections /\ \A s : Code(s)' = Code(s)
    BY <1>1 DEF Sections, Code
  <2>8. WindowIsRight'
    BY <1>1, <1>2, <1>3, <1>8, <2>4, <2>7 DEF WindowIsRight
  <2>9. NoGaps' /\ StepOfPass'
    BY <1>1, <1>8 DEF NoGaps, StepOfPass
  <2>10. QED
    BY <1>3, <2>6, <2>8, <2>9, PartsNext
<1>9. QED
  BY <1>6, <1>7, <1>8 DEF AnalyzeBanksel

LEMMA RemoveBankselStep == ASSUME IInv, RemoveBanksel PROVE IInv'
<1>1. /\ step = "remove" /\ step # "enter" /\ pass # "pagesel" /\ Advance
      /\ UNCHANGED <<object, pass, section, saturation, first>>
  BY DEF RemoveBanksel, IInv, NoGaps
<1>2. /\ pipe \in [0 .. 3 -> Entry] /\ saturation \in 0 .. 4 /\ first \in BOOLEAN
      /\ current \in Nat
      /\ Shows(Code(section), reloc[section], address[section], pipe)
      /\ Descends(pipe, current)
  BY <1>1 DEF IInv, WindowIsRight, TypeOK
<1>3. CASE \E i \in UselessBanksel : Destroy(i) /\ pipe' = PipeWithout(i)
  <2>1. PICK i \in UselessBanksel : Destroy(i) /\ pipe' = PipeWithout(i)
    BY <1>3
  <2>2. i \in 0 .. 3 /\ \E other : Given(i, other)
    BY <1>1, <2>1, BankselGives
  <2>3. PICK other : Given(i, other)
    BY <2>2
  <2>4. Kept'
    BY <2>3, DestroyKeeps
  <2>5. /\ pipe' \in [0 .. 3 -> Entry]
        /\ Shows(Code(section), reloc'[section], address'[section], pipe')
        /\ Descends(pipe', current)
    BY <1>1, <2>1, <2>3, WindowAfter
  <2>6. Later \subseteq DOMAIN reloc'[section]
    <3>1. DOMAIN reloc'[section] = DOMAIN reloc[section] \ {pipe[i].insn}
      BY <2>3, NewCode DEF MovedOver
    <3>2. pipe[i].insn <= current /\ pipe[i].insn \in Nat
      BY <1>2, <2>2, EntryFacts DEF Descends
    <3>3. ASSUME NEW k \in Later PROVE k # pipe[i].insn
      BY <1>2, <3>2 DEF Later
    <3>4. QED
      BY <3>1, <3>3 DEF Later
  <2>7. saturation' \in 0 .. 4 /\ first' \in BOOLEAN
    BY <1>1, <1>2
  <2>8. QED
    BY <1>1, <2>4, <2>5, <2>6, <2>7, AdvanceStep
<1>4. CASE UNCHANGED <<image, pipe>>
  <2>1. Kept' /\ reloc' = reloc /\ address' = address
    BY <1>1, <1>4, ImageSame DEF image
  <2>2. Later \subseteq DOMAIN reloc'[section]
    BY <2>1 DEF Later
  <2>3. saturation' \in 0 .. 4 /\ first' \in BOOLEAN
    BY <1>1, <1>2
  <2>4. QED
    BY <1>1, <1>2, <1>4, <2>1, <2>2, <2>3, AdvanceStep
<1>5. QED
  BY <1>3, <1>4 DEF RemoveBanksel

\* The new arrays of labels.
LEMMA ArraysAreOfLabels ==
    ASSUME IInv, NEW s, NEW labels \in LabelArrays(s)
    PROVE  labels \in Seq(Labels)
<1>1. object.labels \in Seq([section : Nat, insn : Nat])
  BY ObjectFacts DEF IInv, ObjectType
<1>2. PICK n \in Nat : Labels = 1 .. n
  BY <1>1 DEF Labels
<1>3. LabelsIn(s) \subseteq Labels
  BY DEF LabelsIn
<1>4. PICK S : S = LabelsIn(s)
  OBVIOUS
<1>5. IsFiniteSet(S) /\ Cardinality(S) \in Nat
  <2>1. IsFiniteSet(1 .. n) /\ S \subseteq 1 .. n
    BY <1>2, <1>3, <1>4, FS_Interval
  <2>2. QED
    BY <2>1, FS_Subset, FS_CardinalityType
<1>6. labels \in [1 .. Cardinality(S) -> S]
  <2>1. labels \in SetToSeqs(LabelsIn(s))
    BY DEF LabelArrays
  <2>2. labels \in SetToSeqs(S)
    BY <1>4, <2>1
  <2>3. QED
    BY <2>2 DEF SetToSeqs
<1>7. PICK m \in Nat : m = Cardinality(S)
  BY <1>5
<1>8. labels \in [1 .. m -> Labels]
  BY <1>3, <1>4, <1>6, <1>7
<1>9. QED
  BY <1>8, RowIsSeq

LEMMA EnterSectionStep == ASSUME IInv, EnterSection PROVE IInv'
<1>1. /\ step = "enter" /\ section < Len(object.code) /\ section' = section + 1
      /\ pipe' = Empty /\ saturation' = 0
      /\ UNCHANGED <<object, pass, address, words, reloc, value, count, moved>>
  BY DEF EnterSection
<1>0. first' \in BOOLEAN
  <2>1. first' = FALSE
    BY DEF EnterSection
  <2>2. QED
    BY <2>1, Zenon
<1>2. /\ object \in Input /\ section \in 0 .. Len(object.code) /\ ControlOK /\ Kept
  BY Parts DEF IInv, TypeOK
<1>3. section' \in Sections /\ section' \in 0 .. Len(object.code)
  BY <1>1, <1>2, ObjectFacts
<1>4. array' \in [Sections -> Seq(Labels)]
  <2> DEFINE arrays == [t \in Sections |->
                         IF t \in OnPage(section + 1) THEN LabelArrays(t) ELSE {<<>>}]
  <2>1. array' \in {a \in [Sections -> UNION Range(arrays)] : \A t \in Sections : a[t] \in arrays[t]}
    BY DEF EnterSection
  <2>2. ASSUME NEW t \in Sections PROVE array'[t] \in Seq(Labels)
    <3>1. array'[t] \in arrays[t]
      BY <2>1
    <3>2. array'[t] \in LabelArrays(t) \/ array'[t] = <<>>
      BY <3>1
    <3>3. PICK labels : labels = array'[t]
      OBVIOUS
    <3>4. CASE labels \in LabelArrays(t)
      BY <3>3, <3>4, ArraysAreOfLabels
    <3>5. CASE labels = <<>>
      BY <3>3, <3>5
    <3>6. QED
      BY <3>2, <3>3, <3>4, <3>5
  <2> HIDE DEF arrays
  <2>3. QED
    BY <2>1, <2>2
<1>5. Kept'
  BY <1>1, <1>4, ImageStays
<1>6. Sections' = Sections /\ \A s : Code(s)' = Code(s)
  BY <1>1 DEF Sections, Code
<1>7. CASE UNCHANGED <<step, current>>
  <2>1. ControlOK'
    <3>1. Empty \in [0 .. 3 -> Entry]
      BY NoneFacts
    <3>2. QED
      BY <1>0, <1>1, <1>2, <1>3, <1>7, <3>1 DEF ControlOK
  <2>2. WindowIsRight' /\ NoGaps' /\ StepOfPass'
    BY <1>1, <1>7 DEF WindowIsRight, NoGaps, StepOfPass
  <2>3. QED
    BY <1>5, <2>1, <2>2, PartsNext
<1>8. CASE ~(UNCHANGED <<step, current>>)
  <2>1. PICK t \in Sections : t = section + 1
    BY <1>1, <1>3
  <2>2. PICK S : S = DOMAIN reloc[t]
    OBVIOUS
  <2>3. S # {} /\ step' = "analyze" /\ current' = CHOOSE k \in S : \A j \in S : k <= j
    BY <1>8, <2>1, <2>2 DEF EnterSection
  <2>4. S \subseteq DOMAIN Code(t) /\ DOMAIN Code(t) \subseteq Nat \ {0}
    BY <1>2, <2>2, ObjectFacts DEF Kept, CodeIsWhole, Whole
  <2>5. S \in SUBSET Nat
    BY <2>4
  <2>6. \E k \in S : \A j \in S : k <= j
    BY <2>3, <2>5, LeastOf
  <2>7. current' \in S
    BY <2>3, <2>6
  <2>8. current' \in DOMAIN reloc'[section'] /\ current' \in Nat \ {0}
    BY <1>1, <2>1, <2>2, <2>4, <2>7
  <2>9. ControlOK'
    <3>1. Empty \in [0 .. 3 -> Entry]
      BY NoneFacts
    <3>2. QED
      BY <1>0, <1>1, <1>2, <1>3, <2>3, <2>8, <3>1 DEF ControlOK
  <2>10. /\ \A j \in 0 .. 3 : Empty[j].insn < current'
         /\ Shows(Code(t), reloc'[t], address'[t], Empty)
         /\ Descends(Empty, current') /\ Gapless(Empty, 1) /\ Empty[0].insn = 0
    <3>1. PICK k \in Nat \ {0} : k = current'
      BY <2>8
    <3>2. PICK r : r = reloc'[t]
      OBVIOUS
    <3>3. PICK a : a = address'[t]
      OBVIOUS
    <3>4. \A j \in 0 .. 3 : Empty[j].insn < k
      BY NoneFacts
    <3>5. k \in Nat /\ 1 \in Nat
      OBVIOUS
    <3>6. /\ Shows(Code(t), r, a, Empty)
          /\ Descends(Empty, k) /\ Gapless(Empty, 1) /\ Empty[0].insn = 0
      BY <3>5, EmptyFacts
    <3>7. QED
      BY <3>1, <3>2, <3>3, <3>4, <3>6
  <2>11. WindowIsRight'
    BY <1>1, <1>3, <1>6, <2>1, <2>8, <2>10 DEF WindowIsRight
  <2>12. NoGaps' /\ StepOfPass'
    BY <1>1, <2>3, <2>10 DEF NoGaps, StepOfPass
  <2>13. QED
    BY <1>5, <2>9, <2>11, <2>12, PartsNext
<1>9. QED
  BY <1>7, <1>8

LEMMA EndPassStep == ASSUME IInv, EndPass PROVE IInv'
<1>1. /\ step = "enter" /\ step' = "enter" /\ section' = 0
      /\ array' = [s \in Sections |-> <<>>]
      /\ UNCHANGED <<object, current, address, words, reloc, value, count, moved,
                     pipe, saturation, first>>
  BY DEF EndPass
<1>2. pass' = "banksel" \/ pass' = "done"
  BY Zenon DEF EndPass
<1>3. ControlOK /\ Len(object.code) \in Nat
  BY Parts, ObjectFacts DEF IInv
<1>4. Kept'
  <2>1. array' \in [Sections -> Seq(Labels)]
    BY <1>1
  <2>2. QED
    BY <1>1, <2>1, ImageStays
<1>5. ControlOK'
  BY <1>1, <1>2, <1>3 DEF ControlOK
<1>6. WindowIsRight' /\ NoGaps' /\ StepOfPass'
  BY <1>1 DEF WindowIsRight, NoGaps, StepOfPass
<1>7. QED
  BY <1>4, <1>5, <1>6, PartsNext

LEMMA StepIInv == IInv /\ [Next]_vars => IInv'
<1> SUFFICES ASSUME IInv, [Next]_vars PROVE IInv'
  OBVIOUS
<1>1. CASE EnterSection
  BY <1>1, EnterSectionStep
<1>2. CASE EndPass
  BY <1>2, EndPassStep
<1>3. CASE AnalyzePagesel
  BY <1>3, AnalyzePageselStep
<1>4. CASE RuleAtEnd
  BY <1>4, RuleAtEndStep
<1>5. CASE RuleOfTwo
  BY <1>5, RuleStep DEF RuleOfTwo
<1>6. CASE RuleOfThree
  BY <1>6, RuleStep DEF RuleOfThree
<1>7. CASE RuleOfFour
  BY <1>7, RuleStep DEF RuleOfFour
<1>8. CASE ProtectSecond
  BY <1>8, ProtectSecondStep
<1>9. CASE Shift
  BY <1>9, ShiftStep
<1>10. CASE AnalyzeBanksel
  BY <1>10, AnalyzeBankselStep
<1>11. CASE RemoveBanksel
  BY <1>11, RemoveBankselStep
<1>12. CASE UNCHANGED vars
  <2>1. UNCHANGED <<object, pass, section, current, step, pipe, saturation, first, image>>
    BY <1>12 DEF vars, where
  <2>2. Kept'
    BY <2>1, ImageSame
  <2>3. Sections' = Sections /\ (\A s : Code(s)' = Code(s)) /\ reloc' = reloc /\ address' = address
    BY <2>1 DEF Sections, Code, image
  <2>4. ControlOK'
    BY <2>1, Parts DEF ControlOK
  <2>5. WindowIsRight'
    BY <2>1, <2>3, Parts DEF WindowIsRight
  <2>6. NoGaps' /\ StepOfPass'
    BY <2>1, Parts DEF NoGaps, StepOfPass
  <2>7. QED
    BY <2>2, <2>4, <2>5, <2>6, PartsNext
<1>13. QED
  BY <1>1, <1>2, <1>3, <1>4, <1>5, <1>6, <1>7, <1>8, <1>9, <1>10, <1>11, <1>12 DEF Next

LEMMA Invariance == Spec => []IInv
<1>1. Init => IInv
  BY InitIInv
<1>2. IInv /\ [Next]_vars => IInv'
  BY StepIInv
<1>3. QED
  BY <1>1, <1>2, PTL DEF Spec

-----------------------------------------------------------------------------
(***************************************************************************)
(* What the invariant gives.                                               *)
(***************************************************************************)
FirstPlace(w, k) == CHOOSE p \in DOMAIN w : w[p] = k /\ \A q \in 1 .. p - 1 : w[q] # k

\* A block tells the place and the number of the words of its instruction.
LEMMA PlaceOfBlock ==
    ASSUME NEW S, NEW w \in Seq(S), NEW k, NEW o, NEW size \in Nat \ {0}, At(w, k, o, size)
    PROVE  /\ k \in ToSet(w)
           /\ FirstPlace(w, k) = o + 1
           /\ Cardinality({p \in DOMAIN w : w[p] = k}) = size
<1>1. /\ DOMAIN w = 1 .. Len(w) /\ Len(w) \in Nat /\ o \in Nat /\ o + size <= Len(w)
      /\ \A p \in DOMAIN w : w[p] = k <=> (o < p /\ p <= o + size)
  BY DEF At
<1>2. PICK x \in Nat : x = o + 1
  BY <1>1
<1>3. x \in DOMAIN w /\ o < x /\ x <= o + size
  BY <1>1, <1>2
<1>4. w[x] = k
  BY <1>1, <1>3
<1>5. \A q \in 1 .. x - 1 : w[q] # k
  BY <1>1, <1>2, <1>3
<1>6. ASSUME NEW p \in DOMAIN w, w[p] = k, \A q \in 1 .. p - 1 : w[q] # k PROVE p = x
  <2>1. p \in Nat /\ o < p
    BY <1>1, <1>6
  <2>2. p = x \/ x \in 1 .. p - 1
    BY <1>1, <1>2, <2>1
  <2>3. QED
    BY <1>4, <1>6, <2>2
<1>7. FirstPlace(w, k) = x
  BY <1>3, <1>4, <1>5, <1>6 DEF FirstPlace
<1>8. {p \in DOMAIN w : w[p] = k} = (o + 1) .. (o + size)
  <2>1. ASSUME NEW p \in (o + 1) .. (o + size) PROVE p \in DOMAIN w /\ w[p] = k
    <3>1. p \in DOMAIN w /\ o < p /\ p <= o + size
      BY <1>1
    <3>2. QED
      BY <1>1, <3>1
  <2>2. ASSUME NEW p \in DOMAIN w, w[p] = k PROVE p \in (o + 1) .. (o + size)
    BY <1>1, <2>2
  <2>3. QED
    BY <2>1, <2>2
<1>9. Cardinality((o + 1) .. (o + size)) = size
  <2>1. PICK a \in Int, b \in Int : a = o + 1 /\ b = o + size
    BY <1>1
  <2>2. ~(a > b) /\ b - a + 1 = size
    BY <1>1, <2>1
  <2>3. Cardinality(a .. b) = IF a > b THEN 0 ELSE b - a + 1
    BY FS_Interval
  <2>4. QED
    BY <2>1, <2>2, <2>3
<1>10. k \in ToSet(w)
  BY <1>3, <1>4 DEF ToSet
<1>11. QED
  BY <1>2, <1>7, <1>8, <1>9, <1>10

LEMMA CodeAndRelocations == IInv => CodeAndRelocationsAgree
<1> SUFFICES ASSUME IInv PROVE CodeAndRelocationsAgree
  OBVIOUS
<1>1. ASSUME NEW s \in Sections
      PROVE  /\ words[s] \in Seq(DOMAIN Code(s)) /\ Sorted(words[s])
             /\ DOMAIN reloc[s] \subseteq DOMAIN Code(s)
             /\ \A k \in DOMAIN Code(s) : Code(s)[k].size \in Nat \ {0}
             /\ \A k \in DOMAIN reloc[s] : At(words[s], k, reloc[s][k], Code(s)[k].size)
             /\ \A k \in DOMAIN Code(s) \ DOMAIN reloc[s] :
                   IF Code(s)[k].op \in Selections
                   THEN \A p \in DOMAIN words[s] : words[s][p] # k
                   ELSE \E o \in 0 .. Len(words[s]) : At(words[s], k, o, Code(s)[k].size)
  BY ObjectFacts DEF IInv, CodeIsWhole, Whole, Block
<1>2. RelocationsFollow
  <2>1. ASSUME NEW s \in Sections, NEW k \in DOMAIN reloc[s]
        PROVE  k \in ToSet(words[s]) /\ reloc[s][k] = Offset(s, k) - 1
    <3>1. Code(s)[k].size \in Nat \ {0} /\ At(words[s], k, reloc[s][k], Code(s)[k].size)
      BY <1>1
    <3>2. PICK w : w = words[s]
      OBVIOUS
    <3>3. PICK o : o = reloc[s][k]
      OBVIOUS
    <3>4. k \in ToSet(w) /\ FirstPlace(w, k) = o + 1
      BY <1>1, <3>1, <3>2, <3>3, PlaceOfBlock
    <3>5. Offset(s, k) = o + 1
      BY <3>2, <3>4 DEF Offset, FirstPlace
    <3>6. o \in Nat
      BY <3>1, <3>3 DEF At
    <3>7. QED
      BY <3>2, <3>3, <3>4, <3>5, <3>6
  <2>2. QED
    BY <2>1 DEF RelocationsFollow
<1>3. OnlySelectionsGo
  <2>1. ASSUME NEW s \in Sections, NEW k \in DOMAIN Code(s)
        PROVE  Cardinality({p \in DOMAIN words[s] : words[s][p] = k}) =
                  IF Code(s)[k].op \notin {"pagesel", "banksel"} \/ k \in DOMAIN reloc[s]
                  THEN Code(s)[k].size ELSE 0
    <3>1. CASE Code(s)[k].op \notin {"pagesel", "banksel"} \/ k \in DOMAIN reloc[s]
      <4>1. PICK o : At(words[s], k, o, Code(s)[k].size)
        BY <1>1, <3>1 DEF Selections
      <4>2. Cardinality({p \in DOMAIN words[s] : words[s][p] = k}) = Code(s)[k].size
        BY <1>1, <4>1, PlaceOfBlock
      <4>3. QED
        BY <3>1, <4>2
    <3>2. CASE ~(Code(s)[k].op \notin {"pagesel", "banksel"} \/ k \in DOMAIN reloc[s])
      <4>1. {p \in DOMAIN words[s] : words[s][p] = k} = {}
        BY <1>1, <3>2 DEF Selections
      <4>2. QED
        BY <3>2, <4>1, FS_EmptySet
    <3>3. QED
      BY <3>1, <3>2
  <2>2. ASSUME NEW s \in Sections
        PROVE  \A p, q \in DOMAIN words[s] : p < q => words[s][p] <= words[s][q]
    BY <1>1 DEF Sorted
  <2>3. QED
    BY <2>1, <2>2 DEF OnlySelectionsGo
<1>4. QED
  BY <1>2, <1>3 DEF CodeAndRelocationsAgree

LEMMA WindowFacts == IInv => WindowIsCurrent
<1> SUFFICES ASSUME IInv, step \in {"last", "two", "three", "four", "remove"}
             PROVE  /\ \A i \in {j \in 0 .. 3 : pipe[j].insn # 0} :
                          /\ pipe[i].insn \in DOMAIN reloc[section]
                          /\ pipe[i].addr = address[section] + reloc[section][pipe[i].insn]
                    /\ pass = "pagesel" =>
                          \A i \in 0 .. 2 : pipe[i + 1].insn # 0 =>
                              pipe[i + 1].addr + pipe[i + 1].len = pipe[i].addr
  BY DEF WindowIsCurrent
<1>1. step # "enter" /\ step # "analyze"
  OBVIOUS
<1>2. Shows(Code(section), reloc[section], address[section], pipe)
  BY <1>1 DEF IInv, WindowIsRight
<1>3. pass = "pagesel" => Gapless(pipe, 0)
  BY <1>1 DEF IInv, NoGaps
<1>4. QED
  BY <1>2, <1>3 DEF Shows, EntryIs, Gapless

\* However many selections are deleted, and in whatever order the window
\* chooses them, a relocation that is left points to the first word of its
\* instruction, and only whole selections are gone from the code
\* (_destroy_insn_and_update_addr).
THEOREM CodeFollows == Spec => []CodeAndRelocationsAgree
<1>1. IInv => CodeAndRelocationsAgree
  BY CodeAndRelocations
<1>2. QED
  BY <1>1, Invariance, PTL

\* The addresses that the window keeps of older relocations are those of the
\* code as it is now, and for pagesel nothing lies between two of its entries,
\* although deletions move both (reloc_pipe).
THEOREM WindowFollows == Spec => []WindowIsCurrent
<1>1. IInv => WindowIsCurrent
  BY WindowFacts
<1>2. QED
  BY <1>1, Invariance, PTL

\* Sections of a page that move down behind a deletion never meet, change their
\* order or leave the page, and every variable keeps its type.
THEOREM SectionsFollow == Spec => []SectionsStayApart
<1>1. IInv => SectionsStayApart
  BY DEF IInv, Apart, SectionsStayApart
<1>2. QED
  BY <1>1, Invariance, PTL

-----------------------------------------------------------------------------
(***************************************************************************)
(* Labels move with their sections.                                        *)
(***************************************************************************)
LEMMA DestroyMovesLabels ==
    ASSUME NEW i, NEW other, Given(i, other), NEW s \in Sections, address'[s] # address[s],
           NEW l \in ToSet(array[s]), address[s] <= value[l]
    PROVE  value'[l] - address'[s] = value[l] - address[s]
<1>1. IInv /\ address[s] \in Nat /\ pipe[i].len \in Nat /\ array[s] \in Seq(Labels)
      /\ value \in [Labels -> Int]
  BY GivenFacts DEF Given, IInv, TypeOK
<1>2. s \in SectionsBehind /\ address'[s] = address[s] - pipe[i].len
  BY DestroySections
<1>3. l \in Labels
  BY <1>1 DEF ToSet
<1>4. value[l] \in Int /\ value[l] >= address[s]
  BY <1>1, <1>3
<1>5. PICK byArray \in SUBSET Labels, byReloc \in SUBSET Labels :
              /\ moved' \subseteq Labels
              /\ value' = [m \in Labels |-> value[m] - (IF m \in byArray THEN pipe[i].len ELSE 0)
                                                     - (IF m \in byReloc THEN pipe[i].len ELSE 0)]
              /\ \A t \in SectionsBehind : \A m \in ToSet(array[t]) :
                    value[m] >= address[t] => m \in byArray /\ m \notin byReloc
              /\ array' \in [Sections -> Seq(Labels)]
  BY DestroyLabels, Zenon
<1>6. l \in byArray /\ l \notin byReloc
  BY <1>2, <1>4, <1>5
<1>7. value'[l] = value[l] - pipe[i].len
  BY <1>1, <1>3, <1>4, <1>5, <1>6
<1>8. QED
  BY <1>1, <1>2, <1>4, <1>7

\* A label inside a section that moves goes with it, exactly once, although the
\* labels are found by the arrays of the sections and again by the relocations
\* (_destroy_insn_and_update_addr, OPT_FLAGS_GPCOFFOPT_MODULE).
THEOREM LabelsFollowSections == Spec => LabelsMoveWithSections
<1> DEFINE Along == \A s \in Sections : address'[s] # address[s] =>
                        \A l \in ToSet(array[s]) :
                            address[s] <= value[l] =>
                                value'[l] - address'[s] = value[l] - address[s]
<1>1. IInv /\ [Next]_vars => [Along]_vars
  <2> SUFFICES ASSUME IInv, Next PROVE Along
    OBVIOUS
  <2>1. ASSUME address' = address PROVE Along
    BY <2>1
  <2>2. ASSUME NEW i, NEW other, Given(i, other) PROVE Along
    BY <2>2, DestroyMovesLabels
  <2> HIDE DEF Along
  <2>3. CASE EnterSection \/ EndPass
    BY <2>1, <2>3 DEF EnterSection, EndPass
  <2>4. CASE AnalyzePagesel \/ ProtectSecond \/ Shift \/ AnalyzeBanksel
    BY <2>1, <2>4 DEF AnalyzePagesel, ProtectSecond, Shift, AnalyzeBanksel, image
  <2>5. CASE RuleAtEnd
    <3>1. step = "last" /\ UNCHANGED <<object, section>>
      BY <2>5 DEF RuleAtEnd
    <3>2. CASE \E i \in UselessAtEnd : Destroy(i)
      BY <2>2, <3>1, <3>2, AtEndGives
    <3>3. CASE UNCHANGED image
      BY <2>1, <3>3 DEF image
    <3>4. QED
      BY <2>5, <3>2, <3>3 DEF RuleAtEnd
  <2>6. ASSUME NEW found, found \subseteq UselessOfTwo \cup UselessOfThree \cup UselessOfFour,
               NEW next, step # "enter", Rule(found, next)
        PROVE  Along
    <3>1. UNCHANGED <<object, section>>
      BY <2>6 DEF Rule
    <3>2. CASE \E i \in found : Destroy(i)
      BY <2>2, <2>6, <3>1, <3>2, FoundGives
    <3>3. CASE UNCHANGED image
      BY <2>1, <3>3 DEF image
    <3>4. QED
      BY <2>6, <3>2, <3>3 DEF Rule
  <2>7. CASE RuleOfTwo \/ RuleOfThree \/ RuleOfFour
    BY <2>6, <2>7 DEF RuleOfTwo, RuleOfThree, RuleOfFour
  <2>8. CASE RemoveBanksel
    <3>1. step # "enter" /\ UNCHANGED <<object, section>>
      BY <2>8 DEF RemoveBanksel
    <3>2. CASE \E i \in UselessBanksel : Destroy(i)
      BY <2>2, <3>1, <3>2, BankselGives
    <3>3. CASE UNCHANGED image
      BY <2>1, <3>3 DEF image
    <3>4. QED
      BY <2>8, <3>2, <3>3 DEF RemoveBanksel
  <2>9. QED
    BY <2>3, <2>4, <2>5, <2>7, <2>8 DEF Next
<1>2. QED
  BY <1>1, Invariance, PTL DEF Spec, LabelsMoveWithSections
=============================================================================
