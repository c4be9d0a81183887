---------------------------- MODULE CoffMergeProofs ----------------------------
(***************************************************************************)
(* What laying, joining and copying sections keeps, for all objects: the   *)
(* bytes, what the symbols and relocations stand for, and the table of     *)
(* initialised data.                                                       *)
(***************************************************************************)
EXTENDS CoffMerge, SequenceTheorems, FiniteSetTheorems, WellFoundedInduction, TLAPS

(***************************************************************************)
(* Sequences.                                                              *)
(***************************************************************************)
LEMMA LeastOf ==
    ASSUME NEW S \in SUBSET Nat, S # {}
    PROVE  \E x \in S : \A y \in S : x <= y
<1>1. \A x, y \in Nat : <<y, x>> \in OpToRel(<, Nat) <=> y < x
  BY DEF OpToRel
<1>2. PICK x \in S : \A y \in S : ~(<<y, x>> \in OpToRel(<, Nat))
  BY NatLessThanWellFounded, WFMin
<1>3. ASSUME NEW y \in S PROVE x <= y
  <2>1. x \in Nat /\ y \in Nat
    OBVIOUS
  <2>2. ~(y < x)
    BY <1>1, <1>2, <2>1
  <2>3. QED
    BY <2>1, <2>2
<1>4. QED
  BY <1>3

\* The nearest pair is one of the pairs.
LEMMA NearestIs ==
    ASSUME NEW S \in SUBSET Nat, S # {}
    PROVE  Nearest(S) \in S /\ \A j \in S : Nearest(S) <= j
BY LeastOf DEF Nearest

\* RemoveAt takes one element off the list.
LEMMA Removed ==
    ASSUME NEW S, NEW l \in Seq(S), NEW j \in DOMAIN l,
           \A p, q \in DOMAIN l : l[p] = l[q] => p = q
    PROVE  LET r == RemoveAt(l, j)
           IN  /\ r \in Seq(S)
               /\ \A p, q \in DOMAIN r : r[p] = r[q] => p = q
               /\ Range(r) = Range(l) \ {l[j]}
<1> DEFINE r == RemoveAt(l, j)
<1>1. r = SubSeq(l, 1, j - 1) \o SubSeq(l, j + 1, Len(l))
  BY DEF RemoveAt
<1>2. j \in 1 .. Len(l) /\ DOMAIN l = 1 .. Len(l) /\ Len(l) \in Nat
  OBVIOUS
<1>3. /\ r \in Seq(S)
      /\ Len(r) = Len(l) - 1
      /\ \A k \in 1 .. Len(r) : r[k] = IF k < j THEN l[k] ELSE l[k + 1]
  <2>1. PICK a : a = SubSeq(l, 1, j - 1)
    OBVIOUS
  <2>2. PICK b : b = SubSeq(l, j + 1, Len(l))
    OBVIOUS
  <2>3. /\ a \in Seq(S) /\ Len(a) = j - 1
        /\ \A k \in 1 .. j - 1 : a[k] = l[k]
    BY <1>2, <2>1
  <2>4. /\ b \in Seq(S) /\ Len(b) = Len(l) - j
        /\ \A k \in 1 .. Len(l) - j : b[k] = l[j + k]
    BY <1>2, <2>2
  <2>5. r = a \o b
    BY <1>1, <2>1, <2>2
  <2> HIDE DEF r
  <2>6. r \in Seq(S) /\ Len(r) = Len(l) - 1
    <3>1. a \o b \in Seq(S) /\ Len(a \o b) = Len(a) + Len(b)
      BY <2>3, <2>4
    <3>2. (j - 1) + (Len(l) - j) = Len(l) - 1
      BY <1>2
    <3>3. QED
      BY <2>3, <2>4, <2>5, <3>1, <3>2
  <2>7. ASSUME NEW k \in 1 .. Len(r) PROVE r[k] = IF k < j THEN l[k] ELSE l[k + 1]
    <3>1. k \in Nat /\ k <= Len(l) - 1
      BY <1>2, <2>6
    <3>2. CASE k < j
      <4>1. k \in 1 .. Len(a) /\ k \in 1 .. j - 1
        BY <1>2, <2>3, <3>1, <3>2
      <4>2. r[k] = a[k]
        BY <2>3, <2>4, <2>5, <4>1
      <4>3. QED
        BY <2>3, <3>2, <4>1, <4>2
    <3>3. CASE ~(k < j)
      <4>1. k - Len(a) \in 1 .. Len(l) - j /\ j + (k - Len(a)) = k + 1
        BY <1>2, <2>3, <3>1, <3>3
      <4>2. r[k] = b[k - Len(a)]
        BY <1>2, <2>3, <2>4, <2>5, <3>1, <3>3
      <4>3. QED
        BY <2>4, <3>3, <4>1, <4>2
    <3>4. QED
      BY <3>2, <3>3
  <2>8. QED
    BY <2>6, <2>7
<1> HIDE DEF r
<1>4. DOMAIN r = 1 .. Len(r)
  BY <1>3
<1>5. ASSUME NEW p \in DOMAIN r, NEW q \in DOMAIN r, r[p] = r[q] PROVE p = q
  <2>1. p \in 1 .. Len(r) /\ q \in 1 .. Len(r)
    BY <1>4
  <2> DEFINE pp == IF p < j THEN p ELSE p + 1
             qq == IF q < j THEN q ELSE q + 1
  <2>2. pp \in DOMAIN l /\ qq \in DOMAIN l /\ r[p] = l[pp] /\ r[q] = l[qq]
    BY <1>2, <1>3, <2>1
  <2>3. pp = qq
    BY <1>5, <2>2
  <2>4. QED
    BY <1>2, <2>1, <2>3
<1>6. ASSUME NEW x \in Range(r) PROVE x \in Range(l) /\ x # l[j]
  <2>1. PICK p \in DOMAIN r : x = r[p]
    BY DEF Range
  <2>2. p \in 1 .. Len(r)
    BY <1>4
  <2> DEFINE pp == IF p < j THEN p ELSE p + 1
  <2>3. pp \in DOMAIN l /\ r[p] = l[pp] /\ pp # j
    BY <1>2, <1>3, <2>2
  <2>4. QED
    BY <2>1, <2>3 DEF Range
<1>7. ASSUME NEW x \in Range(l), x # l[j] PROVE x \in Range(r)
  <2>1. PICK p \in DOMAIN l : x = l[p]
    BY DEF Range
  <2>2. p # j /\ p \in 1 .. Len(l)
    BY <1>7, <2>1
  <2> DEFINE pp == IF p < j THEN p ELSE p - 1
  <2>3. pp \in 1 .. Len(r) /\ r[pp] = l[p]
    BY <1>2, <1>3, <2>2
  <2>4. QED
    BY <1>4, <2>1, <2>3 DEF Range
<1>8. QED
  BY <1>3, <1>5, <1>6, <1>7 DEF r

\* What holds at 1 and goes on from each number to the next holds up to L.
LEMMA GoesOn ==
    ASSUME NEW L \in Nat, NEW Good,
           1 \in 1 .. L => 1 \in Good,
           \A n \in 1 .. L : (n # 1 /\ n - 1 \in Good) => n \in Good
    PROVE  \A n \in 1 .. L : n \in Good
<1> DEFINE Bad == (1 .. L) \ Good
<1>1. SUFFICES ASSUME Bad # {} PROVE FALSE
  OBVIOUS
<1>2. Bad \in SUBSET Nat
  OBVIOUS
<1>3. PICK n \in Bad : \A k \in Bad : n <= k
  BY <1>1, <1>2, LeastOf
<1>4. n \in 1 .. L /\ n \notin Good /\ n \in Nat
  BY <1>2
<1>5. n # 1
  BY <1>4
<1>6. n - 1 \in 1 .. L /\ ~(n <= n - 1)
  BY <1>4, <1>5
<1>7. n - 1 \notin Bad
  BY <1>3, <1>6
<1>8. n - 1 \in Good
  BY <1>6, <1>7
<1>9. QED
  BY <1>4, <1>5, <1>8

\* A table of what FlattenSeq has put together after 1 .. n parts.
IsTable(q, f, n) == f = [i \in 1 .. n |-> IF i = 1 THEN q[i] ELSE f[i - 1] \o q[i]]

LEMMA TableRows ==
    ASSUME NEW q, NEW f, NEW n, IsTable(q, f, n)
    PROVE  /\ DOMAIN f = 1 .. n
           /\ \A i \in 1 .. n : f[i] = IF i = 1 THEN q[i] ELSE f[i - 1] \o q[i]
<1>1. PICK r : r = [i \in 1 .. n |-> IF i = 1 THEN q[i] ELSE f[i - 1] \o q[i]]
  OBVIOUS
<1>2. f = r
  BY <1>1 DEF IsTable
<1>3. QED
  BY <1>1, <1>2

LEMMA TableExists ==
    ASSUME NEW q, NEW L \in Nat
    PROVE  \A n \in 1 .. L : \E f : IsTable(q, f, n)
<1> DEFINE Good == {n \in 1 .. L : \E f : IsTable(q, f, n)}
<1>1. ASSUME 1 \in 1 .. L PROVE 1 \in Good
  <2>1. PICK f : f = [i \in 1 .. 1 |-> q[1]]
    OBVIOUS
  <2>2. PICK r : r = [i \in 1 .. 1 |-> IF i = 1 THEN q[i] ELSE f[i - 1] \o q[i]]
    OBVIOUS
  <2>3. \A i \in 1 .. 1 : i = 1 /\ f[i] = r[i]
    BY <2>1, <2>2
  <2>4. f = r
    BY <2>1, <2>2, <2>3
  <2>5. IsTable(q, f, 1)
    BY <2>2, <2>4 DEF IsTable
  <2>6. QED
    BY <1>1, <2>5
<1>2. ASSUME NEW n \in 1 .. L, n # 1, n - 1 \in Good PROVE n \in Good
  <2>1. PICK f : IsTable(q, f, n - 1)
    BY <1>2
  <2>2. n \in Nat /\ n - 1 \in 1 .. n - 1 /\ 1 \in 1 .. n - 1
    BY <1>2
  <2>3. \A i \in 1 .. n - 1 : f[i] = IF i = 1 THEN q[i] ELSE f[i - 1] \o q[i]
    BY <2>1, TableRows
  <2>4. PICK g : g = [i \in 1 .. n |-> IF i = n THEN f[n - 1] \o q[n] ELSE f[i]]
    OBVIOUS
  <2>5. PICK h : h = [i \in 1 .. n |-> IF i = 1 THEN q[i] ELSE g[i - 1] \o q[i]]
    OBVIOUS
  <2>6. ASSUME NEW i \in 1 .. n - 1 PROVE g[i] = f[i]
    BY <2>2, <2>4
  <2>7. ASSUME NEW i \in 1 .. n PROVE g[i] = h[i]
    <3>1. CASE i = n
      <4>1. g[i] = f[n - 1] \o q[n]
        BY <2>4, <3>1
      <4>2. h[i] = g[n - 1] \o q[n]
        BY <1>2, <2>5, <3>1
      <4>3. QED
        BY <2>2, <2>6, <4>1, <4>2
    <3>2. CASE i = 1
      <4>1. g[i] = q[1]
        BY <2>2, <2>3, <2>6, <3>2
      <4>2. QED
        BY <2>5, <3>2, <4>1
    <3>3. CASE i # n /\ i # 1
      <4>1. i \in 1 .. n - 1 /\ i - 1 \in 1 .. n - 1
        BY <2>2, <3>3
      <4>2. g[i] = f[i - 1] \o q[i]
        BY <2>3, <2>6, <3>3, <4>1
      <4>3. h[i] = g[i - 1] \o q[i]
        BY <2>5, <3>3
      <4>4. QED
        BY <2>6, <4>1, <4>2, <4>3
    <3>4. QED
      BY <3>1, <3>2, <3>3
  <2>8. g = h
    BY <2>4, <2>5, <2>7
  <2>9. IsTable(q, g, n)
    BY <2>5, <2>8 DEF IsTable
  <2>10. QED
    BY <2>9
<1>3. \A n \in 1 .. L : n \in Good
  <2> HIDE DEF Good
  <2>1. QED
    BY <1>1, <1>2, GoesOn
<1>4. QED
  BY <1>3

\* A sequence s is the first n parts behind each other: off[i] elements come
\* from the first i of them.
InOrder(q, s, n, off) ==
    /\ off \in [0 .. n -> Nat]
    /\ off[0] = 0
    /\ off[n] = Len(s)
    /\ \A i \in 1 .. n : off[i] = off[i - 1] + Len(q[i]) /\ off[i] <= off[n]
    /\ \A i \in 1 .. n : \A m \in 1 .. Len(q[i]) : s[off[i - 1] + m] = q[i][m]
    /\ \A p \in 1 .. off[n] : \E i \in 1 .. n : \E m \in 1 .. Len(q[i]) : p = off[i - 1] + m

LEMMA FirstInOrder ==
    ASSUME NEW S, NEW q, NEW s \in Seq(S), s = q[1]
    PROVE  \E off : InOrder(q, s, 1, off)
<1>1. PICK off : off = [i \in 0 .. 1 |-> IF i = 0 THEN 0 ELSE Len(s)]
  OBVIOUS
<1>2. off \in [0 .. 1 -> Nat] /\ off[0] = 0 /\ off[1] = Len(s) /\ Len(s) \in Nat
  BY <1>1
<1>3. \A i \in 1 .. 1 : i = 1 /\ off[i - 1] = 0
  BY <1>2
<1>4. \A i \in 1 .. 1 : off[i] = off[i - 1] + Len(q[i]) /\ off[i] <= off[1]
  BY <1>2, <1>3
<1>5. \A i \in 1 .. 1 : \A m \in 1 .. Len(q[i]) : s[off[i - 1] + m] = q[i][m]
  BY <1>2, <1>3
<1>6. \A p \in 1 .. off[1] : \E i \in 1 .. 1 : \E m \in 1 .. Len(q[i]) : p = off[i - 1] + m
  <2>1. 1 \in 1 .. 1 /\ off[1 - 1] = 0
    BY <1>2
  <2>2. QED
    BY <1>2, <2>1
<1>7. QED
  BY <1>2, <1>4, <1>5, <1>6 DEF InOrder

LEMMA NextInOrder ==
    ASSUME NEW S, NEW q, NEW n \in Nat, n # 0, n # 1,
           NEW s \in Seq(S), NEW old, InOrder(q, s, n - 1, old),
           \A i \in 1 .. n : Len(q[i]) \in Nat, q[n] \in Seq(S)
    PROVE  \E off : InOrder(q, s \o q[n], n, off)
<1>1. /\ old \in [0 .. n - 1 -> Nat]
      /\ old[0] = 0
      /\ old[n - 1] = Len(s)
      /\ \A i \in 1 .. n - 1 : old[i] = old[i - 1] + Len(q[i]) /\ old[i] <= old[n - 1]
      /\ \A i \in 1 .. n - 1 : \A m \in 1 .. Len(q[i]) : s[old[i - 1] + m] = q[i][m]
      /\ \A p \in 1 .. old[n - 1] : \E i \in 1 .. n - 1 : \E m \in 1 .. Len(q[i]) : p = old[i - 1] + m
  BY DEF InOrder
<1>2. PICK a : a = q[n]
  OBVIOUS
<1>3. a \in Seq(S) /\ Len(a) \in Nat /\ Len(s) \in Nat /\ n - 1 \in Nat
  BY <1>2
<1>4. PICK t : t = s \o a
  OBVIOUS
<1>5. /\ t \in Seq(S) /\ Len(t) = Len(s) + Len(a)
      /\ \A k \in 1 .. Len(s) : t[k] = s[k]
      /\ \A m \in 1 .. Len(a) : t[Len(s) + m] = a[m]
  BY <1>3, <1>4
<1>6. PICK off : off = [i \in 0 .. n |-> IF i = n THEN Len(t) ELSE old[i]]
  OBVIOUS
<1>7. /\ \A i \in 0 .. n - 1 : i \in 0 .. n /\ i # n
      /\ \A i \in 0 .. n : i # n => i \in 0 .. n - 1
      /\ n - 1 \in 0 .. n - 1 /\ 0 \in 0 .. n - 1 /\ n \in 0 .. n
      /\ \A i \in 1 .. n : i # n => i \in 1 .. n - 1 /\ i \in 0 .. n - 1 /\ i - 1 \in 0 .. n - 1
      /\ \A i \in 1 .. n - 1 : i \in 1 .. n /\ i \in 0 .. n - 1 /\ i - 1 \in 0 .. n - 1
  BY <1>3
<1>8. \A i \in 0 .. n - 1 : off[i] = old[i] /\ old[i] \in Nat
  BY <1>1, <1>6, <1>7
<1>9. off[n] = Len(t) /\ Len(t) \in Nat
  BY <1>3, <1>5, <1>6, <1>7
<1>10. off \in [0 .. n -> Nat]
  <2>1. \A i \in 0 .. n : off[i] \in Nat
    BY <1>7, <1>8, <1>9
  <2>2. QED
    BY <1>6, <2>1
<1>11. off[0] = 0
  BY <1>1, <1>7, <1>8
<1>12. ASSUME NEW i \in 1 .. n PROVE off[i] = off[i - 1] + Len(q[i]) /\ off[i] <= off[n]
  <2>1. CASE i = n
    <3>1. off[i - 1] = Len(s)
      BY <1>1, <1>7, <1>8, <2>1
    <3>2. QED
      BY <1>2, <1>3, <1>5, <1>9, <2>1, <3>1
  <2>2. CASE i # n
    <3>1. off[i] = old[i] /\ off[i - 1] = old[i - 1] /\ old[i] \in Nat
      BY <1>7, <1>8, <2>2
    <3>2. old[i] = old[i - 1] + Len(q[i]) /\ old[i] <= Len(s)
      BY <1>1, <1>7, <2>2
    <3>3. QED
      BY <1>3, <1>5, <1>9, <3>1, <3>2
  <2>3. QED
    BY <2>1, <2>2
<1>13. ASSUME NEW i \in 1 .. n, NEW m \in 1 .. Len(q[i]) PROVE t[off[i - 1] + m] = q[i][m]
  <2>1. CASE i = n
    <3>1. off[i - 1] = Len(s)
      BY <1>1, <1>7, <1>8, <2>1
    <3>2. QED
      BY <1>2, <1>5, <2>1, <3>1
  <2>2. CASE i # n
    <3>1. off[i] = old[i] /\ off[i - 1] = old[i - 1] /\ old[i] \in Nat /\ old[i - 1] \in Nat
      BY <1>7, <1>8, <2>2
    <3>2. old[i] = old[i - 1] + Len(q[i]) /\ old[i] <= Len(s)
      BY <1>1, <1>7, <2>2
    <3>3. Len(q[i]) \in Nat /\ m \in Nat /\ m >= 1 /\ m <= Len(q[i])
      OBVIOUS
    <3>4. old[i - 1] + m \in 1 .. Len(s)
      BY <1>3, <3>1, <3>2, <3>3
    <3>5. s[old[i - 1] + m] = q[i][m]
      BY <1>1, <1>7, <2>2
    <3>6. QED
      BY <1>5, <3>1, <3>4, <3>5
  <2>3. QED
    BY <2>1, <2>2
<1>14. ASSUME NEW p \in 1 .. off[n]
       PROVE  \E i \in 1 .. n : \E m \in 1 .. Len(q[i]) : p = off[i - 1] + m
  <2>1. CASE p <= Len(s)
    <3>1. p \in 1 .. old[n - 1]
      BY <1>1, <1>3, <1>9, <2>1
    <3>2. PICK i \in 1 .. n - 1 : \E m \in 1 .. Len(q[i]) : p = old[i - 1] + m
      BY <1>1, <3>1
    <3>3. i \in 1 .. n /\ off[i - 1] = old[i - 1]
      BY <1>7, <1>8
    <3>4. QED
      BY <3>2, <3>3
  <2>2. CASE ~(p <= Len(s))
    <3>1. p - Len(s) \in 1 .. Len(a) /\ p = Len(s) + (p - Len(s))
      BY <1>3, <1>5, <1>9, <2>2
    <3>2. off[n - 1] = Len(s) /\ n \in 1 .. n
      BY <1>1, <1>3, <1>7, <1>8
    <3>3. QED
      BY <1>2, <3>1, <3>2
  <2>3. QED
    BY <2>1, <2>2
<1>15. InOrder(q, t, n, off)
  BY <1>9, <1>10, <1>11, <1>12, <1>13, <1>14 DEF InOrder
<1>16. QED
  BY <1>2, <1>4, <1>15

\* FlattenSeq puts the parts behind each other.
LEMMA Flattened ==
    ASSUME NEW S, NEW q \in Seq(Seq(S))
    PROVE  /\ FlattenSeq(q) \in Seq(S)
           /\ \E off : InOrder(q, FlattenSeq(q), Len(q), off)
<1>1. Len(q) \in Nat /\ \A i \in 1 .. Len(q) : q[i] \in Seq(S) /\ Len(q[i]) \in Nat
  OBVIOUS
<1>2. CASE Len(q) = 0
  <2>1. q = << >> /\ FlattenSeq(q) = << >>
    BY <1>2 DEF FlattenSeq
  <2>2. PICK off : off = [i \in 0 .. 0 |-> 0]
    OBVIOUS
  <2>3. off \in [0 .. 0 -> Nat] /\ off[0] = 0
    BY <2>2
  <2>4. InOrder(q, << >>, 0, off)
    BY <2>3 DEF InOrder
  <2>5. FlattenSeq(q) \in Seq(S)
    <3>1. << >> \in Seq(S)
      OBVIOUS
    <3>2. QED
      BY <2>1, <3>1
  <2>6. InOrder(q, FlattenSeq(q), Len(q), off)
    BY <1>2, <2>1, <2>4
  <2>7. QED
    BY <2>5, <2>6
<1>3. CASE Len(q) # 0
  <2>1. Len(q) \in 1 .. Len(q) /\ 1 \in 1 .. Len(q)
    BY <1>1, <1>3
  <2>2. \E f : IsTable(q, f, Len(q))
    BY <1>1, <2>1, TableExists
  <2>3. PICK t : t = CHOOSE f : IsTable(q, f, Len(q))
    OBVIOUS
  <2>4. IsTable(q, t, Len(q))
    BY <2>2, <2>3
  <2>5. FlattenSeq(q) = t[Len(q)]
    BY <1>3, <2>3 DEF FlattenSeq, IsTable
  <2>6. \A i \in 1 .. Len(q) : t[i] = IF i = 1 THEN q[i] ELSE t[i - 1] \o q[i]
    BY <2>4, TableRows
  <2> DEFINE Good == {n \in 1 .. Len(q) : t[n] \in Seq(S) /\ \E off : InOrder(q, t[n], n, off)}
  <2>7. 1 \in Good
    <3>1. t[1] = q[1] /\ t[1] \in Seq(S)
      BY <1>1, <2>1, <2>6
    <3>2. QED
      BY <2>1, <3>1, FirstInOrder
  <2>8. ASSUME NEW n \in 1 .. Len(q), n # 1, n - 1 \in Good PROVE n \in Good
    <3>1. n \in Nat /\ n # 0 /\ \A i \in 1 .. n : i \in 1 .. Len(q)
      BY <1>1
    <3>2. t[n] = t[n - 1] \o q[n] /\ t[n - 1] \in Seq(S) /\ q[n] \in Seq(S)
      BY <1>1, <2>6, <2>8
    <3>3. PICK old : InOrder(q, t[n - 1], n - 1, old)
      BY <2>8
    <3>4. \A i \in 1 .. n : Len(q[i]) \in Nat
      BY <1>1, <3>1
    <3>5. \E off : InOrder(q, t[n - 1] \o q[n], n, off)
      BY <2>8, <3>1, <3>2, <3>3, <3>4, NextInOrder
    <3>6. t[n] \in Seq(S)
      BY <3>2
    <3>7. QED
      BY <3>2, <3>5, <3>6
  <2>9. \A n \in 1 .. Len(q) : n \in Good
    <3> HIDE DEF Good
    <3>1. QED
      BY <1>1, <2>7, <2>8, GoesOn
  <2>10. QED
    BY <2>1, <2>5, <2>9
<1>4. QED
  BY <1>2, <1>3

-----------------------------------------------------------------------------
(***************************************************************************)
(* The invariant.                                                          *)
(***************************************************************************)
Early == phase \in {"overlay", "merge", "idata", "exit"}
Late  == phase \in {"table", "patch", "done"}

\* A section is on the list once.  One that was taken off is empty and nobody
\* refers to it; copies come late.
Listed ==
    /\ \A i, j \in DOMAIN list : list[i] = list[j] => i = j
    /\ Early => Range(list) \subseteq Given
    /\ \A s \in Given : s \notin Range(list) => cells[s] = <<>>
    /\ \A s \in Given : /\ symbol[s].section \in Given
                        /\ symbol[s].section \in Range(list)
                        /\ SameName(s, symbol[s].section)

\* No two cells of the sections hold the same byte, and none is lost.
Kept ==
    /\ \A t, u \in Given : \A n \in DOMAIN cells[t] : \A m \in DOMAIN cells[u] :
          cells[t][n] \cap cells[u][m] # {} => t = u /\ n = m
    /\ \A s \in Given : \A k \in 0 .. object.sections[s].size - 1 :
          \E t \in Given : \E n \in DOMAIN cells[t] : <<s, k>> \in cells[t][n]

\* Overlaying leaves a byte at its offset in a section that matches its own.
Overlapping ==
    phase = "overlay" =>
        /\ \A t \in Given : \A n \in DOMAIN cells[t] : \A b \in cells[t][n] :
              /\ SameName(b[1], t)
              /\ FlagsOf(b[1]) = FlagsOf(t)
              /\ b[2] = n - 1
        /\ \A s \in Given : reloc[s].section = s

\* Sections of code that agree stay whole words long.
WholeWords ==
    (Agreed /\ ~object.pic16e) =>
        \A s \in Given : TypeOf(s) = "code" => SizeOf(s) % 2 = 0

\* After the joining there is one section of a name.
Joined ==
    (Late \/ phase = "idata") =>
        \A s, t \in Given \cap Range(list) : SameName(s, t) => s = t

\* Behind every section of initialised data stands its copy.
Copied ==
    Late =>
        /\ \A i \in DOMAIN list : list[i] \in InitData =>
              i + 1 \in DOMAIN list /\ list[i + 1] = Copy(list[i])
        /\ \A s \in Range(list) : s \notin Given =>
              s = Cinit \/ (s - N \in InitData /\ s = Copy(s - N))
        /\ \A s \in InitData : cells[Copy(s)] = CopiedCells(cells[s])

\* The table has one entry for each of them.
Tabled ==
    phase \in {"patch", "done"} =>
        /\ \A s \in InitData : \E e \in DOMAIN table : table[e].to = s
        /\ \A e \in DOMAIN table :
              /\ table[e].to \in InitData
              /\ table[e].from = Find(CopyName(NameOf(table[e].to)))
              /\ table[e].size = SizeOf(table[e].to)
        /\ \A d, e \in DOMAIN table : table[d].to = table[e].to => d = e

IInv ==
    /\ object \in Input
    /\ TypeOK
    /\ Listed
    /\ Kept
    /\ OnlyOverlaysShare
    /\ Overlapping
    /\ WholeWords
    /\ ReferencesFollowTheirBytes
    /\ Joined
    /\ Copied
    /\ Tabled
    /\ CopiesArePatched

(***************************************************************************)
(* Facts about every object.                                               *)
(***************************************************************************)
LEMMA ObjectFacts ==
    ASSUME object \in Input
    PROVE  /\ object \in ObjectType
           /\ N \in Nat
           /\ Given = 1 .. N
           /\ object.pic16e \in BOOLEAN
           /\ \A s \in Given :
                 /\ object.sections[s].name \in Name
                 /\ FlagsOf(s).type \in {"code", "udata", "idata"}
                 /\ FlagsOf(s).overlay \in BOOLEAN
                 /\ object.sections[s].size \in Nat
                 /\ object.sections[s].label \in Nat
                 /\ object.sections[s].ref \in Nat
                 /\ object.sections[s].name # CinitName
                 /\ FlagsOf(s).overlay => FlagsOf(s).type = "udata"
                 /\ (FlagsOf(s).type = "code" /\ ~object.pic16e) =>
                       object.sections[s].size % 2 = 0 /\ object.sections[s].label % 2 = 0
<1>1. object \in ObjectType
  BY InputAssumption
<1>2. object.sections \in Seq(Section) /\ object.pic16e \in BOOLEAN
  BY <1>1 DEF ObjectType
<1>3. N \in Nat /\ Given = 1 .. N
  BY <1>2 DEF N, Given
<1>4. \A s \in Given : object.sections[s] \in Section
  BY <1>2 DEF Given
<1>5. ASSUME NEW s \in Given
      PROVE  /\ object.sections[s].name \in Name
             /\ FlagsOf(s).type \in {"code", "udata", "idata"}
             /\ FlagsOf(s).overlay \in BOOLEAN
             /\ object.sections[s].size \in Nat
             /\ object.sections[s].label \in Nat
             /\ object.sections[s].ref \in Nat
  BY <1>4 DEF Section, Flags, FlagsOf
<1>6. ASSUME NEW s \in Given
      PROVE  /\ object.sections[s].name # CinitName
             /\ FlagsOf(s).overlay => FlagsOf(s).type = "udata"
             /\ (FlagsOf(s).type = "code" /\ ~object.pic16e) =>
                   object.sections[s].size % 2 = 0 /\ object.sections[s].label % 2 = 0
  <2>1. s \in DOMAIN object.sections
    BY DEF Given
  <2>2. QED
    BY <2>1, InputAssumption DEF FlagsOf
<1>7. QED
  BY <1>1, <1>2, <1>3, <1>5, <1>6

LEMMA IdFacts ==
    ASSUME object \in Input
    PROVE  /\ Given \subseteq Ids
           /\ Cinit \in Ids /\ Cinit \notin Given
           /\ \A s \in Given : /\ s \in Nat
                               /\ Copy(s) \in Ids /\ Copy(s) \notin Given /\ Copy(s) # Cinit
                               /\ Copy(s) - N = s
                               /\ s - N \notin Given
           /\ Cinit - N \notin Given
           /\ \A s \in Ids : s \in Int
<1>1. N \in Nat /\ Given = 1 .. N
  BY ObjectFacts
<1>2. Ids = 1 .. 2 * N + 1 /\ Cinit = 2 * N + 1
  BY DEF Ids, Cinit
<1>3. \A s : Copy(s) = N + s
  BY DEF Copy
<1>4. QED
  BY <1>1, <1>2, <1>3

LEMMA TypeFacts ==
    ASSUME object \in Input, NEW s \in Given
    PROVE  TypeOf(s) = FlagsOf(s).type /\ NameOf(s) = object.sections[s].name
BY DEF TypeOf, NameOf

\* The table is filled by names: the names of copies and of .cinit.
LEMMA CopyNames ==
    ASSUME object \in Input, NEW s \in Given
    PROVE  /\ NameOf(Copy(s)) = CopyName(object.sections[s].name)
           /\ NameOf(Copy(s)) # CinitName
           /\ NameOf(Cinit) = CinitName
           /\ TypeOf(Copy(s)) = "rom" /\ TypeOf(Cinit) = "rom"
<1>1. NameOf(Copy(s)) = CopyName(object.sections[s].name)
  BY IdFacts DEF NameOf
<1>2. NameOf(Cinit) = CinitName
  BY IdFacts DEF NameOf
<1>3. object.sections[s].name[2] \in Nat
  BY ObjectFacts DEF Name
<1>4. CopyName(object.sections[s].name)[2] = object.sections[s].name[2] + 1
  BY DEF CopyName
<1>5. CinitName[2] = 0
  BY DEF CinitName
<1>6. CopyName(object.sections[s].name) # CinitName
  BY <1>3, <1>4, <1>5
<1>7. QED
  BY <1>1, <1>2, <1>6, IdFacts DEF TypeOf

LEMMA InUnitsIsNat ==
    ASSUME NEW n \in Nat, NEW type
    PROVE  InUnits(type, n) \in Nat
<1>1. n \div 2 \in Nat
  OBVIOUS
<1>2. QED
  BY <1>1 DEF InUnits

\* A whole number of words survives the change of unit, and so does its sum.
LEMMA UnitsAndBack ==
    ASSUME object \in Input, NEW type, NEW n \in Nat, NEW v \in Nat,
           (type \in {"code", "rom"} /\ ~object.pic16e) => n % 2 = 0
    PROVE  /\ InBytes(type, InUnits(type, n)) = n
           /\ InBytes(type, v + InUnits(type, n)) = InBytes(type, v) + n
<1>1. CASE type \in {"code", "rom"} /\ ~object.pic16e
  <2>1. n % 2 = 0
    BY <1>1
  <2>2. PICK k \in Nat : k = n \div 2
    OBVIOUS
  <2>3. n = 2 * k
    BY <2>1, <2>2
  <2>4. InUnits(type, n) = k
    BY <1>1, <2>2 DEF InUnits
  <2>5. InBytes(type, k) = 2 * k /\ InBytes(type, v + k) = 2 * (v + k) /\ InBytes(type, v) = 2 * v
    BY <1>1 DEF InBytes
  <2>6. 2 * (v + k) = 2 * v + 2 * k
    BY <2>2
  <2>7. QED
    BY <2>3, <2>4, <2>5, <2>6
<1>2. CASE ~(type \in {"code", "rom"} /\ ~object.pic16e)
  BY <1>2 DEF InUnits, InBytes
<1>3. QED
  BY <1>1, <1>2

-----------------------------------------------------------------------------
LEMMA OwnCellsAre ==
    ASSUME object \in Input, NEW s \in Given
    PROVE  /\ OwnCells(s) \in Seq(SUBSET (Given \X Nat))
           /\ Len(OwnCells(s)) = object.sections[s].size
           /\ DOMAIN OwnCells(s) = 1 .. object.sections[s].size
           /\ \A k \in 1 .. object.sections[s].size : OwnCells(s)[k] = {<<s, k - 1>>}
<1>1. PICK n \in Nat : n = object.sections[s].size
  BY ObjectFacts
<1>2. PICK c : c = [k \in 1 .. n |-> {<<s, k - 1>>}]
  OBVIOUS
<1>3. OwnCells(s) = c
  BY <1>1, <1>2 DEF OwnCells
<1>4. \A k \in 1 .. n : c[k] \in SUBSET (Given \X Nat)
  BY <1>2
<1>5. c \in Seq(SUBSET (Given \X Nat)) /\ Len(c) = n
  BY <1>1, <1>2, <1>4, IsASeq
<1>6. QED
  BY <1>1, <1>2, <1>3, <1>5

LEMMA StartsTyped ==
    ASSUME Init
    PROVE  TypeOK
<1>0. object \in Input
  BY DEF Init
<1>1. object \in ObjectType
  BY <1>0, ObjectFacts
<1>2. list \in Seq(Ids)
  <2>1. list = [k \in 1 .. N |-> k] /\ N \in Nat
    BY <1>0, ObjectFacts DEF Init
  <2>2. \A k \in 1 .. N : k \in Ids
    BY <1>0, ObjectFacts, IdFacts
  <2>3. QED
    BY <2>1, <2>2, IsASeq
<1>3. cells \in [Ids -> Seq(SUBSET (Given \X Nat))]
  <2>1. cells = [s \in Ids |-> IF s \in Given THEN OwnCells(s) ELSE <<>>]
    BY DEF Init
  <2>2. << >> \in Seq(SUBSET (Given \X Nat))
    OBVIOUS
  <2>3. QED
    BY <1>0, <2>1, <2>2, OwnCellsAre
<1>4. symbol \in [{0} \cup Given -> [section : {0} \cup Ids, value : Nat]]
  <2>1. \A s \in Given : InUnits(TypeOf(s), object.sections[s].label) \in Nat
    BY <1>0, ObjectFacts, InUnitsIsNat
  <2>2. QED
    BY <1>0, <2>1, IdFacts DEF Init
<1>5. reloc \in [Given -> [section : Given, address : Nat]]
  BY <1>0, ObjectFacts DEF Init
<1>6. /\ table \in Seq([from : Ids, to : Ids, size : Nat])
      /\ patched \subseteq Ids \X Nat
      /\ phase \in {"overlay", "merge", "idata", "table", "patch", "done", "exit"}
      /\ errors \in BOOLEAN
  <2>1. << >> \in Seq([from : Ids, to : Ids, size : Nat])
    OBVIOUS
  <2>2. QED
    BY <2>1 DEF Init
<1>7. QED
  BY <1>1, <1>2, <1>3, <1>4, <1>5, <1>6 DEF TypeOK

LEMMA StartsRight ==
    ASSUME Init
    PROVE  IInv
<1>0. object \in Input /\ TypeOK
  BY StartsTyped DEF Init
<1>1. /\ Given = 1 .. N /\ N \in Nat
      /\ list = [k \in Given |-> k]
      /\ DOMAIN list = Given /\ Range(list) = Given
      /\ phase = "overlay"
  BY <1>0, ObjectFacts DEF Init, Range
<1>2. \A s \in Given : s \in Ids /\ cells[s] = OwnCells(s)
  BY <1>0, IdFacts DEF Init
<1>3. \A s \in Given : /\ symbol[s].section = s
                       /\ symbol[s].value = InUnits(TypeOf(s), object.sections[s].label)
  <2>1. TAKE s \in Given
  <2>2. PICK v : v = InUnits(TypeOf(s), object.sections[s].label)
    OBVIOUS
  <2>3. s # 0 /\ s \in {0} \cup Given
    BY <1>1
  <2>4. symbol[s] = [section |-> s, value |-> v]
    BY <2>2, <2>3 DEF Init
  <2>5. QED
    BY <2>2, <2>4
<1>4. \A s \in Given : reloc[s].section = s /\ reloc[s].address = object.sections[s].ref
  BY DEF Init
<1>5. Listed
  <2>1. \A i, j \in DOMAIN list : list[i] = list[j] => i = j
    BY <1>1
  <2>2. QED
    BY <1>1, <1>3, <2>1 DEF Listed, SameName
<1>6. \A t \in Given : \A n \in DOMAIN cells[t] :
         cells[t][n] = {<<t, n - 1>>} /\ n \in 1 .. object.sections[t].size /\ n \in Nat
  BY <1>0, <1>2, OwnCellsAre, ObjectFacts
<1>7. \A s \in Given : \A k \in 0 .. object.sections[s].size - 1 :
         k + 1 \in DOMAIN cells[s] /\ cells[s][k + 1] = {<<s, k>>}
  <2>1. ASSUME NEW s \in Given, NEW k \in 0 .. object.sections[s].size - 1
        PROVE  k + 1 \in DOMAIN cells[s] /\ cells[s][k + 1] = {<<s, k>>}
    <3>1. object.sections[s].size \in Nat
      BY <1>0, ObjectFacts
    <3>2. k + 1 \in 1 .. object.sections[s].size /\ (k + 1) - 1 = k
      BY <3>1
    <3>3. QED
      BY <1>0, <1>2, <3>2, OwnCellsAre
  <2>2. QED
    BY <2>1
<1>8. Kept
  <2>1. ASSUME NEW t \in Given, NEW u \in Given, NEW n \in DOMAIN cells[t], NEW m \in DOMAIN cells[u],
               cells[t][n] \cap cells[u][m] # {}
        PROVE  t = u /\ n = m
    <3>1. <<t, n - 1>> = <<u, m - 1>>
      BY <1>6, <2>1
    <3>2. n \in Nat /\ m \in Nat /\ t = u /\ n - 1 = m - 1
      BY <1>6, <3>1
    <3>3. QED
      BY <3>2
  <2>2. QED
    BY <1>7, <2>1 DEF Kept
<1>9. OnlyOverlaysShare
  BY <1>6 DEF OnlyOverlaysShare
<1>10. Overlapping
  <2>1. ASSUME NEW t \in Given, NEW n \in DOMAIN cells[t], NEW b \in cells[t][n]
        PROVE  b[1] = t /\ b[2] = n - 1
    <3>1. b = <<t, n - 1>>
      BY <1>6
    <3>2. QED
      BY <3>1
  <2>2. QED
    BY <1>4, <2>1 DEF Overlapping, SameName
<1>11. WholeWords
  BY <1>0, <1>2, OwnCellsAre, ObjectFacts, TypeFacts DEF WholeWords, SizeOf
<1>12. SymbolsFollowTheirBytes
  <2>1. ASSUME NEW s \in Given, object.sections[s].label < object.sections[s].size
        PROVE  <<s, object.sections[s].label>>
                  \in CellAt(symbol[s].section, InBytes(TypeOf(symbol[s].section), symbol[s].value))
    <3>1. PICK k \in Nat : k = object.sections[s].label
      BY <1>0, ObjectFacts
    <3>2. (TypeOf(s) \in {"code", "rom"} /\ ~object.pic16e) => k % 2 = 0
      BY <1>0, <3>1, ObjectFacts, TypeFacts
    <3>3. InBytes(TypeOf(s), InUnits(TypeOf(s), k)) = k
      BY <1>0, <3>2, UnitsAndBack
    <3>4. symbol[s].section = s /\ symbol[s].value = InUnits(TypeOf(s), k)
      BY <1>3, <3>1
    <3>5. k \in 0 .. object.sections[s].size - 1
      BY <1>0, <2>1, <3>1, ObjectFacts
    <3>6. <<s, k>> \in CellAt(s, k)
      BY <1>7, <3>5 DEF CellAt
    <3>7. QED
      BY <3>1, <3>3, <3>4, <3>6
  <2>2. QED
    BY <2>1 DEF SymbolsFollowTheirBytes
<1>13. RelocationsFollowTheirBytes
  <2>1. ASSUME NEW s \in Given, object.sections[s].ref < object.sections[s].size
        PROVE  <<s, object.sections[s].ref>> \in CellAt(reloc[s].section, reloc[s].address)
    <3>1. object.sections[s].ref \in 0 .. object.sections[s].size - 1
      BY <1>0, <2>1, ObjectFacts
    <3>2. reloc[s].section = s /\ reloc[s].address = object.sections[s].ref
      BY <1>4
    <3>3. PICK k : k = object.sections[s].ref
      OBVIOUS
    <3>4. k + 1 \in DOMAIN cells[s] /\ cells[s][k + 1] = {<<s, k>>}
      BY <1>7, <3>1, <3>3
    <3>5. <<s, k>> \in CellAt(s, k)
      BY <3>4 DEF CellAt
    <3>6. QED
      BY <3>2, <3>3, <3>5
  <2>2. QED
    BY <2>1 DEF RelocationsFollowTheirBytes
<1>14. Joined /\ Copied /\ Tabled /\ CopiesArePatched
  BY <1>1 DEF Joined, Copied, Tabled, CopiesArePatched, Late
<1>15. QED
  BY <1>0, <1>5, <1>8, <1>9, <1>10, <1>11, <1>12, <1>13, <1>14 DEF IInv, ReferencesFollowTheirBytes

-----------------------------------------------------------------------------
(***************************************************************************)
(* What a cell holds.                                                      *)
(***************************************************************************)
Holds(t, n, b) == n \in DOMAIN cells[t] /\ b \in cells[t][n]

LEMMA HoldsIn ==
    ASSUME object \in Input, TypeOK, NEW t \in Ids, NEW n, NEW b, Holds(t, n, b)
    PROVE  /\ n \in 1 .. Len(cells[t]) /\ n \in Nat
           /\ b \in Given \X Nat
           /\ Len(cells[t]) \in Nat
<1>1. cells[t] \in Seq(SUBSET (Given \X Nat))
  BY DEF TypeOK
<1>2. n \in DOMAIN cells[t] /\ b \in cells[t][n]
  BY DEF Holds
<1>3. n \in 1 .. Len(cells[t]) /\ Len(cells[t]) \in Nat
  BY <1>1, <1>2
<1>4. cells[t][n] \in SUBSET (Given \X Nat)
  BY <1>1, <1>3
<1>5. QED
  BY <1>2, <1>3, <1>4

LEMMA KeptHolds ==
    Kept <=>
        /\ \A t, u \in Given : \A n, m, b : (Holds(t, n, b) /\ Holds(u, m, b)) => t = u /\ n = m
        /\ \A s \in Given : \A k \in 0 .. object.sections[s].size - 1 :
              \E t \in Given : \E n : Holds(t, n, <<s, k>>)
BY DEF Kept, Holds

LEMMA ShareHolds ==
    OnlyOverlaysShare <=>
        \A t \in Given : \A n, b, c : (Holds(t, n, b) /\ Holds(t, n, c) /\ b # c) =>
            SameName(b[1], c[1]) /\ FlagsOf(b[1]).overlay /\ FlagsOf(c[1]).overlay /\ b[2] = c[2]
BY DEF OnlyOverlaysShare, Holds

\* Two sections of one name, the second at j of the list.
Meet(j, s, t) ==
    /\ j \in DOMAIN list
    /\ s \in Given /\ t \in Given
    /\ s \in Range(list)
    /\ list[j] = t
    /\ s # t
    /\ SameName(s, t)

LEMMA PairsMeet ==
    ASSUME IInv, Early, NEW T \in SUBSET Repeated, T # {}
    PROVE  LET i == Nearest(T)
               j == Nearest(Second(i))
           IN  i \in T /\ Meet(j, list[i], list[j])
<1>1. object \in Input /\ list \in Seq(Ids) /\ Range(list) \subseteq Given
  BY DEF IInv, TypeOK, Listed
<1>2. DOMAIN list = 1 .. Len(list) /\ Len(list) \in Nat
  BY <1>1
<1>3. T \in SUBSET Nat
  BY <1>2 DEF Repeated
<1>4. PICK i : i = Nearest(T)
  OBVIOUS
<1>5. i \in T
  BY <1>3, <1>4, NearestIs
<1>6. i \in DOMAIN list /\ Second(i) # {}
  BY <1>5 DEF Repeated
<1>7. Second(i) \in SUBSET Nat
  BY <1>2, <1>6 DEF Second
<1>8. PICK j : j = Nearest(Second(i))
  OBVIOUS
<1>9. j \in Second(i)
  BY <1>6, <1>7, <1>8, NearestIs
<1>10. j \in i + 1 .. Len(list) /\ NameOf(list[j]) = NameOf(list[i])
  BY <1>9 DEF Second
<1>11. j \in DOMAIN list /\ j # i
  BY <1>2, <1>6, <1>10
<1>12. list[i] \in Given /\ list[j] \in Given /\ list[i] \in Range(list)
  BY <1>1, <1>6, <1>11 DEF Range
<1>13. list[i] # list[j]
  BY <1>6, <1>11 DEF IInv, Listed
<1>14. SameName(list[i], list[j])
  BY <1>1, <1>10, <1>12, TypeFacts DEF SameName
<1>15. Meet(j, list[i], list[j])
  BY <1>11, <1>12, <1>13, <1>14 DEF Meet
<1>16. QED
  BY <1>4, <1>5, <1>8, <1>15

\* What both kinds of combination do to the list and to the sections of symbols.
TakenOff(j, s, t) ==
    /\ Meet(j, s, t)
    /\ phase \in {"overlay", "merge"}
    /\ object' = object
    /\ phase' = phase
    /\ table' = table
    /\ patched' = patched
    /\ errors' \in BOOLEAN
    /\ list' = RemoveAt(list, j)
    /\ cells' \in [Ids -> Seq(SUBSET (Given \X Nat))]
    /\ cells'[t] = << >>
    /\ \A u \in Ids : u # s /\ u # t => cells'[u] = cells[u]
    /\ symbol' \in [{0} \cup Given -> [section : {0} \cup Ids, value : Nat]]
    /\ \A y \in Given : symbol'[y].section = IF symbol[y].section = t THEN s ELSE symbol[y].section
    /\ reloc' \in [Given -> [section : Given, address : Nat]]

LEMMA ListedStays ==
    ASSUME IInv, NEW j, NEW s, NEW t, TakenOff(j, s, t)
    PROVE  TypeOK' /\ Listed' /\ Joined' /\ Copied' /\ Tabled' /\ CopiesArePatched'
<1>1. /\ object \in Input /\ TypeOK /\ Listed
      /\ Meet(j, s, t)
      /\ phase \in {"overlay", "merge"} /\ phase' = phase
      /\ object' = object
  BY DEF IInv, TakenOff
<1>2. Given' = Given /\ Ids' = Ids
  BY <1>1 DEF Given, Ids, Cinit, N
<1>3. \A p, q \in DOMAIN list : list[p] = list[q] => p = q
  BY <1>1 DEF Listed
<1>4. /\ list' \in Seq(Ids)
      /\ \A p, q \in DOMAIN list' : list'[p] = list'[q] => p = q
      /\ Range(list') = Range(list) \ {t}
  <2>1. list \in Seq(Ids) /\ j \in DOMAIN list /\ list[j] = t /\ list' = RemoveAt(list, j)
    BY <1>1 DEF TypeOK, Meet, TakenOff
  <2>2. QED
    BY <1>3, <2>1, Removed
<1>5. TypeOK'
  BY <1>1, <1>2, <1>4 DEF TypeOK, TakenOff
<1>6. Range(list)' = Range(list) \ {t}
  BY <1>4 DEF Range
<1>7. Early /\ Range(list) \subseteq Given
  BY <1>1 DEF Early, Listed
<1>8. \A u \in Given : u \notin Range(list)' => cells'[u] = <<>>
  <2>1. ASSUME NEW u \in Given, u \notin Range(list) \ {t} PROVE cells'[u] = <<>>
    <3>1. CASE u = t
      BY <3>1 DEF TakenOff
    <3>2. CASE u # t
      <4>1. u \notin Range(list) /\ u # s /\ u \in Ids
        BY <1>1, <2>1, <3>2, IdFacts DEF Meet
      <4>2. cells[u] = <<>>
        BY <1>1, <4>1 DEF Listed
      <4>3. QED
        BY <3>2, <4>1, <4>2 DEF TakenOff
    <3>3. QED
      BY <3>1, <3>2
  <2>2. QED
    BY <1>6, <2>1
<1>9. ASSUME NEW y \in Given
      PROVE  /\ symbol'[y].section \in Given
             /\ symbol'[y].section \in Range(list)'
             /\ object.sections[y].name = object.sections[symbol'[y].section].name
  <2>1. /\ symbol[y].section \in Given
        /\ symbol[y].section \in Range(list)
        /\ object.sections[y].name = object.sections[symbol[y].section].name
    BY <1>1 DEF Listed, SameName
  <2>2. CASE symbol[y].section = t
    <3>1. symbol'[y].section = s
      BY <2>2 DEF TakenOff
    <3>2. s \in Given /\ s \in Range(list) /\ s # t /\ object.sections[s].name = object.sections[t].name
      BY <1>1 DEF Meet, SameName
    <3>3. QED
      BY <1>6, <2>1, <2>2, <3>1, <3>2
  <2>3. CASE symbol[y].section # t
    <3>1. symbol'[y].section = symbol[y].section
      BY <2>3 DEF TakenOff
    <3>2. QED
      BY <1>6, <2>1, <2>3, <3>1
  <2>4. QED
    BY <2>2, <2>3
<1>10. Listed'
  <2>1. Early' => Range(list)' \subseteq Given'
    BY <1>2, <1>6, <1>7
  <2>2. \A u \in Given' : SameName(u, symbol[u].section)' <=> object.sections[u].name = object.sections[symbol'[u].section].name
    BY <1>1 DEF SameName
  <2>3. QED
    BY <1>2, <1>4, <1>8, <1>9, <2>1, <2>2 DEF Listed
<1>11. Joined' /\ Copied' /\ Tabled' /\ CopiesArePatched'
  BY <1>1 DEF Joined, Copied, Tabled, CopiesArePatched, Late
<1>12. QED
  BY <1>5, <1>10, <1>11

-----------------------------------------------------------------------------
(***************************************************************************)
(* gp_cofflink_combine_overlay                                             *)
(***************************************************************************)
LEMMA LaidOnIs ==
    ASSUME NEW X, NEW c \in Seq(SUBSET X), NEW d \in Seq(SUBSET X)
    PROVE  /\ LaidOn(c, d) \in Seq(SUBSET X)
           /\ \A k, b : (k \in DOMAIN LaidOn(c, d) /\ b \in LaidOn(c, d)[k]) <=>
                            \/ k \in DOMAIN c /\ b \in c[k]
                            \/ k \in DOMAIN d /\ b \in d[k]
<1>1. /\ DOMAIN c = 1 .. Len(c) /\ Len(c) \in Nat
      /\ DOMAIN d = 1 .. Len(d) /\ Len(d) \in Nat
  OBVIOUS
<1>2. PICK n \in Nat : 1 .. n = DOMAIN c \cup DOMAIN d
  <2>1. CASE Len(c) <= Len(d)
    <3>1. 1 .. Len(d) = DOMAIN c \cup DOMAIN d
      BY <1>1, <2>1
    <3>2. QED
      BY <1>1, <3>1
  <2>2. CASE ~(Len(c) <= Len(d))
    <3>1. 1 .. Len(c) = DOMAIN c \cup DOMAIN d
      BY <1>1, <2>2
    <3>2. QED
      BY <1>1, <3>1
  <2>3. QED
    BY <2>1, <2>2
<1>3. PICK l : l = [k \in 1 .. n |-> (IF k \in DOMAIN c THEN c[k] ELSE {})
                                        \cup (IF k \in DOMAIN d THEN d[k] ELSE {})]
  OBVIOUS
<1>4. LaidOn(c, d) = l
  BY <1>2, <1>3 DEF LaidOn
<1>5. ASSUME NEW k \in 1 .. n PROVE l[k] \in SUBSET X
  <2>1. k \in DOMAIN c => c[k] \in SUBSET X
    BY <1>1
  <2>2. k \in DOMAIN d => d[k] \in SUBSET X
    BY <1>1
  <2>3. QED
    BY <1>3, <2>1, <2>2
<1>6. l \in Seq(SUBSET X)
  BY <1>2, <1>3, <1>5, IsASeq
<1>7. \A k, b : (k \in DOMAIN l /\ b \in l[k]) <=>
                   \/ k \in DOMAIN c /\ b \in c[k]
                   \/ k \in DOMAIN d /\ b \in d[k]
  BY <1>2, <1>3
<1>8. QED
  BY <1>4, <1>6, <1>7

\* Two matching overlays become one.
Overlays(j, s, t) ==
    /\ TakenOff(j, s, t)
    /\ phase = "overlay"
    /\ FlagsOf(s) = FlagsOf(t)
    /\ FlagsOf(s).overlay
    /\ cells'[s] = LaidOn(cells[s], cells[t])
    /\ \A y \in Given : symbol'[y].value = symbol[y].value
    /\ reloc' = reloc

OverlayStep == \E j, s, t : Overlays(j, s, t)

\* Two that do not match stay as they are.
Reported ==
    /\ errors' = TRUE
    /\ UNCHANGED <<object, list, cells, symbol, reloc, table, patched, phase>>

LEMMA OverlayTakes ==
    ASSUME IInv, CombineOverlay
    PROVE  Reported \/ OverlayStep
<1>0. object \in Input /\ TypeOK
  BY DEF IInv
<1>1. phase = "overlay" /\ Overlaid # {}
  BY DEF CombineOverlay
<1>2. Early /\ Overlaid \in SUBSET Repeated
  BY <1>1 DEF Early, Overlaid, Repeated
<1>3. PICK i : i = Nearest(Overlaid)
  OBVIOUS
<1>4. PICK j : j = Nearest(Second(i))
  OBVIOUS
<1>5. PICK s : s = list[i]
  OBVIOUS
<1>6. PICK t : t = list[j]
  OBVIOUS
<1>7. i \in Overlaid /\ Meet(j, s, t)
  BY <1>1, <1>2, <1>3, <1>4, <1>5, <1>6, PairsMeet
<1>8. FlagsOf(s).overlay
  BY <1>5, <1>7 DEF Overlaid
<1>9. CASE Differ(s, t)
  <2>1. /\ errors' = TRUE
        /\ list' = list /\ cells' = cells /\ symbol' = symbol
        /\ object' = object /\ reloc' = reloc /\ table' = table
        /\ patched' = patched /\ phase' = phase
    BY <1>3, <1>4, <1>5, <1>6, <1>9 DEF CombineOverlay
  <2>2. QED
    BY <2>1 DEF Reported
<1>10. CASE ~Differ(s, t)
  <2>1. FlagsOf(s) = FlagsOf(t)
    BY <1>10 DEF Differ
  <2>2. /\ list' = RemoveAt(list, j)
        /\ cells' = [cells EXCEPT ![s] = LaidOn(@, cells[t]), ![t] = <<>>]
        /\ symbol' = [y \in DOMAIN symbol |->
                        IF symbol[y].section = t THEN [symbol[y] EXCEPT !.section = s]
                        ELSE symbol[y]]
        /\ errors' = errors
        /\ object' = object /\ reloc' = reloc /\ table' = table
        /\ patched' = patched /\ phase' = phase
    BY <1>3, <1>4, <1>5, <1>6, <1>10 DEF CombineOverlay
  <2>3. s \in Ids /\ t \in Ids /\ s # t /\ s \in Given /\ t \in Given
    BY <1>0, <1>7, IdFacts DEF Meet
  <2>4. cells \in [Ids -> Seq(SUBSET (Given \X Nat))]
    BY <1>0 DEF TypeOK
  <2>5. PICK c : c = LaidOn(cells[s], cells[t])
    OBVIOUS
  <2>6. c \in Seq(SUBSET (Given \X Nat))
    BY <2>3, <2>4, <2>5, LaidOnIs
  <2>7. cells' = [cells EXCEPT ![s] = c, ![t] = <<>>]
    BY <2>2, <2>3, <2>4, <2>5
  <2>8. /\ cells'[s] = c
        /\ cells'[t] = << >>
        /\ \A u \in Ids : u # s /\ u # t => cells'[u] = cells[u]
    BY <2>3, <2>4, <2>7
  <2>9. cells' \in [Ids -> Seq(SUBSET (Given \X Nat))]
    <3>1. << >> \in Seq(SUBSET (Given \X Nat))
      OBVIOUS
    <3>2. QED
      BY <2>3, <2>4, <2>6, <2>7, <3>1
  <2>10. symbol \in [{0} \cup Given -> [section : {0} \cup Ids, value : Nat]]
    BY <1>0 DEF TypeOK
  <2>11. /\ symbol' \in [{0} \cup Given -> [section : {0} \cup Ids, value : Nat]]
         /\ \A y \in Given : /\ symbol'[y].section = IF symbol[y].section = t THEN s ELSE symbol[y].section
                             /\ symbol'[y].value = symbol[y].value
    BY <2>2, <2>3, <2>10
  <2>12. reloc' \in [Given -> [section : Given, address : Nat]] /\ errors' \in BOOLEAN
    BY <1>0, <2>2 DEF TypeOK
  <2>13. TakenOff(j, s, t)
    BY <1>1, <1>7, <2>2, <2>8, <2>9, <2>11, <2>12 DEF TakenOff
  <2>14. Overlays(j, s, t)
    BY <1>1, <1>8, <2>1, <2>2, <2>5, <2>8, <2>11, <2>13 DEF Overlays
  <2>15. QED
    BY <2>14 DEF OverlayStep
<1>11. QED
  BY <1>9, <1>10

\* Cells that hold a byte afterwards are those that held it, on the first section.
LEMMA OverlayHolds ==
    ASSUME IInv, NEW j, NEW s, NEW t, Overlays(j, s, t)
    PROVE  \A u \in Given : \A n, b :
              Holds(u, n, b)' <=> u # t /\ (Holds(u, n, b) \/ (u = s /\ Holds(t, n, b)))
<1>1. /\ object \in Input /\ cells \in [Ids -> Seq(SUBSET (Given \X Nat))]
      /\ s \in Given /\ t \in Given /\ s # t
  BY DEF IInv, TypeOK, Overlays, TakenOff, Meet
<1>2. SUFFICES ASSUME NEW u \in Given, NEW n, NEW b
               PROVE  Holds(u, n, b)' <=> u # t /\ (Holds(u, n, b) \/ (u = s /\ Holds(t, n, b)))
  OBVIOUS
<1>3. u \in Ids /\ s \in Ids /\ t \in Ids
  BY <1>1, IdFacts
<1>4. CASE u = t
  <2>1. cells'[u] = << >>
    BY <1>4 DEF Overlays, TakenOff
  <2>2. ~Holds(u, n, b)'
    BY <2>1 DEF Holds
  <2>3. QED
    BY <1>4, <2>2
<1>5. CASE u = s
  <2>1. cells'[u] = LaidOn(cells[s], cells[t])
    BY <1>5 DEF Overlays
  <2>2. cells[s] \in Seq(SUBSET (Given \X Nat)) /\ cells[t] \in Seq(SUBSET (Given \X Nat))
    BY <1>1, <1>3
  <2>3. PICK a : a = cells[s]
    OBVIOUS
  <2>4. PICK d : d = cells[t]
    OBVIOUS
  <2>5. PICK X : X = Given \X Nat
    OBVIOUS
  <2>6. a \in Seq(SUBSET X) /\ d \in Seq(SUBSET X)
    BY <2>2, <2>3, <2>4, <2>5
  <2>7. (n \in DOMAIN LaidOn(a, d) /\ b \in LaidOn(a, d)[n]) <=>
           \/ n \in DOMAIN a /\ b \in a[n]
           \/ n \in DOMAIN d /\ b \in d[n]
    BY <2>6, LaidOnIs
  <2>8. Holds(u, n, b)' <=> n \in DOMAIN LaidOn(a, d) /\ b \in LaidOn(a, d)[n]
    BY <2>1, <2>3, <2>4 DEF Holds
  <2>9. QED
    BY <1>1, <1>5, <2>3, <2>4, <2>7, <2>8 DEF Holds
<1>6. CASE u # s /\ u # t
  <2>1. cells'[u] = cells[u]
    BY <1>3, <1>6 DEF Overlays, TakenOff
  <2>2. QED
    BY <1>6, <2>1 DEF Holds
<1>7. QED
  BY <1>4, <1>5, <1>6

LEMMA OverlayKeeps ==
    ASSUME IInv, CombineOverlay, NEW j, NEW s, NEW t, Overlays(j, s, t)
    PROVE  IInv'
<1>1. /\ object \in Input /\ TypeOK /\ Listed /\ Kept /\ OnlyOverlaysShare /\ Overlapping
      /\ WholeWords /\ SymbolsFollowTheirBytes /\ RelocationsFollowTheirBytes
      /\ TakenOff(j, s, t)
  BY DEF IInv, ReferencesFollowTheirBytes, Overlays
<1>2. /\ object' = object /\ phase' = phase /\ phase = "overlay" /\ reloc' = reloc
      /\ s \in Given /\ t \in Given /\ s # t /\ SameName(s, t)
      /\ FlagsOf(s) = FlagsOf(t) /\ FlagsOf(s).overlay
  BY DEF Overlays, TakenOff, Meet
<1>3. /\ Given' = Given
      /\ \A u : FlagsOf(u)' = FlagsOf(u)
      /\ \A u, v : SameName(u, v)' <=> SameName(u, v)
  BY <1>2 DEF Given, FlagsOf, SameName
<1>4. \A u \in Given : \A n, b :
         Holds(u, n, b)' <=> u # t /\ (Holds(u, n, b) \/ (u = s /\ Holds(t, n, b)))
  BY OverlayHolds
<1>5. TypeOK' /\ Listed' /\ Joined' /\ Copied' /\ Tabled' /\ CopiesArePatched'
  BY <1>1, ListedStays
<1>6. \A u \in Given : \A n, b : Holds(u, n, b) =>
         /\ SameName(b[1], u) /\ FlagsOf(b[1]) = FlagsOf(u) /\ b[2] = n - 1
  BY <1>1, <1>2 DEF Overlapping, Holds
<1>7. Kept'
  <2>1. /\ \A u, v \in Given : \A n, m, b : (Holds(u, n, b) /\ Holds(v, m, b)) => u = v /\ n = m
        /\ \A y \in Given : \A k \in 0 .. object.sections[y].size - 1 :
              \E u \in Given : \E n : Holds(u, n, <<y, k>>)
    BY <1>1, KeptHolds
  <2>2. ASSUME NEW u \in Given, NEW v \in Given, NEW n, NEW m, NEW b, Holds(u, n, b)', Holds(v, m, b)'
        PROVE  u = v /\ n = m
    <3>1. u # t /\ (Holds(u, n, b) \/ (u = s /\ Holds(t, n, b)))
      BY <1>4, <2>2
    <3>2. v # t /\ (Holds(v, m, b) \/ (v = s /\ Holds(t, m, b)))
      BY <1>4, <2>2
    <3>3. QED
      BY <1>2, <2>1, <3>1, <3>2
  <2>3. ASSUME NEW y \in Given, NEW k \in 0 .. object.sections[y].size - 1
        PROVE  \E u \in Given : \E n : Holds(u, n, <<y, k>>)'
    <3>1. PICK u \in Given : \E n : Holds(u, n, <<y, k>>)
      BY <2>1
    <3>2. PICK n : Holds(u, n, <<y, k>>)
      BY <3>1
    <3>3. CASE u = t
      BY <1>2, <1>4, <3>2, <3>3
    <3>4. CASE u # t
      BY <1>4, <3>2, <3>4
    <3>5. QED
      BY <3>3, <3>4
  <2>4. Kept' <=> /\ \A u, v \in Given' : \A n, m, b : (Holds(u, n, b)' /\ Holds(v, m, b)') => u = v /\ n = m
                  /\ \A y \in Given' : \A k \in 0 .. object'.sections[y].size - 1 :
                        \E u \in Given' : \E n : Holds(u, n, <<y, k>>)'
    BY DEF Kept, Holds
  <2>5. QED
    BY <1>2, <1>3, <2>2, <2>3, <2>4
<1>8. OnlyOverlaysShare'
  <2>1. \A u \in Given : \A n, b, c : (Holds(u, n, b) /\ Holds(u, n, c) /\ b # c) =>
            SameName(b[1], c[1]) /\ FlagsOf(b[1]).overlay /\ FlagsOf(c[1]).overlay /\ b[2] = c[2]
    BY <1>1, ShareHolds
  <2>2. ASSUME NEW u \in Given, NEW n, NEW b, NEW c, Holds(u, n, b)', Holds(u, n, c)', b # c
        PROVE  SameName(b[1], c[1]) /\ FlagsOf(b[1]).overlay /\ FlagsOf(c[1]).overlay /\ b[2] = c[2]
    <3>1. /\ Holds(u, n, b) \/ (u = s /\ Holds(t, n, b))
          /\ Holds(u, n, c) \/ (u = s /\ Holds(t, n, c))
      BY <1>4, <2>2
    <3>2. CASE Holds(u, n, b) /\ Holds(u, n, c)
      BY <2>1, <2>2, <3>2
    <3>3. CASE u = s
      <4>1. \A v \in {s, t} : FlagsOf(v).overlay /\ object.sections[v].name = object.sections[s].name
        BY <1>2 DEF SameName
      <4>2. \A d : (Holds(s, n, d) \/ Holds(t, n, d)) =>
               /\ FlagsOf(d[1]).overlay
               /\ object.sections[d[1]].name = object.sections[s].name
               /\ d[2] = n - 1
        BY <1>2, <1>6, <4>1 DEF SameName
      <4>3. QED
        BY <3>1, <3>3, <4>2 DEF SameName
    <3>4. QED
      BY <3>1, <3>2, <3>3
  <2>3. OnlyOverlaysShare' <=>
          \A u \in Given' : \A n, b, c : (Holds(u, n, b)' /\ Holds(u, n, c)' /\ b # c) =>
            SameName(b[1], c[1])' /\ FlagsOf(b[1])'.overlay /\ FlagsOf(c[1])'.overlay /\ b[2] = c[2]
    BY DEF OnlyOverlaysShare, Holds
  <2>4. QED
    BY <1>3, <2>2, <2>3
<1>9. Overlapping'
  <2>1. ASSUME NEW u \in Given, NEW n, NEW b, Holds(u, n, b)'
        PROVE  SameName(b[1], u) /\ FlagsOf(b[1]) = FlagsOf(u) /\ b[2] = n - 1
    <3>1. Holds(u, n, b) \/ (u = s /\ Holds(t, n, b))
      BY <1>4, <2>1
    <3>2. CASE Holds(u, n, b)
      BY <1>6, <3>2
    <3>3. CASE u = s /\ Holds(t, n, b)
      <4>1. SameName(b[1], t) /\ FlagsOf(b[1]) = FlagsOf(t) /\ b[2] = n - 1
        BY <1>2, <1>6, <3>3
      <4>2. QED
        BY <1>2, <3>3, <4>1 DEF SameName
    <3>4. QED
      BY <3>1, <3>2, <3>3
  <2>2. \A u \in Given : \A n \in DOMAIN cells'[u] : \A b \in cells'[u][n] :
           SameName(b[1], u)' /\ FlagsOf(b[1])' = FlagsOf(u)' /\ b[2] = n - 1
    BY <1>3, <2>1 DEF Holds
  <2>3. \A u \in Given : reloc'[u].section = u
    BY <1>1, <1>2 DEF Overlapping
  <2>4. QED
    BY <1>3, <2>2, <2>3 DEF Overlapping
<1>10. WholeWords'
  <2>1. Agreed' <=> Agreed
    BY <1>3 DEF Agreed
  <2>2. FlagsOf(s).type = "udata" /\ FlagsOf(t).type = "udata"
    BY <1>1, <1>2, ObjectFacts
  <2>3. \A u \in Given : TypeOf(u)' = FlagsOf(u).type /\ TypeOf(u) = FlagsOf(u).type
    BY <1>3 DEF TypeOf
  <2>4. ASSUME NEW u \in Given, FlagsOf(u).type = "code" PROVE SizeOf(u)' = SizeOf(u)
    <3>1. u \in Ids /\ u # s /\ u # t
      BY <1>1, <2>2, <2>4, IdFacts
    <3>2. QED
      BY <1>1, <3>1 DEF TakenOff, SizeOf
  <2>5. QED
    BY <1>1, <1>2, <1>3, <2>1, <2>3, <2>4 DEF WholeWords
<1>11. SymbolsFollowTheirBytes'
  <2>1. Agreed' <=> Agreed
    BY <1>3 DEF Agreed
  <2>2. ASSUME Agreed, NEW y \in Given, object.sections[y].label < object.sections[y].size
        PROVE  <<y, object.sections[y].label>> \in
                  CellAt(symbol[y].section, InBytes(TypeOf(symbol[y].section), symbol[y].value))'
    <3>1. PICK b : b = <<y, object.sections[y].label>>
      OBVIOUS
    <3>2. PICK u : u = symbol[y].section
      OBVIOUS
    <3>3. PICK v : v = InBytes(TypeOf(u), symbol[y].value)
      OBVIOUS
    <3>4. b \in CellAt(u, v) /\ u \in Given
      BY <1>1, <2>2, <3>1, <3>2, <3>3 DEF SymbolsFollowTheirBytes, Listed
    <3>5. Holds(u, v + 1, b)
      BY <3>4 DEF CellAt, Holds
    <3>6. PICK w : w = symbol'[y].section
      OBVIOUS
    <3>7. w = (IF u = t THEN s ELSE u) /\ symbol'[y].value = symbol[y].value
      BY <1>1, <3>2, <3>6 DEF TakenOff, Overlays
    <3>8. w \in Given /\ Holds(w, v + 1, b)'
      BY <1>2, <1>4, <3>4, <3>5, <3>7
    <3>9. TypeOf(w) = TypeOf(u)
      BY <1>2, <3>4, <3>7 DEF TypeOf
    <3>10. InBytes(TypeOf(symbol[y].section), symbol[y].value)' = v
      <4>1. TypeOf(w)' = TypeOf(w)
        BY <1>3, <3>8 DEF TypeOf
      <4>2. TypeOf(symbol[y].section)' = TypeOf(u)
        BY <1>3, <3>6, <3>8, <3>9 DEF TypeOf
      <4>3. QED
        BY <1>2, <3>3, <3>7, <4>2 DEF InBytes
    <3>11. CellAt(symbol[y].section, InBytes(TypeOf(symbol[y].section), symbol[y].value))'
              = IF v + 1 \in DOMAIN cells'[w] THEN cells'[w][v + 1] ELSE {}
      BY <3>6, <3>10 DEF CellAt
    <3>12. QED
      BY <3>1, <3>8, <3>11 DEF Holds
  <2>3. QED
    BY <1>2, <1>3, <2>1, <2>2 DEF SymbolsFollowTheirBytes
<1>12. RelocationsFollowTheirBytes'
  <2>1. ASSUME NEW y \in Given, ~FlagsOf(y).overlay, object.sections[y].ref < object.sections[y].size
        PROVE  <<y, object.sections[y].ref>> \in CellAt(reloc[y].section, reloc[y].address)'
    <3>1. PICK b : b = <<y, object.sections[y].ref>>
      OBVIOUS
    <3>2. PICK a : a = reloc[y].address
      OBVIOUS
    <3>3. reloc[y].section = y /\ y # s /\ y # t
      BY <1>1, <1>2, <2>1 DEF Overlapping
    <3>4. b \in CellAt(y, a)
      BY <1>1, <2>1, <3>1, <3>2, <3>3 DEF RelocationsFollowTheirBytes
    <3>5. Holds(y, a + 1, b)
      BY <3>4 DEF CellAt, Holds
    <3>6. Holds(y, a + 1, b)'
      BY <1>4, <3>3, <3>5
    <3>7. CellAt(reloc[y].section, reloc[y].address)' = IF a + 1 \in DOMAIN cells'[y] THEN cells'[y][a + 1] ELSE {}
      BY <1>2, <3>2, <3>3 DEF CellAt
    <3>8. QED
      BY <3>1, <3>6, <3>7 DEF Holds
  <2>2. QED
    BY <1>2, <1>3, <2>1 DEF RelocationsFollowTheirBytes
<1>13. QED
  BY <1>1, <1>2, <1>5, <1>7, <1>8, <1>9, <1>10, <1>11, <1>12 DEF IInv, ReferencesFollowTheirBytes

-----------------------------------------------------------------------------
(***************************************************************************)
(* gp_cofflink_merge_sections                                              *)
(***************************************************************************)
\* The second section of a pair follows the first.
Joins(j, s, t) ==
    /\ TakenOff(j, s, t)
    /\ phase = "merge"
    /\ cells'[s] = cells[s] \o cells[t]
    /\ \A y \in Given :
          /\ symbol[y].section = t => symbol'[y].value = symbol[y].value + InUnits(TypeOf(s), SizeOf(s))
          /\ symbol[y].section # t => symbol'[y].value = symbol[y].value
    /\ \A r \in Given :
          /\ reloc[r].section = t => /\ reloc'[r].section = s
                                     /\ reloc'[r].address = reloc[r].address + SizeOf(s)
          /\ reloc[r].section # t => reloc'[r] = reloc[r]

JoinStep == \E j, s, t : Joins(j, s, t)

\* Two that cannot be joined end the link.
Refused ==
    /\ errors' = TRUE
    /\ phase = "merge" /\ phase' = "exit"
    /\ UNCHANGED <<object, list, cells, symbol, reloc, table, patched>>

LEMMA MergeTakes ==
    ASSUME IInv, MergeSections
    PROVE  Refused \/ JoinStep
<1>0. object \in Input /\ TypeOK
  BY DEF IInv
<1>1. phase = "merge" /\ Repeated # {}
  BY DEF MergeSections
<1>2. Early /\ Repeated \in SUBSET Repeated
  BY <1>1 DEF Early
<1>3. PICK i : i = Nearest(Repeated)
  OBVIOUS
<1>4. PICK j : j = Nearest(Second(i))
  OBVIOUS
<1>5. PICK s : s = list[i]
  OBVIOUS
<1>6. PICK t : t = list[j]
  OBVIOUS
<1>7. Meet(j, s, t)
  BY <1>1, <1>2, <1>3, <1>4, <1>5, <1>6, PairsMeet
<1>8. CASE Unmergeable(s, t)
  <2>1. /\ errors' = TRUE /\ phase' = "exit"
        /\ list' = list /\ cells' = cells /\ symbol' = symbol /\ reloc' = reloc
        /\ object' = object /\ table' = table /\ patched' = patched
    BY <1>3, <1>4, <1>5, <1>6, <1>8 DEF MergeSections
  <2>2. QED
    BY <1>1, <2>1 DEF Refused
<1>9. CASE ~Unmergeable(s, t)
  <2>1. /\ list' = RemoveAt(list, j)
        /\ cells' = [cells EXCEPT ![s] = @ \o cells[t], ![t] = <<>>]
        /\ symbol' = [y \in DOMAIN symbol |-> MovedSymbol(symbol[y], s, t)]
        /\ reloc' = [r \in DOMAIN reloc |-> MovedReloc(reloc[r], s, t)]
        /\ errors' = errors /\ phase' = phase
        /\ object' = object /\ table' = table /\ patched' = patched
    BY <1>3, <1>4, <1>5, <1>6, <1>9 DEF MergeSections
  <2>2. s \in Ids /\ t \in Ids /\ s # t /\ s \in Given /\ t \in Given
    BY <1>0, <1>7, IdFacts DEF Meet
  <2>3. cells \in [Ids -> Seq(SUBSET (Given \X Nat))]
    BY <1>0 DEF TypeOK
  <2>4. PICK c : c = cells[s] \o cells[t]
    OBVIOUS
  <2>5. c \in Seq(SUBSET (Given \X Nat))
    BY <2>2, <2>3, <2>4
  <2>6. cells' = [cells EXCEPT ![s] = c, ![t] = <<>>]
    BY <2>1, <2>2, <2>3, <2>4
  <2>7. /\ cells'[s] = c
        /\ cells'[t] = << >>
        /\ \A u \in Ids : u # s /\ u # t => cells'[u] = cells[u]
    BY <2>2, <2>3, <2>6
  <2>8. cells' \in [Ids -> Seq(SUBSET (Given \X Nat))]
    <3>1. << >> \in Seq(SUBSET (Given \X Nat))
      OBVIOUS
    <3>2. QED
      BY <2>2, <2>3, <2>5, <2>6, <3>1
  <2>9. PICK size \in Nat : size = SizeOf(s)
    BY <2>2, <2>3 DEF SizeOf
  <2>10. PICK units \in Nat : units = InUnits(TypeOf(s), SizeOf(s))
    BY <2>9, InUnitsIsNat
  <2>11. symbol \in [{0} \cup Given -> [section : {0} \cup Ids, value : Nat]]
    BY <1>0 DEF TypeOK
  <2>12. ASSUME NEW y \in {0} \cup Given
         PROVE  /\ symbol'[y] \in [section : {0} \cup Ids, value : Nat]
                /\ symbol[y].section = t =>
                      symbol'[y].section = s /\ symbol'[y].value = symbol[y].value + units
                /\ symbol[y].section # t => symbol'[y] = symbol[y]
    <3>1. symbol'[y] = MovedSymbol(symbol[y], s, t)
      BY <2>1, <2>11
    <3>2. CASE symbol[y].section = t
      <4>1. symbol'[y] = [section |-> s, value |-> symbol[y].value + units]
        BY <2>10, <3>1, <3>2 DEF MovedSymbol
      <4>2. QED
        BY <2>2, <2>11, <3>2, <4>1
    <3>3. CASE symbol[y].section # t
      BY <2>11, <3>1, <3>3 DEF MovedSymbol
    <3>4. QED
      BY <3>2, <3>3
  <2>13. symbol' \in [{0} \cup Given -> [section : {0} \cup Ids, value : Nat]]
    BY <2>1, <2>11, <2>12
  <2>14. reloc \in [Given -> [section : Given, address : Nat]]
    BY <1>0 DEF TypeOK
  <2>15. ASSUME NEW r \in Given
         PROVE  /\ reloc'[r] \in [section : Given, address : Nat]
                /\ reloc[r].section = t =>
                      reloc'[r].section = s /\ reloc'[r].address = reloc[r].address + size
                /\ reloc[r].section # t => reloc'[r] = reloc[r]
    <3>1. reloc'[r] = MovedReloc(reloc[r], s, t)
      BY <2>1, <2>14
    <3>2. CASE reloc[r].section = t
      <4>1. reloc'[r] = [section |-> s, address |-> reloc[r].address + size]
        BY <2>9, <3>1, <3>2 DEF MovedReloc
      <4>2. QED
        BY <2>2, <2>14, <3>2, <4>1
    <3>3. CASE reloc[r].section # t
      BY <2>14, <3>1, <3>3 DEF MovedReloc
    <3>4. QED
      BY <3>2, <3>3
  <2>16. reloc' \in [Given -> [section : Given, address : Nat]]
    BY <2>1, <2>14, <2>15
  <2>17. errors' \in BOOLEAN
    BY <1>0, <2>1 DEF TypeOK
  <2>18. \A y \in Given : symbol'[y].section = IF symbol[y].section = t THEN s ELSE symbol[y].section
    BY <2>12
  <2>19. TakenOff(j, s, t)
    BY <1>1, <1>7, <2>1, <2>7, <2>8, <2>13, <2>16, <2>17, <2>18 DEF TakenOff
  <2>20. Joins(j, s, t)
    BY <1>1, <2>4, <2>7, <2>9, <2>10, <2>12, <2>15, <2>19 DEF Joins
  <2>21. QED
    BY <2>20 DEF JoinStep
<1>10. QED
  BY <1>8, <1>9

\* The cells of the second section follow those of the first.
LEMMA JoinHolds ==
    ASSUME IInv, NEW j, NEW s, NEW t, Joins(j, s, t)
    PROVE  \E size \in Nat :
           /\ SizeOf(s) = size
           /\ \A u \in Given : \A n, b : Holds(u, n, b)' =>
                 u # t /\ \/ Holds(u, n, b)
                          \/ u = s /\ n \in Nat /\ n > size /\ Holds(t, n - size, b)
           /\ \A u \in Given \ {t} : \A n, b : Holds(u, n, b) => Holds(u, n, b)'
           /\ \A n, b : Holds(t, n, b) => n \in Nat /\ Holds(s, size + n, b)'
<1>1. /\ object \in Input /\ TypeOK
      /\ cells \in [Ids -> Seq(SUBSET (Given \X Nat))]
      /\ s \in Given /\ t \in Given /\ s # t
  BY DEF IInv, TypeOK, Joins, TakenOff, Meet
<1>2. s \in Ids /\ t \in Ids /\ \A u \in Given : u \in Ids
  BY <1>1, IdFacts
<1>3. PICK a : a = cells[s]
  OBVIOUS
<1>4. PICK d : d = cells[t]
  OBVIOUS
<1>5. PICK X : X = SUBSET (Given \X Nat)
  OBVIOUS
<1>6. a \in Seq(X) /\ d \in Seq(X) /\ Len(a) \in Nat /\ Len(d) \in Nat
  BY <1>1, <1>2, <1>3, <1>4, <1>5
<1>7. PICK c : c = a \o d
  OBVIOUS
<1>8. /\ DOMAIN c = 1 .. Len(a) + Len(d)
      /\ \A k \in 1 .. Len(a) : c[k] = a[k]
      /\ \A k \in 1 .. Len(d) : c[Len(a) + k] = d[k]
      /\ DOMAIN a = 1 .. Len(a) /\ DOMAIN d = 1 .. Len(d)
  BY <1>6, <1>7
<1>9. SizeOf(s) = Len(a) /\ cells'[s] = c /\ cells'[t] = << >>
  BY <1>3, <1>4, <1>7 DEF SizeOf, Joins, TakenOff
<1>10. \A n, b : /\ Holds(s, n, b) <=> n \in DOMAIN a /\ b \in a[n]
                 /\ Holds(t, n, b) <=> n \in DOMAIN d /\ b \in d[n]
                 /\ Holds(s, n, b)' <=> n \in DOMAIN c /\ b \in c[n]
                 /\ ~Holds(t, n, b)'
  BY <1>3, <1>4, <1>9 DEF Holds
<1>11. \A u \in Given : u # s /\ u # t => \A n, b : Holds(u, n, b)' <=> Holds(u, n, b)
  BY <1>2 DEF Holds, Joins, TakenOff
<1>12. ASSUME NEW n, NEW b, Holds(s, n, b)'
       PROVE  Holds(s, n, b) \/ (n \in Nat /\ n > Len(a) /\ Holds(t, n - Len(a), b))
  <2>1. n \in 1 .. Len(a) + Len(d) /\ b \in c[n] /\ n \in Nat
    BY <1>6, <1>8, <1>10, <1>12
  <2>2. CASE n <= Len(a)
    <3>1. n \in 1 .. Len(a)
      BY <1>6, <2>1, <2>2
    <3>2. QED
      BY <1>8, <1>10, <2>1, <3>1
  <2>3. CASE ~(n <= Len(a))
    <3>1. n - Len(a) \in 1 .. Len(d) /\ Len(a) + (n - Len(a)) = n /\ n > Len(a)
      BY <1>6, <2>1, <2>3
    <3>2. QED
      BY <1>8, <1>10, <2>1, <3>1
  <2>4. QED
    BY <2>2, <2>3
<1>13. ASSUME NEW n, NEW b, Holds(s, n, b) PROVE Holds(s, n, b)'
  <2>1. n \in 1 .. Len(a) /\ b \in a[n]
    BY <1>8, <1>10, <1>13
  <2>2. n \in 1 .. Len(a) + Len(d)
    BY <1>6, <2>1
  <2>3. QED
    BY <1>8, <1>10, <2>1, <2>2
<1>14. ASSUME NEW n, NEW b, Holds(t, n, b) PROVE n \in Nat /\ Holds(s, Len(a) + n, b)'
  <2>1. n \in 1 .. Len(d) /\ b \in d[n] /\ n \in Nat
    BY <1>6, <1>8, <1>10, <1>14
  <2>2. Len(a) + n \in 1 .. Len(a) + Len(d)
    BY <1>6, <2>1
  <2>3. c[Len(a) + n] = d[n]
    BY <1>8, <2>1
  <2>4. QED
    BY <1>8, <1>10, <2>1, <2>2, <2>3
<1>15. \A u \in Given : \A n, b : Holds(u, n, b)' =>
         u # t /\ \/ Holds(u, n, b)
                  \/ u = s /\ n \in Nat /\ n > Len(a) /\ Holds(t, n - Len(a), b)
  BY <1>10, <1>11, <1>12
<1>16. \A u \in Given \ {t} : \A n, b : Holds(u, n, b) => Holds(u, n, b)'
  BY <1>11, <1>13
<1>17. QED
  BY <1>6, <1>9, <1>14, <1>15, <1>16

LEMMA JoinKeeps ==
    ASSUME IInv, NEW j, NEW s, NEW t, Joins(j, s, t)
    PROVE  IInv'
<1>1. /\ object \in Input /\ TypeOK /\ Listed /\ Kept /\ OnlyOverlaysShare
      /\ WholeWords /\ SymbolsFollowTheirBytes /\ RelocationsFollowTheirBytes
      /\ TakenOff(j, s, t)
  BY DEF IInv, ReferencesFollowTheirBytes, Joins
<1>2. /\ object' = object /\ phase' = phase /\ phase = "merge"
      /\ s \in Given /\ t \in Given /\ s # t /\ SameName(s, t)
      /\ s \in Ids /\ t \in Ids
  BY <1>1, IdFacts DEF Joins, TakenOff, Meet
<1>3. /\ Given' = Given
      /\ \A u : FlagsOf(u)' = FlagsOf(u)
      /\ \A u, v : SameName(u, v)' <=> SameName(u, v)
      /\ Agreed' <=> Agreed
  BY <1>2 DEF Given, FlagsOf, SameName, Agreed
<1>4. PICK size \in Nat :
           /\ SizeOf(s) = size
           /\ \A u \in Given : \A n, b : Holds(u, n, b)' =>
                 u # t /\ \/ Holds(u, n, b)
                          \/ u = s /\ n \in Nat /\ n > size /\ Holds(t, n - size, b)
           /\ \A u \in Given \ {t} : \A n, b : Holds(u, n, b) => Holds(u, n, b)'
           /\ \A n, b : Holds(t, n, b) => n \in Nat /\ Holds(s, size + n, b)'
  BY JoinHolds
<1>5. TypeOK' /\ Listed' /\ Joined' /\ Copied' /\ Tabled' /\ CopiesArePatched'
  BY <1>1, ListedStays
<1>6. \A n, b : Holds(s, n, b) => n \in 1 .. size
  BY <1>1, <1>2, <1>4, HoldsIn DEF SizeOf
<1>7. Kept'
  <2>1. /\ \A u, v \in Given : \A n, m, b : (Holds(u, n, b) /\ Holds(v, m, b)) => u = v /\ n = m
        /\ \A y \in Given : \A k \in 0 .. object.sections[y].size - 1 :
              \E u \in Given : \E n : Holds(u, n, <<y, k>>)
    BY <1>1, KeptHolds
  <2>2. ASSUME NEW u \in Given, NEW v \in Given, NEW n, NEW m, NEW b, Holds(u, n, b)', Holds(v, m, b)'
        PROVE  u = v /\ n = m
    <3>1. u # t /\ \/ Holds(u, n, b)
                   \/ u = s /\ n \in Nat /\ n > size /\ Holds(t, n - size, b)
      BY <1>4, <2>2
    <3>2. v # t /\ \/ Holds(v, m, b)
                   \/ v = s /\ m \in Nat /\ m > size /\ Holds(t, m - size, b)
      BY <1>4, <2>2
    <3>3. CASE Holds(u, n, b) /\ Holds(v, m, b)
      BY <2>1, <3>3
    <3>4. CASE Holds(u, n, b) /\ Holds(t, m - size, b)
      BY <1>2, <2>1, <3>1, <3>4
    <3>5. CASE Holds(t, n - size, b) /\ Holds(v, m, b)
      BY <1>2, <2>1, <3>2, <3>5
    <3>6. CASE /\ u = s /\ n \in Nat /\ Holds(t, n - size, b)
               /\ v = s /\ m \in Nat /\ Holds(t, m - size, b)
      <4>1. n - size = m - size
        BY <1>2, <2>1, <3>6
      <4>2. QED
        BY <3>6, <4>1
    <3>7. QED
      BY <3>1, <3>2, <3>3, <3>4, <3>5, <3>6
  <2>3. ASSUME NEW y \in Given, NEW k \in 0 .. object.sections[y].size - 1
        PROVE  \E u \in Given : \E n : Holds(u, n, <<y, k>>)'
    <3>1. PICK u \in Given : \E n : Holds(u, n, <<y, k>>)
      BY <2>1
    <3>2. PICK n : Holds(u, n, <<y, k>>)
      BY <3>1
    <3>3. CASE u = t
      BY <1>2, <1>4, <3>2, <3>3
    <3>4. CASE u # t
      BY <1>4, <3>2, <3>4
    <3>5. QED
      BY <3>3, <3>4
  <2>4. Kept' <=> /\ \A u, v \in Given' : \A n, m, b : (Holds(u, n, b)' /\ Holds(v, m, b)') => u = v /\ n = m
                  /\ \A y \in Given' : \A k \in 0 .. object'.sections[y].size - 1 :
                        \E u \in Given' : \E n : Holds(u, n, <<y, k>>)'
    BY DEF Kept, Holds
  <2>5. QED
    BY <1>2, <1>3, <2>2, <2>3, <2>4
<1>8. OnlyOverlaysShare'
  <2>1. \A u \in Given : \A n, b, c : (Holds(u, n, b) /\ Holds(u, n, c) /\ b # c) =>
            SameName(b[1], c[1]) /\ FlagsOf(b[1]).overlay /\ FlagsOf(c[1]).overlay /\ b[2] = c[2]
    BY <1>1, ShareHolds
  <2>2. ASSUME NEW u \in Given, NEW n, NEW b, NEW c, Holds(u, n, b)', Holds(u, n, c)', b # c
        PROVE  SameName(b[1], c[1]) /\ FlagsOf(b[1]).overlay /\ FlagsOf(c[1]).overlay /\ b[2] = c[2]
    <3>1. /\ \/ Holds(u, n, b)
             \/ u = s /\ n \in Nat /\ n > size /\ Holds(t, n - size, b)
          /\ \/ Holds(u, n, c)
             \/ u = s /\ n \in Nat /\ n > size /\ Holds(t, n - size, c)
      BY <1>4, <2>2
    <3>2. CASE Holds(u, n, b) /\ Holds(u, n, c)
      BY <2>1, <2>2, <3>2
    <3>3. CASE u = s /\ n \in Nat /\ n > size
      <4>1. ~Holds(s, n, b) /\ ~Holds(s, n, c)
        BY <1>6, <3>3
      <4>2. Holds(t, n - size, b) /\ Holds(t, n - size, c)
        BY <3>1, <3>3, <4>1
      <4>3. QED
        BY <1>2, <2>1, <2>2, <4>2
    <3>4. QED
      BY <3>1, <3>2, <3>3
  <2>3. OnlyOverlaysShare' <=>
          \A u \in Given' : \A n, b, c : (Holds(u, n, b)' /\ Holds(u, n, c)' /\ b # c) =>
            SameName(b[1], c[1])' /\ FlagsOf(b[1])'.overlay /\ FlagsOf(c[1])'.overlay /\ b[2] = c[2]
    BY DEF OnlyOverlaysShare, Holds
  <2>4. QED
    BY <1>3, <2>2, <2>3
<1>9. Overlapping'
  BY <1>2 DEF Overlapping
<1>10. ASSUME Agreed PROVE TypeOf(s) = TypeOf(t) /\ FlagsOf(s) = FlagsOf(t)
  BY <1>1, <1>2, <1>10, TypeFacts DEF Agreed
<1>11. ASSUME Agreed, ~object.pic16e, TypeOf(s) = "code" PROVE size % 2 = 0
  BY <1>1, <1>2, <1>4, <1>11 DEF WholeWords
<1>12. WholeWords'
  <2>1. \A u \in Given : TypeOf(u)' = FlagsOf(u).type /\ TypeOf(u) = FlagsOf(u).type
    BY <1>3 DEF TypeOf
  <2>2. ASSUME Agreed, ~object.pic16e, NEW u \in Given, FlagsOf(u).type = "code"
        PROVE  Len(cells'[u]) % 2 = 0
    <3>0. \A w \in Given : w \in Ids
      BY <1>1, IdFacts
    <3>1. \A w \in Given : FlagsOf(w).type = "code" => Len(cells[w]) % 2 = 0
      BY <1>1, <2>1, <2>2 DEF WholeWords, SizeOf
    <3>2. CASE u = s
      <4>1. Len(cells[s]) % 2 = 0 /\ Len(cells[t]) % 2 = 0
        BY <1>2, <1>10, <2>2, <3>1, <3>2
      <4>2. Len(cells[s]) \in Nat /\ Len(cells[t]) \in Nat /\ Len(cells[s] \o cells[t]) = Len(cells[s]) + Len(cells[t])
        BY <1>1, <1>2 DEF TypeOK
      <4>3. \A p, q \in Nat : p % 2 = 0 /\ q % 2 = 0 => (p + q) % 2 = 0
        OBVIOUS
      <4>4. (Len(cells[s]) + Len(cells[t])) % 2 = 0
        BY <4>1, <4>2, <4>3
      <4>5. cells'[s] = cells[s] \o cells[t]
        BY DEF Joins
      <4>6. QED
        BY <3>2, <4>2, <4>4, <4>5
    <3>3. CASE u = t
      <4>1. cells'[t] = << >>
        BY DEF Joins, TakenOff
      <4>2. QED
        BY <3>3, <4>1
    <3>4. CASE u # s /\ u # t
      BY <2>2, <3>0, <3>1, <3>4 DEF Joins, TakenOff
    <3>5. QED
      BY <3>2, <3>3, <3>4
  <2>3. QED
    BY <1>2, <1>3, <2>1, <2>2 DEF WholeWords, SizeOf
<1>13. SymbolsFollowTheirBytes'
  <2>1. ASSUME Agreed, NEW y \in Given, object.sections[y].label < object.sections[y].size
        PROVE  <<y, object.sections[y].label>> \in
                  CellAt(symbol[y].section, InBytes(TypeOf(symbol[y].section), symbol[y].value))'
    <3>1. PICK b : b = <<y, object.sections[y].label>>
      OBVIOUS
    <3>2. PICK u : u = symbol[y].section
      OBVIOUS
    <3>3. PICK v \in Nat : v = symbol[y].value
      BY <1>1 DEF TypeOK
    <3>4. PICK p : p = InBytes(TypeOf(u), v)
      OBVIOUS
    <3>5. b \in CellAt(u, p) /\ u \in Given
      BY <1>1, <2>1, <3>1, <3>2, <3>3, <3>4 DEF SymbolsFollowTheirBytes, Listed
    <3>6. Holds(u, p + 1, b) /\ p \in Nat
      BY <3>3, <3>4, <3>5 DEF CellAt, Holds, InBytes
    <3>7. PICK w : w = symbol'[y].section
      OBVIOUS
    <3>8. PICK x : x = symbol'[y].value
      OBVIOUS
    <3>9. w \in Given /\ Holds(w, InBytes(TypeOf(w), x) + 1, b)'
            /\ TypeOf(w) = FlagsOf(w).type
      <4>1. CASE u = t
        <5>1. w = s /\ x = v + InUnits(TypeOf(s), size)
          BY <1>1, <1>4, <3>2, <3>3, <3>7, <3>8, <4>1 DEF TakenOff, Joins
        <5>2. (TypeOf(s) \in {"code", "rom"} /\ ~object.pic16e) => size % 2 = 0
          BY <1>1, <1>2, <1>11, <2>1, ObjectFacts, TypeFacts
        <5>3. InBytes(TypeOf(s), x) = p + size
          BY <1>1, <1>10, <2>1, <3>4, <4>1, <5>1, <5>2, UnitsAndBack
        <5>4. Holds(s, size + (p + 1), b)'
          BY <1>4, <3>6, <4>1
        <5>5. size + (p + 1) = (p + size) + 1
          BY <3>6
        <5>6. PICK z : z = InBytes(TypeOf(s), x) + 1
          OBVIOUS
        <5>7. Holds(s, z, b)'
          BY <5>3, <5>4, <5>5, <5>6
        <5>8. InBytes(TypeOf(w), x)' = InBytes(TypeOf(s), x)
          BY <1>2, <1>3, <5>1 DEF InBytes, TypeOf
        <5>9. QED
          BY <1>1, <1>2, <5>1, <5>6, <5>7, <5>8, TypeFacts DEF Holds
      <4>2. CASE u # t
        <5>1. w = u /\ x = v
          BY <1>1, <3>2, <3>3, <3>7, <3>8, <4>2 DEF TakenOff, Joins
        <5>2. Holds(u, p + 1, b)'
          BY <1>4, <3>5, <3>6, <4>2
        <5>3. InBytes(TypeOf(w), x)' = p
          BY <1>2, <1>3, <3>4, <3>5, <5>1 DEF InBytes, TypeOf
        <5>4. QED
          BY <1>1, <3>5, <5>1, <5>2, <5>3, TypeFacts DEF Holds
      <4>3. QED
        BY <4>1, <4>2
    <3>10. InBytes(TypeOf(symbol[y].section), symbol[y].value)' = InBytes(TypeOf(w), x)'
      BY <3>7, <3>8 DEF InBytes, TypeOf, FlagsOf
    <3>11. QED
      BY <3>1, <3>7, <3>9, <3>10 DEF CellAt, Holds
  <2>2. QED
    BY <1>2, <1>3, <2>1 DEF SymbolsFollowTheirBytes
<1>14. RelocationsFollowTheirBytes'
  <2>1. ASSUME NEW y \in Given, ~FlagsOf(y).overlay, object.sections[y].ref < object.sections[y].size
        PROVE  <<y, object.sections[y].ref>> \in CellAt(reloc[y].section, reloc[y].address)'
    <3>1. PICK b : b = <<y, object.sections[y].ref>>
      OBVIOUS
    <3>2. PICK a \in Nat : a = reloc[y].address
      BY <1>1 DEF TypeOK
    <3>3. PICK u \in Given : u = reloc[y].section
      BY <1>1 DEF TypeOK
    <3>4. b \in CellAt(u, a)
      BY <1>1, <2>1, <3>1, <3>2, <3>3 DEF RelocationsFollowTheirBytes
    <3>5. Holds(u, a + 1, b)
      BY <3>4 DEF CellAt, Holds
    <3>6. \E w, x : w = reloc'[y].section /\ x = reloc'[y].address /\ Holds(w, x + 1, b)'
      <4>1. CASE u = t
        <5>1. reloc'[y].section = s /\ reloc'[y].address = a + size
          BY <1>4, <3>2, <3>3, <4>1 DEF Joins
        <5>2. Holds(s, size + (a + 1), b)'
          BY <1>4, <3>5, <4>1
        <5>3. size + (a + 1) = (a + size) + 1
          OBVIOUS
        <5>4. Holds(s, (a + size) + 1, b)'
          BY <5>2, <5>3
        <5>5. QED
          BY <5>1, <5>4
      <4>2. CASE u # t
        <5>1. reloc'[y].section = u /\ reloc'[y].address = a
          BY <3>2, <3>3, <4>2 DEF Joins
        <5>2. Holds(u, a + 1, b)'
          BY <1>4, <3>5, <4>2
        <5>3. QED
          BY <5>1, <5>2
      <4>3. QED
        BY <4>1, <4>2
    <3>7. QED
      BY <3>1, <3>6 DEF CellAt, Holds
  <2>2. QED
    BY <1>2, <1>3, <2>1 DEF RelocationsFollowTheirBytes
<1>15. QED
  BY <1>1, <1>2, <1>5, <1>7, <1>8, <1>9, <1>12, <1>13, <1>14 DEF IInv, ReferencesFollowTheirBytes

-----------------------------------------------------------------------------
(***************************************************************************)
(* Steps of phase and error alone.                                         *)
(***************************************************************************)
LEMMA NamesJoined ==
    ASSUME IInv, Early, Repeated = {}
    PROVE  \A s, t \in Given \cap Range(list) : SameName(s, t) => s = t
<1>1. object \in Input /\ list \in Seq(Ids)
  BY DEF IInv, TypeOK
<1>2. DOMAIN list = 1 .. Len(list) /\ Len(list) \in Nat
  BY <1>1
<1>3. SUFFICES ASSUME NEW s \in Given, NEW t \in Given, s \in Range(list), t \in Range(list), SameName(s, t)
               PROVE  s = t
  OBVIOUS
<1>4. PICK p \in DOMAIN list : list[p] = s
  BY <1>3 DEF Range
<1>5. PICK q \in DOMAIN list : list[q] = t
  BY <1>3 DEF Range
<1>6. NameOf(list[p]) = NameOf(list[q])
  BY <1>1, <1>3, <1>4, <1>5, TypeFacts DEF SameName
<1>7. ~(p < q)
  <2>1. SUFFICES ASSUME p < q PROVE FALSE
    OBVIOUS
  <2>2. q \in p + 1 .. Len(list)
    BY <1>2, <2>1
  <2>3. q \in Second(p)
    BY <1>6, <2>2 DEF Second
  <2>4. QED
    BY <2>3 DEF Repeated
<1>8. ~(q < p)
  <2>1. SUFFICES ASSUME q < p PROVE FALSE
    OBVIOUS
  <2>2. p \in q + 1 .. Len(list)
    BY <1>2, <2>1
  <2>3. p \in Second(q)
    BY <1>6, <2>2 DEF Second
  <2>4. QED
    BY <2>3 DEF Repeated
<1>9. p = q
  BY <1>2, <1>7, <1>8
<1>10. QED
  BY <1>4, <1>5, <1>9

LEMMA SameObject ==
    ASSUME UNCHANGED <<object, list, cells>>
    PROVE  /\ Given' = Given /\ Ids' = Ids /\ N' = N /\ Cinit' = Cinit
           /\ \A u : FlagsOf(u)' = FlagsOf(u)
           /\ \A u, v : SameName(u, v)' <=> SameName(u, v)
           /\ Agreed' <=> Agreed
           /\ \A u : Copy(u)' = Copy(u)
           /\ \A u : SizeOf(u)' = SizeOf(u)
           /\ \A u : TypeOf(u)' = TypeOf(u)
           /\ \A u : NameOf(u)' = NameOf(u)
           /\ Range(list)' = Range(list)
           /\ InitData' = InitData
<1>1. /\ object' = object /\ list' = list /\ cells' = cells
  OBVIOUS
<1>2. /\ Given' = Given /\ Ids' = Ids /\ N' = N /\ Cinit' = Cinit
      /\ \A u : FlagsOf(u)' = FlagsOf(u)
      /\ \A u, v : SameName(u, v)' <=> SameName(u, v)
      /\ Agreed' <=> Agreed
      /\ \A u : Copy(u)' = Copy(u)
      /\ \A u : SizeOf(u)' = SizeOf(u)
      /\ Range(list)' = Range(list)
  BY <1>1 DEF Given, Ids, Cinit, N, FlagsOf, SameName, Agreed, Copy, SizeOf, Range
<1>3. \A u : TypeOf(u)' = TypeOf(u)
  BY <1>2 DEF TypeOf
<1>4. \A u : NameOf(u)' = NameOf(u)
  BY <1>1, <1>2 DEF NameOf
<1>5. InitData' = InitData
  BY <1>2, <1>3 DEF InitData
<1>6. QED
  BY <1>2, <1>3, <1>4, <1>5

\* What depends on the sections alone stays with them.
LEMMA BytesStay ==
    ASSUME IInv, UNCHANGED <<object, list, cells, symbol, reloc>>,
           Early' => Early, Late' => Late, phase' = "overlay" => phase = "overlay"
    PROVE  /\ Listed' /\ Kept' /\ OnlyOverlaysShare' /\ Overlapping' /\ WholeWords'
           /\ ReferencesFollowTheirBytes' /\ Copied'
           /\ Late' => Joined'
<1>1. /\ object' = object /\ list' = list /\ cells' = cells /\ symbol' = symbol
      /\ reloc' = reloc
  OBVIOUS
<1>2. /\ Given' = Given /\ Ids' = Ids /\ N' = N /\ Cinit' = Cinit
      /\ \A u : FlagsOf(u)' = FlagsOf(u)
      /\ \A u, v : SameName(u, v)' <=> SameName(u, v)
      /\ Agreed' <=> Agreed
      /\ \A u : Copy(u)' = Copy(u)
      /\ \A u : SizeOf(u)' = SizeOf(u)
      /\ Range(list)' = Range(list)
  BY <1>1, SameObject
<1>3. \A u : TypeOf(u)' = TypeOf(u)
  BY <1>1, SameObject
<1>5. InitData' = InitData
  BY <1>1, SameObject
<1>8. Early' => Early
  OBVIOUS
<1>9. Late' => Late
  OBVIOUS
<1>10. Listed'
  BY <1>1, <1>2, <1>8 DEF IInv, Listed
<1>11. Kept'
  BY <1>1, <1>2 DEF IInv, Kept
<1>12. OnlyOverlaysShare'
  BY <1>1, <1>2 DEF IInv, OnlyOverlaysShare
<1>13. Overlapping'
  <2>1. phase' = "overlay" => phase = "overlay"
    OBVIOUS
  <2>2. QED
    BY <1>1, <1>2, <2>1 DEF IInv, Overlapping
<1>14. WholeWords'
  BY <1>1, <1>2, <1>3 DEF IInv, WholeWords
<1>15. SymbolsFollowTheirBytes'
  <2>1. SymbolsFollowTheirBytes
    BY DEF IInv, ReferencesFollowTheirBytes
  <2>2. QED
    BY <1>1, <1>2, <1>3, <2>1 DEF SymbolsFollowTheirBytes, CellAt, InBytes, TypeOf, FlagsOf, Given
<1>16. RelocationsFollowTheirBytes'
  <2>1. RelocationsFollowTheirBytes
    BY DEF IInv, ReferencesFollowTheirBytes
  <2>2. QED
    BY <1>1, <1>2, <2>1 DEF RelocationsFollowTheirBytes, CellAt
<1>17. Late' => Joined'
  BY <1>1, <1>2 DEF IInv, Joined
<1>18. Copied'
  <2>1. ASSUME Late PROVE Copied'
    <3>1. /\ \A i \in DOMAIN list : list[i] \in InitData =>
                i + 1 \in DOMAIN list /\ list[i + 1] = Copy(list[i])
          /\ \A s \in Range(list) : s \notin Given =>
                s = Cinit \/ (s - N \in InitData /\ s = Copy(s - N))
          /\ \A s \in InitData : cells[Copy(s)] = CopiedCells(cells[s])
      BY <2>1 DEF IInv, Copied
    <3>2. \A s : CopiedCells(cells[s])' = CopiedCells(cells[s])
      BY <1>1 DEF CopiedCells, CopySize, PlaceInCopy
    <3>3. \A s \in InitData : cells'[Copy(s)'] = CopiedCells(cells[s])'
      <4>1. \A s \in InitData : cells[Copy(s)] = CopiedCells(cells[s])
        BY <3>1
      <4>2. \A s : cells'[Copy(s)'] = cells[Copy(s)]
        BY <1>1, <1>2
      <4>3. QED
        BY <3>2, <4>1, <4>2
    <3>4. \A i \in DOMAIN list : Copy(list[i])' = Copy(list[i])
      BY <1>1, <1>2 DEF Copy
    <3>5. \A s : Copy(s - N)' = Copy(s - N)
      BY <1>2 DEF Copy
    <3>6. QED
      BY <1>1, <1>2, <1>5, <3>1, <3>3, <3>4, <3>5 DEF Copied
  <2>2. QED
    BY <1>9, <2>1 DEF Copied
<1>19. QED
  BY <1>10, <1>11, <1>12, <1>13, <1>14, <1>15, <1>16, <1>17, <1>18 DEF ReferencesFollowTheirBytes

LEMMA PhaseKeeps ==
    ASSUME IInv, UNCHANGED <<object, list, cells, symbol, reloc, table, patched>>,
           errors' \in BOOLEAN,
           \/ phase' = phase
           \/ phase = "overlay" /\ phase' = "merge"
           \/ phase = "merge" /\ phase' = "exit"
           \/ phase = "merge" /\ phase' = "idata" /\ Repeated = {}
    PROVE  IInv'
<1>1. /\ object' = object /\ list' = list /\ cells' = cells /\ symbol' = symbol
      /\ reloc' = reloc /\ table' = table /\ patched' = patched
  OBVIOUS
<1>2. /\ Given' = Given /\ Ids' = Ids
      /\ \A u : SizeOf(u)' = SizeOf(u) /\ TypeOf(u)' = TypeOf(u) /\ Copy(u)' = Copy(u)
      /\ \A u, v : SameName(u, v)' <=> SameName(u, v)
      /\ Range(list)' = Range(list)
      /\ InitData' = InitData
  BY <1>1, SameObject
<1>6. phase \in {"overlay", "merge", "idata", "table", "patch", "done", "exit"} /\ TypeOK
  BY DEF IInv, TypeOK
<1>7. TypeOK'
  BY <1>1, <1>2, <1>6 DEF TypeOK
<1>8. Early' => Early
  BY <1>6 DEF Early
<1>9. (Late' => Late) /\ (phase' = "overlay" => phase = "overlay")
  BY <1>6 DEF Late
<1>10. /\ Listed' /\ Kept' /\ OnlyOverlaysShare' /\ Overlapping' /\ WholeWords'
       /\ ReferencesFollowTheirBytes' /\ Copied'
  BY <1>1, <1>8, <1>9, BytesStay
<1>17. Joined'
  <2>1. CASE phase' = phase
    BY <1>2, <2>1 DEF IInv, Joined, Late
  <2>2. CASE Repeated = {} /\ phase = "merge"
    <3>1. \A s, t \in Given \cap Range(list) : SameName(s, t) => s = t
      BY <2>2, NamesJoined DEF Early
    <3>2. QED
      BY <1>2, <3>1 DEF Joined
  <2>3. CASE phase' \in {"merge", "exit"}
    BY <2>3 DEF Joined, Late
  <2>4. QED
    BY <2>1, <2>2, <2>3
<1>19. Tabled'
  <2>1. ASSUME phase \in {"patch", "done"} PROVE Tabled'
    <3>1. /\ \A s \in InitData : \E e \in DOMAIN table : table[e].to = s
          /\ \A e \in DOMAIN table :
                /\ table[e].to \in InitData
                /\ table[e].from = Find(CopyName(NameOf(table[e].to)))
                /\ table[e].size = SizeOf(table[e].to)
          /\ \A d, e \in DOMAIN table : table[d].to = table[e].to => d = e
      BY <2>1 DEF IInv, Tabled
    <3>2. \A e \in DOMAIN table : SizeOf(table[e].to)' = SizeOf(table[e].to)
      BY <1>1 DEF SizeOf
    <3>3. \A e \in DOMAIN table : Find(CopyName(NameOf(table[e].to)))' = Find(CopyName(NameOf(table[e].to)))
      <4>1. \A nm : {i \in DOMAIN list : NameOf(list[i]) = nm}' = {i \in DOMAIN list : NameOf(list[i]) = nm}
        BY <1>1, SameObject
      <4>2. \A nm : Find(nm)' = Find(nm)
        BY <1>1, <4>1 DEF Find
      <4>3. \A e \in DOMAIN table : NameOf(table[e].to)' = NameOf(table[e].to)
        BY <1>1 DEF NameOf, Given, Cinit, N
      <4>4. QED
        BY <4>1, <4>3, <1>1 DEF Find
    <3>4. QED
      BY <1>1, <1>2, <3>1, <3>2, <3>3 DEF Tabled
  <2>2. phase' \in {"patch", "done"} => phase \in {"patch", "done"}
    BY <1>6
  <2>3. QED
    BY <2>1, <2>2 DEF Tabled
<1>20. CopiesArePatched'
  <2>1. phase' = "done" => phase = "done"
    BY <1>6
  <2>2. \A i \in DOMAIN list : SizeOf(list[i])' = SizeOf(list[i]) /\ Copy(list[i])' = Copy(list[i])
    BY <1>1, <1>2 DEF SizeOf, Copy
  <2>3. QED
    BY <1>1, <1>2, <2>1, <2>2 DEF IInv, CopiesArePatched
<1>21. QED
  BY <1>1, <1>7, <1>10, <1>17, <1>19, <1>20 DEF IInv

-----------------------------------------------------------------------------
(***************************************************************************)
(* gp_cofflink_make_idata                                                  *)
(***************************************************************************)
WithCopies == [k \in DOMAIN list |->
                  IF list[k] \in InitData THEN <<list[k], Copy(list[k])>> ELSE <<list[k]>>]

LEMMA CopiesBehind ==
    ASSUME IInv, Early
    PROVE  LET w == FlattenSeq(WithCopies)
           IN  /\ w \in Seq(Ids)
               /\ \A p, q \in DOMAIN w : w[p] = w[q] => p = q
               /\ Range(w) = Range(list) \cup {Copy(s) : s \in InitData}
               /\ \A p \in DOMAIN w : w[p] \in InitData =>
                     p + 1 \in DOMAIN w /\ w[p + 1] = Copy(w[p])
<1>1. /\ object \in Input /\ list \in Seq(Ids) /\ Range(list) \subseteq Given
      /\ \A i, j \in DOMAIN list : list[i] = list[j] => i = j
  BY DEF IInv, TypeOK, Listed
<1>2. DOMAIN list = 1 .. Len(list) /\ Len(list) \in Nat
  BY <1>1
<1>3. \A i \in DOMAIN list : list[i] \in Given /\ list[i] \in Ids /\ Copy(list[i]) \in Ids
  BY <1>1, IdFacts DEF Range
<1>4. PICK q : q = WithCopies
  OBVIOUS
<1>5. /\ DOMAIN q = 1 .. Len(list)
      /\ \A i \in DOMAIN list :
            /\ list[i] \in InitData => q[i] = <<list[i], Copy(list[i])>>
            /\ list[i] \notin InitData => q[i] = <<list[i]>>
  BY <1>2, <1>4 DEF WithCopies
<1>6. \A i \in DOMAIN list :
         /\ q[i] \in Seq(Ids) /\ Len(q[i]) \in {1, 2} /\ q[i][1] = list[i]
         /\ Len(q[i]) = 2 <=> list[i] \in InitData
         /\ Len(q[i]) = 2 => q[i][2] = Copy(list[i])
  <2>1. TAKE i \in DOMAIN list
  <2>2. PICK x \in Ids : x = list[i]
    BY <1>3
  <2>3. PICK y \in Ids : y = Copy(list[i])
    BY <1>3
  <2>4. CASE list[i] \in InitData
    <3>1. q[i] = <<x, y>>
      BY <1>5, <2>2, <2>3, <2>4
    <3>2. <<x, y>> \in Seq(Ids) /\ Len(<<x, y>>) = 2 /\ <<x, y>>[1] = x /\ <<x, y>>[2] = y
      OBVIOUS
    <3>3. QED
      BY <2>2, <2>3, <2>4, <3>1, <3>2
  <2>5. CASE list[i] \notin InitData
    <3>1. q[i] = <<x>>
      BY <1>5, <2>2, <2>5
    <3>2. <<x>> \in Seq(Ids) /\ Len(<<x>>) = 1 /\ <<x>>[1] = x
      OBVIOUS
    <3>3. QED
      BY <2>2, <2>5, <3>1, <3>2
  <2>6. QED
    BY <2>4, <2>5
<1>7. q \in Seq(Seq(Ids)) /\ Len(q) = Len(list)
  <2>1. \A i \in 1 .. Len(list) : q[i] \in Seq(Ids)
    BY <1>2, <1>6
  <2>2. q = [i \in 1 .. Len(list) |-> q[i]]
    BY <1>4, <1>5 DEF WithCopies
  <2>3. PICK n \in Nat : n = Len(list)
    BY <1>2
  <2>4. PICK S : S = Seq(Ids)
    OBVIOUS
  <2>5. q \in Seq(S)
    BY <2>1, <2>2, <2>3, <2>4, IsASeq
  <2>6. Len(q) = Len(list)
    BY <1>2, <1>5, <2>5
  <2>7. QED
    BY <2>4, <2>5, <2>6
<1>8. PICK w : w = FlattenSeq(q)
  OBVIOUS
<1>9. w \in Seq(Ids) /\ \E off : InOrder(q, w, Len(list), off)
  BY <1>7, <1>8, Flattened
<1>10. PICK off : InOrder(q, w, Len(list), off)
  BY <1>9
<1>11. /\ off \in [0 .. Len(list) -> Nat]
       /\ off[Len(list)] = Len(w)
       /\ \A i \in 1 .. Len(list) : off[i] = off[i - 1] + Len(q[i]) /\ off[i] <= Len(w)
       /\ \A i \in 1 .. Len(list) : \A m \in 1 .. Len(q[i]) : w[off[i - 1] + m] = q[i][m]
       /\ \A p \in 1 .. Len(w) : \E i \in 1 .. Len(list) : \E m \in 1 .. Len(q[i]) : p = off[i - 1] + m
  BY <1>10 DEF InOrder
<1>12. DOMAIN w = 1 .. Len(w) /\ Len(w) \in Nat
  BY <1>9
<1>13. \A i \in DOMAIN list : /\ off[i - 1] \in Nat
                              /\ off[i - 1] + 1 \in DOMAIN w
                              /\ w[off[i - 1] + 1] = list[i]
                              /\ list[i] \in InitData =>
                                    /\ off[i - 1] + 2 \in DOMAIN w
                                    /\ w[off[i - 1] + 2] = Copy(list[i])
  <2>1. TAKE i \in DOMAIN list
  <2>2. i \in 1 .. Len(list) /\ i - 1 \in 0 .. Len(list)
    BY <1>2
  <2>3. off[i - 1] \in Nat /\ off[i] = off[i - 1] + Len(q[i]) /\ off[i] <= Len(w)
    BY <1>11, <2>2
  <2>4. Len(q[i]) \in {1, 2}
    BY <1>6
  <2>5. off[i - 1] + 1 \in DOMAIN w /\ 1 \in 1 .. Len(q[i])
    <3>1. PICK len \in Nat : len = Len(q[i]) /\ (len = 1 \/ len = 2)
      BY <2>4
    <3>2. off[i - 1] + len <= Len(w) /\ len >= 1
      <4>1. off[i] = off[i - 1] + len
        BY <2>3, <3>1
      <4>2. off[i - 1] + len <= Len(w)
        BY <2>3, <4>1
      <4>3. len >= 1
        BY <3>1
      <4>4. QED
        BY <4>2, <4>3
    <3>3. off[i - 1] + 1 \in 1 .. Len(w) /\ 1 \in 1 .. len
      BY <1>12, <2>3, <3>2
    <3>4. QED
      BY <1>12, <3>1, <3>3
  <2>6. w[off[i - 1] + 1] = list[i]
    BY <1>6, <1>11, <2>2, <2>5
  <2>7. ASSUME list[i] \in InitData
        PROVE  off[i - 1] + 2 \in DOMAIN w /\ w[off[i - 1] + 2] = Copy(list[i])
    <3>1. Len(q[i]) = 2
      BY <1>6, <2>7
    <3>2. off[i - 1] + 2 \in DOMAIN w /\ 2 \in 1 .. Len(q[i])
      BY <1>12, <2>3, <3>1
    <3>3. QED
      BY <1>6, <1>11, <2>2, <3>1, <3>2
  <2>8. QED
    BY <2>3, <2>5, <2>6, <2>7
<1>14. \A p \in DOMAIN w : \E i \in DOMAIN list :
          \/ p = off[i - 1] + 1
          \/ p = off[i - 1] + 2 /\ list[i] \in InitData
  <2>1. TAKE p \in DOMAIN w
  <2>2. PICK i \in 1 .. Len(list) : \E m \in 1 .. Len(q[i]) : p = off[i - 1] + m
    BY <1>11, <1>12
  <2>3. PICK m \in 1 .. Len(q[i]) : p = off[i - 1] + m
    BY <2>2
  <2>4. i \in DOMAIN list /\ Len(q[i]) \in {1, 2}
    BY <1>2, <1>6
  <2>5. m = 1 \/ (m = 2 /\ Len(q[i]) = 2)
    <3>1. PICK len \in Nat : len = Len(q[i]) /\ (len = 1 \/ len = 2)
      BY <2>4
    <3>2. m \in Nat /\ m >= 1 /\ m <= len
      BY <3>1
    <3>3. CASE len = 1
      <4>1. m = 1
        BY <3>2, <3>3
      <4>2. QED
        BY <4>1
    <3>4. CASE len = 2
      <4>1. m = 1 \/ m = 2
        BY <3>2, <3>4
      <4>2. QED
        BY <3>1, <3>4, <4>1
    <3>5. QED
      BY <3>1, <3>3, <3>4
  <2>6. QED
    BY <1>6, <2>3, <2>4, <2>5
<1>15. \A s \in InitData : s \in Given /\ Copy(s) \notin Given
  BY <1>1, IdFacts DEF InitData
<1>16. \A s, t \in Given : Copy(s) = Copy(t) => s = t
  BY <1>1, IdFacts
<1>17. ASSUME NEW p \in DOMAIN w, NEW r \in DOMAIN w, w[p] = w[r] PROVE p = r
  <2>1. PICK i \in DOMAIN list : p = off[i - 1] + 1 \/ (p = off[i - 1] + 2 /\ list[i] \in InitData)
    BY <1>14
  <2>2. PICK j \in DOMAIN list : r = off[j - 1] + 1 \/ (r = off[j - 1] + 2 /\ list[j] \in InitData)
    BY <1>14
  <2>3. CASE p = off[i - 1] + 1 /\ r = off[j - 1] + 1
    <3>1. list[i] = list[j]
      BY <1>13, <1>17, <2>3
    <3>2. QED
      BY <1>1, <2>3, <3>1
  <2>4. CASE p = off[i - 1] + 1 /\ r = off[j - 1] + 2 /\ list[j] \in InitData
    BY <1>3, <1>13, <1>15, <1>17, <2>4
  <2>5. CASE p = off[i - 1] + 2 /\ list[i] \in InitData /\ r = off[j - 1] + 1
    BY <1>3, <1>13, <1>15, <1>17, <2>5
  <2>6. CASE p = off[i - 1] + 2 /\ list[i] \in InitData /\ r = off[j - 1] + 2 /\ list[j] \in InitData
    <3>1. Copy(list[i]) = Copy(list[j])
      BY <1>13, <1>17, <2>6
    <3>2. i = j
      BY <1>1, <1>3, <1>16, <3>1
    <3>3. QED
      BY <2>6, <3>2
  <2>7. QED
    BY <2>1, <2>2, <2>3, <2>4, <2>5, <2>6
<1>18. ASSUME NEW p \in DOMAIN w, w[p] \in InitData
       PROVE  p + 1 \in DOMAIN w /\ w[p + 1] = Copy(w[p])
  <2>1. PICK i \in DOMAIN list : p = off[i - 1] + 1 \/ (p = off[i - 1] + 2 /\ list[i] \in InitData)
    BY <1>14
  <2>2. CASE p = off[i - 1] + 1
    <3>1. w[p] = list[i] /\ p + 1 = off[i - 1] + 2
      BY <1>13, <2>2
    <3>2. QED
      BY <1>13, <1>18, <3>1
  <2>3. CASE p = off[i - 1] + 2 /\ list[i] \in InitData
    BY <1>13, <1>15, <1>18, <2>3
  <2>4. QED
    BY <2>1, <2>2, <2>3
<1>19. ASSUME NEW x \in Range(w) PROVE x \in Range(list) \cup {Copy(s) : s \in InitData}
  <2>1. PICK p \in DOMAIN w : x = w[p]
    BY DEF Range
  <2>2. PICK i \in DOMAIN list : p = off[i - 1] + 1 \/ (p = off[i - 1] + 2 /\ list[i] \in InitData)
    BY <1>14
  <2>3. QED
    BY <1>13, <2>1, <2>2 DEF Range
<1>20. ASSUME NEW x \in Range(list) PROVE x \in Range(w)
  <2>1. PICK i \in DOMAIN list : x = list[i]
    BY DEF Range
  <2>2. QED
    BY <1>13, <2>1 DEF Range
<1>21. ASSUME NEW s \in InitData PROVE Copy(s) \in Range(w)
  <2>1. PICK i \in DOMAIN list : s = list[i]
    BY DEF Range, InitData
  <2>2. QED
    BY <1>13, <2>1 DEF Range
<1>22. Range(w) = Range(list) \cup {Copy(s) : s \in InitData}
  BY <1>19, <1>20, <1>21
<1>23. QED
  BY <1>4, <1>8, <1>9, <1>17, <1>18, <1>22

LEMMA CopiedIs ==
    ASSUME object \in Input, NEW X, NEW c \in Seq(SUBSET X)
    PROVE  /\ CopiedCells(c) \in Seq(SUBSET X)
           /\ \A n \in 1 .. Len(c) :
                 /\ PlaceInCopy(n - 1) + 1 \in DOMAIN CopiedCells(c)
                 /\ CopiedCells(c)[PlaceInCopy(n - 1) + 1] = c[n]
<1>1. Len(c) \in Nat /\ DOMAIN c = 1 .. Len(c) /\ object.pic16e \in BOOLEAN
  BY ObjectFacts
<1>2. PICK size \in Nat : size = CopySize(Len(c)) /\ (size >= Len(c)) /\ (~object.pic16e => size = 2 * Len(c))
  <2>1. CASE object.pic16e
    <3>1. Len(c) % 2 \in Nat
      BY <1>1
    <3>2. Len(c) + (Len(c) % 2) \in Nat /\ Len(c) + (Len(c) % 2) >= Len(c)
      BY <1>1, <3>1
    <3>3. QED
      BY <2>1, <3>2 DEF CopySize
  <2>2. CASE ~object.pic16e
    <3>1. 2 * Len(c) \in Nat /\ 2 * Len(c) >= Len(c)
      BY <1>1
    <3>2. QED
      BY <2>2, <3>1 DEF CopySize
  <2>3. QED
    BY <1>1, <2>1, <2>2
<1>3. PICK d : d = [p \in 1 .. size |-> UNION {c[k + 1] : k \in {l \in 0 .. Len(c) - 1 : PlaceInCopy(l) = p - 1}}]
  OBVIOUS
<1>4. CopiedCells(c) = d
  BY <1>2, <1>3 DEF CopiedCells
<1>5. \A k \in 0 .. Len(c) - 1 : k + 1 \in DOMAIN c /\ c[k + 1] \in SUBSET X
  BY <1>1
<1>6. \A p \in 1 .. size : d[p] \in SUBSET X
  BY <1>3, <1>5
<1>7. d \in Seq(SUBSET X)
  BY <1>2, <1>3, <1>6, IsASeq
<1>8. ASSUME NEW n \in 1 .. Len(c)
      PROVE  PlaceInCopy(n - 1) + 1 \in 1 .. size /\ d[PlaceInCopy(n - 1) + 1] = c[n]
  <2>1. n - 1 \in 0 .. Len(c) - 1 /\ (n - 1) + 1 = n
    BY <1>1
  <2>2. PICK p : p = PlaceInCopy(n - 1) + 1
    OBVIOUS
  <2>3. p \in 1 .. size /\ p - 1 = PlaceInCopy(n - 1)
    BY <1>1, <1>2, <2>1, <2>2 DEF PlaceInCopy
  <2>4. {l \in 0 .. Len(c) - 1 : PlaceInCopy(l) = p - 1} = {n - 1}
    BY <1>1, <2>1, <2>3 DEF PlaceInCopy
  <2>5. {c[k + 1] : k \in {l \in 0 .. Len(c) - 1 : PlaceInCopy(l) = p - 1}} = {c[n]}
    BY <2>1, <2>4
  <2>6. d[p] = c[n]
    BY <1>3, <2>3, <2>5
  <2>7. QED
    BY <2>2, <2>3, <2>6
<1>9. QED
  BY <1>3, <1>4, <1>7, <1>8

LEMMA MakeIdataKeeps ==
    ASSUME IInv, MakeIdata
    PROVE  IInv'
<1>1. /\ object \in Input /\ TypeOK /\ Listed /\ Kept /\ OnlyOverlaysShare
      /\ WholeWords /\ SymbolsFollowTheirBytes /\ RelocationsFollowTheirBytes /\ Joined
  BY DEF IInv, ReferencesFollowTheirBytes
<1>2. /\ phase = "idata" /\ phase' = "table" /\ object' = object /\ reloc' = reloc
      /\ table' = table /\ patched' = patched /\ errors' = errors
  BY DEF MakeIdata
<1>3. /\ Given' = Given /\ Ids' = Ids /\ N' = N /\ Cinit' = Cinit
      /\ \A u : FlagsOf(u)' = FlagsOf(u)
      /\ \A u, v : SameName(u, v)' <=> SameName(u, v)
      /\ Agreed' <=> Agreed
      /\ \A u : Copy(u)' = Copy(u)
  BY <1>2 DEF Given, Ids, Cinit, N, FlagsOf, SameName, Agreed, Copy
<1>4. \A u : TypeOf(u)' = TypeOf(u)
  BY <1>3 DEF TypeOf
<1>5. Early /\ Range(list) \subseteq Given
  BY <1>1, <1>2 DEF Early, Listed
<1>6. PICK w : w = FlattenSeq(WithCopies)
  OBVIOUS
<1>7. /\ w \in Seq(Ids)
      /\ \A p, q \in DOMAIN w : w[p] = w[q] => p = q
      /\ Range(w) = Range(list) \cup {Copy(s) : s \in InitData}
      /\ \A p \in DOMAIN w : w[p] \in InitData => p + 1 \in DOMAIN w /\ w[p + 1] = Copy(w[p])
  BY <1>5, <1>6, CopiesBehind
<1>8. /\ \A u \in Given : u \in Ids /\ u - N \notin Given /\ u # Cinit
      /\ \A u \in Given : /\ Copy(u) \in Ids /\ Copy(u) \notin Given
                          /\ Copy(u) # Cinit /\ Copy(u) - N = u
      /\ Cinit \in Ids /\ Cinit \notin Given
  BY <1>1, IdFacts
<1>9. InitData \subseteq Given /\ InitData \subseteq Range(list)
  BY <1>5 DEF InitData
<1>10. Cinit \notin Range(w)
  BY <1>5, <1>7, <1>8, <1>9
<1>11. list' = w \/ list' = Append(w, Cinit)
  BY <1>6 DEF MakeIdata, WithCopies
<1>12. /\ list' \in Seq(Ids)
       /\ \A p, q \in DOMAIN list' : list'[p] = list'[q] => p = q
       /\ Range(w) \subseteq Range(list')
       /\ Range(list') \subseteq Range(w) \cup {Cinit}
       /\ \A p \in DOMAIN list' : list'[p] \in InitData =>
             p + 1 \in DOMAIN list' /\ list'[p + 1] = Copy(list'[p])
  <2>1. CASE list' = w
    BY <1>7, <2>1
  <2>2. CASE list' = Append(w, Cinit)
    <3>1. PICK l : l = Append(w, Cinit)
      OBVIOUS
    <3>2. DOMAIN w = 1 .. Len(w) /\ Len(w) \in Nat
      BY <1>7
    <3>3. /\ l \in Seq(Ids) /\ DOMAIN l = 1 .. Len(w) + 1
          /\ \A p \in 1 .. Len(w) : l[p] = w[p]
          /\ l[Len(w) + 1] = Cinit
      BY <1>7, <1>8, <3>1
    <3>4. \A p \in DOMAIN l : p = Len(w) + 1 \/ (p \in DOMAIN w /\ l[p] = w[p])
      BY <3>2, <3>3
    <3>5. \A p \in DOMAIN w : p \in DOMAIN l /\ l[p] = w[p] /\ w[p] # Cinit
      BY <1>10, <3>2, <3>3 DEF Range
    <3>6. \A p, q \in DOMAIN l : l[p] = l[q] => p = q
      <4>1. SUFFICES ASSUME NEW p \in DOMAIN l, NEW q \in DOMAIN l, l[p] = l[q] PROVE p = q
        OBVIOUS
      <4>2. CASE p \in DOMAIN w /\ q \in DOMAIN w
        BY <1>7, <3>5, <4>1, <4>2
      <4>3. CASE p = Len(w) + 1 /\ q = Len(w) + 1
        BY <4>3
      <4>4. CASE p = Len(w) + 1 /\ q \in DOMAIN w
        BY <3>3, <3>5, <4>1, <4>4
      <4>5. CASE p \in DOMAIN w /\ q = Len(w) + 1
        BY <3>3, <3>5, <4>1, <4>5
      <4>6. QED
        BY <3>4, <4>2, <4>3, <4>4, <4>5
    <3>7. Range(w) \subseteq Range(l)
      BY <3>5 DEF Range
    <3>8. Range(l) \subseteq Range(w) \cup {Cinit}
      BY <3>3, <3>4 DEF Range
    <3>9. \A p \in DOMAIN l : l[p] \in InitData => p + 1 \in DOMAIN l /\ l[p + 1] = Copy(l[p])
      <4>1. SUFFICES ASSUME NEW p \in DOMAIN l, l[p] \in InitData
                     PROVE  p + 1 \in DOMAIN l /\ l[p + 1] = Copy(l[p])
        OBVIOUS
      <4>2. p \in DOMAIN w /\ l[p] = w[p]
        BY <1>8, <1>9, <3>3, <3>4, <4>1
      <4>3. p + 1 \in DOMAIN w /\ w[p + 1] = Copy(w[p])
        BY <1>7, <4>1, <4>2
      <4>4. QED
        BY <3>5, <4>2, <4>3
    <3>10. QED
      BY <2>2, <3>1, <3>3, <3>6, <3>7, <3>8, <3>9
  <2>3. QED
    BY <1>11, <2>1, <2>2
<1>13. Range(list)' = Range(list') /\ Given \cap Range(list') = Range(list)
  <2>1. Range(list)' = Range(list')
    BY DEF Range
  <2>2. QED
    BY <1>5, <1>7, <1>8, <1>9, <1>12, <2>1
<1>14. InitData' = InitData
  <2>1. InitData' = {s \in Range(list') : TypeOf(s) = "idata"}
    BY <1>4, <1>13 DEF InitData
  <2>2. \A s \in Range(list') : s \notin Given => TypeOf(s) # "idata"
    BY DEF TypeOf
  <2>3. QED
    BY <1>5, <1>13, <2>1, <2>2 DEF InitData
<1>15. /\ \A u \in Given : cells'[u] = cells[u]
       /\ \A u \in InitData : cells'[Copy(u)] = CopiedCells(cells[u])
  BY <1>8, <1>9 DEF MakeIdata
<1>16. cells' \in [Ids -> Seq(SUBSET (Given \X Nat))]
  <2>1. PICK X : X = Given \X Nat
    OBVIOUS
  <2>2. cells \in [Ids -> Seq(SUBSET X)]
    BY <1>1, <2>1 DEF TypeOK
  <2>3. \A u \in InitData : CopiedCells(cells[u]) \in Seq(SUBSET X)
    <3>1. TAKE u \in InitData
    <3>2. PICK c : c = cells[u]
      OBVIOUS
    <3>3. c \in Seq(SUBSET X)
      BY <1>8, <1>9, <2>2, <3>2
    <3>4. CopiedCells(c) \in Seq(SUBSET X)
      BY <1>1, <3>3, CopiedIs
    <3>5. QED
      BY <3>2, <3>4
  <2>4. Cardinality(InitData) \in Nat
    <3>1. N \in Nat /\ Given = 1 .. N
      BY <1>1, ObjectFacts
    <3>2. IsFiniteSet(1 .. N)
      BY <3>1, FS_Interval
    <3>3. IsFiniteSet(InitData)
      BY <1>9, <3>1, <3>2, FS_Subset
    <3>4. QED
      BY <3>3, FS_CardinalityType
  <2>5. PICK n \in Nat : n = (IF object.pic16e THEN 2 ELSE 4) + 12 * Cardinality(InitData)
    BY <2>4
  <2>6. PICK blank : blank = [k \in 1 .. n |-> {}]
    OBVIOUS
  <2>7. blank \in Seq(SUBSET X)
    BY <2>6, IsASeq
  <2>8. \A u \in Ids : cells'[u] \in {blank, cells[u]} \cup {CopiedCells(cells[s]) : s \in InitData}
    <3>1. cells' = [s \in Ids |->
                       IF s = Cinit /\ (InitData # {} \/ object.mplink)
                       THEN blank
                       ELSE IF s - N \in InitData THEN CopiedCells(cells[s - N]) ELSE cells[s]]
      BY <2>5, <2>6 DEF MakeIdata
    <3>2. QED
      BY <3>1
  <2>9. \A u \in Ids : cells'[u] \in Seq(SUBSET X)
    BY <2>2, <2>3, <2>7, <2>8
  <2>10. DOMAIN cells' = Ids /\ cells' = [u \in DOMAIN cells' |-> cells'[u]]
    BY DEF MakeIdata
  <2>11. QED
    BY <2>1, <2>9, <2>10
<1>17. /\ symbol' \in [{0} \cup Given -> [section : {0} \cup Ids, value : Nat]]
       /\ \A y \in Given : symbol'[y] = symbol[y]
  <2>1. symbol \in [{0} \cup Given -> [section : {0} \cup Ids, value : Nat]]
    BY <1>1 DEF TypeOK
  <2>2. 0 \notin Given
    BY <1>1, ObjectFacts
  <2>3. symbol' = symbol \/ symbol' = [symbol EXCEPT ![0].section = Cinit]
    BY DEF MakeIdata
  <2>4. QED
    BY <1>8, <2>1, <2>2, <2>3
<1>18. TypeOK'
  BY <1>1, <1>2, <1>3, <1>12, <1>16, <1>17 DEF TypeOK
<1>19. Listed'
  <2>1. ~Early'
    BY <1>2 DEF Early
  <2>2. \A s \in Given : s \notin Range(list') => cells'[s] = <<>>
    BY <1>1, <1>13, <1>15 DEF Listed
  <2>3. \A s \in Given : /\ symbol'[s].section \in Given
                         /\ symbol'[s].section \in Range(list')
                         /\ SameName(s, symbol[s].section)'
    BY <1>1, <1>2, <1>13, <1>17 DEF Listed, SameName
  <2>4. QED
    BY <1>3, <1>12, <1>13, <2>1, <2>2, <2>3 DEF Listed
<1>20. Kept'
  BY <1>1, <1>2, <1>3, <1>15 DEF Kept
<1>21. OnlyOverlaysShare'
  BY <1>1, <1>3, <1>15 DEF OnlyOverlaysShare
<1>22. Overlapping' /\ Tabled' /\ CopiesArePatched'
  BY <1>2 DEF Overlapping, Tabled, CopiesArePatched
<1>23. WholeWords'
  BY <1>1, <1>2, <1>3, <1>4, <1>15 DEF WholeWords, SizeOf
<1>24. SymbolsFollowTheirBytes'
  <2>1. \A s \in Given : symbol[s].section \in Given
    BY <1>1 DEF Listed
  <2>2. ASSUME NEW s \in Given
        PROVE  CellAt(symbol[s].section, InBytes(TypeOf(symbol[s].section), symbol[s].value))'
                 = CellAt(symbol[s].section, InBytes(TypeOf(symbol[s].section), symbol[s].value))
    <3>1. PICK u \in Given : u = symbol[s].section /\ u = symbol'[s].section
      BY <1>17, <2>1
    <3>2. InBytes(TypeOf(symbol[s].section), symbol[s].value)'
            = InBytes(TypeOf(symbol[s].section), symbol[s].value)
      BY <1>2, <1>3, <1>17, <3>1 DEF InBytes, TypeOf
    <3>3. QED
      BY <1>15, <3>1, <3>2 DEF CellAt
  <2>3. QED
    BY <1>1, <1>2, <1>3, <2>2 DEF SymbolsFollowTheirBytes
<1>25. RelocationsFollowTheirBytes'
  <2>1. \A s \in Given : reloc[s].section \in Given
    BY <1>1 DEF TypeOK
  <2>2. \A s \in Given : CellAt(reloc[s].section, reloc[s].address)' = CellAt(reloc[s].section, reloc[s].address)
    BY <1>2, <1>15, <2>1 DEF CellAt
  <2>3. QED
    BY <1>1, <1>2, <1>3, <2>2 DEF RelocationsFollowTheirBytes
<1>26. Joined'
  BY <1>1, <1>2, <1>3, <1>5, <1>13 DEF Joined
<1>27. Copied'
  <2>1. \A i \in DOMAIN list' : list'[i] \in InitData' =>
              i + 1 \in DOMAIN list' /\ list'[i + 1] = Copy(list[i])'
    BY <1>3, <1>12, <1>14 DEF Copy
  <2>2. \A s \in Range(list') : s \notin Given => s = Cinit \/ (s - N \in InitData /\ s = Copy(s - N))
    <3>1. SUFFICES ASSUME NEW s \in Range(list'), s \notin Given, s # Cinit
                   PROVE  s - N \in InitData /\ s = Copy(s - N)
      OBVIOUS
    <3>2. PICK u \in InitData : s = Copy(u)
      BY <1>5, <1>7, <1>12, <3>1
    <3>3. s - N = u
      BY <1>8, <1>9, <3>2
    <3>4. QED
      BY <3>2, <3>3
  <2>3. \A s : Copy(s - N)' = Copy(s - N)
    BY <1>3 DEF Copy
  <2>4. \A s \in InitData : cells'[Copy(s)'] = CopiedCells(cells[s])'
    <3>1. TAKE s \in InitData
    <3>2. cells'[s] = cells[s]
      BY <1>9, <1>15
    <3>3. CopiedCells(cells[s])' = CopiedCells(cells[s])
      BY <1>2, <3>2 DEF CopiedCells, CopySize, PlaceInCopy
    <3>4. QED
      BY <1>3, <1>15, <3>3
  <2>5. QED
    BY <1>3, <1>13, <1>14, <2>1, <2>2, <2>3, <2>4 DEF Copied
<1>28. QED
  BY <1>1, <1>2, <1>18, <1>19, <1>20, <1>21, <1>22, <1>23, <1>24, <1>25, <1>26, <1>27
     DEF IInv, ReferencesFollowTheirBytes

-----------------------------------------------------------------------------
(***************************************************************************)
(* gp_cofflink_add_cinit_section                                           *)
(***************************************************************************)
Inits == FlattenSeq([k \in DOMAIN list |-> IF list[k] \in InitData THEN <<list[k]>> ELSE <<>>])

\* Every initialised section is in it once.
LEMMA InitsAre ==
    ASSUME IInv
    PROVE  /\ Inits \in Seq(Ids)
           /\ \A p, q \in DOMAIN Inits : Inits[p] = Inits[q] => p = q
           /\ Range(Inits) = InitData
<1>1. /\ object \in Input /\ list \in Seq(Ids)
      /\ \A i, j \in DOMAIN list : list[i] = list[j] => i = j
  BY DEF IInv, TypeOK, Listed
<1>2. DOMAIN list = 1 .. Len(list) /\ Len(list) \in Nat
  BY <1>1
<1>3. PICK q : q = [k \in DOMAIN list |-> IF list[k] \in InitData THEN <<list[k]>> ELSE <<>>]
  OBVIOUS
<1>4. \A i \in DOMAIN list :
         /\ q[i] \in Seq(Ids)
         /\ list[i] \in InitData => Len(q[i]) = 1 /\ q[i][1] = list[i]
         /\ list[i] \notin InitData => Len(q[i]) = 0
  <2>1. TAKE i \in DOMAIN list
  <2>2. PICK x \in Ids : x = list[i]
    BY <1>1
  <2>3. CASE list[i] \in InitData
    <3>1. q[i] = <<x>>
      BY <1>3, <2>2, <2>3
    <3>2. <<x>> \in Seq(Ids) /\ Len(<<x>>) = 1 /\ <<x>>[1] = x
      OBVIOUS
    <3>3. QED
      BY <2>2, <2>3, <3>1, <3>2
  <2>4. CASE list[i] \notin InitData
    <3>1. q[i] = << >>
      BY <1>3, <2>4
    <3>2. << >> \in Seq(Ids) /\ Len(<< >>) = 0
      OBVIOUS
    <3>3. QED
      BY <2>4, <3>1, <3>2
  <2>5. QED
    BY <2>3, <2>4
<1>5. q \in Seq(Seq(Ids)) /\ Len(q) = Len(list)
  <2>1. \A i \in 1 .. Len(list) : q[i] \in Seq(Ids)
    BY <1>2, <1>4
  <2>2. q = [i \in 1 .. Len(list) |-> q[i]]
    BY <1>2, <1>3
  <2>3. PICK n \in Nat : n = Len(list)
    BY <1>2
  <2>4. PICK S : S = Seq(Ids)
    OBVIOUS
  <2>5. q \in Seq(S)
    BY <2>1, <2>2, <2>3, <2>4, IsASeq
  <2>6. Len(q) = Len(list)
    BY <1>2, <1>3, <2>5
  <2>7. QED
    BY <2>4, <2>5, <2>6
<1>6. PICK w : w = FlattenSeq(q)
  OBVIOUS
<1>7. w \in Seq(Ids) /\ \E off : InOrder(q, w, Len(list), off)
  BY <1>5, <1>6, Flattened
<1>8. PICK off : InOrder(q, w, Len(list), off)
  BY <1>7
<1>9. /\ off \in [0 .. Len(list) -> Nat]
      /\ off[Len(list)] = Len(w)
      /\ \A i \in 1 .. Len(list) : off[i] = off[i - 1] + Len(q[i]) /\ off[i] <= Len(w)
      /\ \A i \in 1 .. Len(list) : \A m \in 1 .. Len(q[i]) : w[off[i - 1] + m] = q[i][m]
      /\ \A p \in 1 .. Len(w) : \E i \in 1 .. Len(list) : \E m \in 1 .. Len(q[i]) : p = off[i - 1] + m
  BY <1>8 DEF InOrder
<1>10. DOMAIN w = 1 .. Len(w) /\ Len(w) \in Nat
  BY <1>7
<1>11. ASSUME NEW i \in DOMAIN list, list[i] \in InitData
       PROVE  off[i - 1] + 1 \in DOMAIN w /\ w[off[i - 1] + 1] = list[i]
  <2>1. i \in 1 .. Len(list) /\ i - 1 \in 0 .. Len(list)
    BY <1>2
  <2>2. Len(q[i]) = 1 /\ q[i][1] = list[i]
    BY <1>4, <1>11
  <2>3. off[i - 1] \in Nat /\ off[i - 1] + 1 <= Len(w)
    BY <1>9, <2>1, <2>2
  <2>4. off[i - 1] + 1 \in 1 .. Len(w)
    BY <1>10, <2>3
  <2>5. 1 \in 1 .. Len(q[i])
    BY <2>2
  <2>6. QED
    BY <1>9, <1>10, <2>1, <2>2, <2>4, <2>5
<1>12. ASSUME NEW p \in DOMAIN w
       PROVE  \E i \in DOMAIN list : p = off[i - 1] + 1 /\ list[i] \in InitData
  <2>1. PICK i \in 1 .. Len(list) : \E m \in 1 .. Len(q[i]) : p = off[i - 1] + m
    BY <1>9, <1>10
  <2>2. PICK m \in 1 .. Len(q[i]) : p = off[i - 1] + m
    BY <2>1
  <2>3. PICK len \in Nat : len = Len(q[i]) /\ (len = 0 \/ len = 1)
    BY <1>2, <1>4
  <2>4. m \in Nat /\ m >= 1 /\ m <= len
    BY <2>3
  <2>5. len = 1
    BY <2>3, <2>4
  <2>6. m = 1
    BY <2>4, <2>5
  <2>7. list[i] \in InitData
    <3>1. SUFFICES ASSUME list[i] \notin InitData PROVE FALSE
      OBVIOUS
    <3>2. i \in DOMAIN list
      BY <1>2
    <3>3. Len(q[i]) = 0
      BY <1>4, <3>1, <3>2
    <3>4. PICK z : z = Len(q[i])
      OBVIOUS
    <3>5. len = z /\ z = 0
      BY <2>3, <3>3, <3>4
    <3>6. QED
      BY <2>5, <3>5
  <2>8. QED
    BY <1>2, <2>2, <2>6, <2>7
<1>13. ASSUME NEW p \in DOMAIN w, NEW r \in DOMAIN w, w[p] = w[r] PROVE p = r
  <2>1. PICK i \in DOMAIN list : p = off[i - 1] + 1 /\ list[i] \in InitData
    BY <1>12
  <2>2. PICK j \in DOMAIN list : r = off[j - 1] + 1 /\ list[j] \in InitData
    BY <1>12
  <2>3. list[i] = list[j]
    BY <1>11, <1>13, <2>1, <2>2
  <2>4. QED
    BY <1>1, <2>1, <2>2, <2>3
<1>14. Range(w) \subseteq InitData
  BY <1>11, <1>12 DEF Range
<1>15. ASSUME NEW s \in InitData PROVE s \in Range(w)
  <2>1. PICK i \in DOMAIN list : s = list[i]
    BY DEF InitData, Range
  <2>2. QED
    BY <1>11, <2>1 DEF Range
<1>16. QED
  BY <1>3, <1>6, <1>7, <1>13, <1>14, <1>15 DEF Inits

\* A name is found where it is.
LEMMA FindIs ==
    ASSUME IInv, NEW nm, NEW s \in Range(list), NameOf(s) = nm
    PROVE  Find(nm) \in Range(list) /\ NameOf(Find(nm)) = nm
<1>1. list \in Seq(Ids)
  BY DEF IInv, TypeOK
<1>2. PICK S : S = {i \in DOMAIN list : NameOf(list[i]) = nm}
  OBVIOUS
<1>3. S \in SUBSET Nat /\ S # {}
  BY <1>1, <1>2 DEF Range
<1>4. Nearest(S) \in S
  BY <1>3, NearestIs
<1>5. QED
  BY <1>2, <1>4 DEF Find, Range

LEMMA InitDataGiven ==
    ASSUME IInv, NEW s \in InitData
    PROVE  /\ s \in Given /\ s \in Ids /\ s \in Range(list) /\ TypeOf(s) = "idata"
           /\ Late => Copy(s) \in Range(list)
<1>1. object \in Input /\ list \in Seq(Ids)
  BY DEF IInv, TypeOK
<1>2. s \in Range(list) /\ TypeOf(s) = "idata" /\ s \in Given
  BY DEF InitData, TypeOf
<1>3. PICK i \in DOMAIN list : list[i] = s
  BY <1>2 DEF Range
<1>4. ASSUME Late PROVE Copy(s) \in Range(list)
  <2>1. i + 1 \in DOMAIN list /\ list[i + 1] = Copy(s)
    BY <1>3, <1>4 DEF IInv, Copied
  <2>2. QED
    BY <2>1 DEF Range
<1>5. QED
  BY <1>1, <1>2, <1>4, IdFacts

LEMMA AddCinitKeeps ==
    ASSUME IInv, AddCinitSection
    PROVE  IInv'
<1>1. /\ phase = "table" /\ phase' = "patch"
      /\ object' = object /\ list' = list /\ cells' = cells /\ symbol' = symbol
      /\ reloc' = reloc /\ patched' = patched /\ errors' = errors
  BY DEF AddCinitSection
<1>2. Late /\ Late' /\ ~Early'
  BY <1>1 DEF Late, Early
<1>3. /\ Listed' /\ Kept' /\ OnlyOverlaysShare' /\ Overlapping' /\ WholeWords'
      /\ ReferencesFollowTheirBytes' /\ Copied' /\ Joined'
  BY <1>1, <1>2, BytesStay
<1>4. /\ Given' = Given /\ Ids' = Ids /\ InitData' = InitData
  BY <1>1, SameObject
<1>5. PICK inits : inits = Inits
  OBVIOUS
<1>6. /\ inits \in Seq(Ids)
      /\ \A p, q \in DOMAIN inits : inits[p] = inits[q] => p = q
      /\ Range(inits) = InitData
  BY <1>5, InitsAre
<1>7. table' = [k \in DOMAIN inits |->
                  [from |-> Find(CopyName(NameOf(inits[k]))), to |-> inits[k], size |-> SizeOf(inits[k])]]
  BY <1>5 DEF AddCinitSection, Inits
<1>8. ASSUME NEW s \in InitData
      PROVE  Find(CopyName(NameOf(s))) \in Ids /\ SizeOf(s) \in Nat
  <2>1. object \in Input /\ list \in Seq(Ids) /\ cells \in [Ids -> Seq(SUBSET (Given \X Nat))]
    BY DEF IInv, TypeOK
  <2>2. s \in Given /\ s \in Ids /\ Copy(s) \in Range(list)
    BY <1>2, InitDataGiven
  <2>3. NameOf(Copy(s)) = CopyName(NameOf(s))
    BY <2>1, <2>2, CopyNames, TypeFacts
  <2>4. Find(CopyName(NameOf(s))) \in Range(list)
    BY <2>2, <2>3, FindIs
  <2>5. QED
    BY <2>1, <2>2, <2>4 DEF Range, SizeOf
<1>9. \A k \in DOMAIN inits : inits[k] \in InitData /\ inits[k] \in Ids
  BY <1>6 DEF Range
<1>10. /\ DOMAIN table' = DOMAIN inits
       /\ \A k \in DOMAIN inits :
             /\ table'[k] \in [from : Ids, to : Ids, size : Nat]
             /\ table'[k].to = inits[k]
             /\ table'[k].from = Find(CopyName(NameOf(inits[k])))
             /\ table'[k].size = SizeOf(inits[k])
  <2>1. ASSUME NEW k \in DOMAIN inits
        PROVE  /\ table'[k] \in [from : Ids, to : Ids, size : Nat]
               /\ table'[k].to = inits[k]
               /\ table'[k].from = Find(CopyName(NameOf(inits[k])))
               /\ table'[k].size = SizeOf(inits[k])
    <3>1. PICK f \in Ids : f = Find(CopyName(NameOf(inits[k])))
      BY <1>8, <1>9
    <3>2. PICK z \in Nat : z = SizeOf(inits[k])
      BY <1>8, <1>9
    <3>3. table'[k] = [from |-> f, to |-> inits[k], size |-> z]
      BY <1>7, <3>1, <3>2
    <3>4. QED
      BY <1>9, <3>1, <3>2, <3>3
  <2>2. QED
    BY <1>7, <2>1
<1>11. table' \in Seq([from : Ids, to : Ids, size : Nat])
  <2>1. PICK n \in Nat : n = Len(inits)
    BY <1>6
  <2>2. PICK S : S = [from : Ids, to : Ids, size : Nat]
    OBVIOUS
  <2>3. DOMAIN inits = 1 .. n
    BY <1>6, <2>1
  <2>4. table' = [k \in 1 .. n |-> table'[k]] /\ \A k \in 1 .. n : table'[k] \in S
    BY <1>7, <1>10, <2>2, <2>3
  <2>5. table' \in Seq(S)
    BY <2>4, IsASeq
  <2>6. QED
    BY <2>2, <2>5
<1>12. TypeOK'
  BY <1>1, <1>4, <1>11 DEF IInv, TypeOK
<1>13. Tabled'
  <2>1. \A s \in InitData : \E e \in DOMAIN table' : table'[e].to = s
    BY <1>6, <1>10 DEF Range
  <2>2. \A d, e \in DOMAIN table' : table'[d].to = table'[e].to => d = e
    BY <1>6, <1>10
  <2>3. ASSUME NEW e \in DOMAIN table'
        PROVE  /\ table'[e].to \in InitData
               /\ table'[e].from = Find(CopyName(NameOf(table[e].to)))'
               /\ table'[e].size = SizeOf(table[e].to)'
    <3>1. PICK s \in InitData : s = inits[e] /\ s = table'[e].to
      BY <1>9, <1>10
    <3>2. SizeOf(table[e].to)' = SizeOf(s)
      BY <1>1, <3>1 DEF SizeOf
    <3>3. NameOf(table[e].to)' = NameOf(s)
      BY <1>1, <3>1 DEF NameOf, Given, Cinit, N
    <3>4. Find(CopyName(NameOf(table[e].to)))' = Find(CopyName(NameOf(s)))
      <4>1. \A nm : {i \in DOMAIN list : NameOf(list[i]) = nm}' = {i \in DOMAIN list : NameOf(list[i]) = nm}
        BY <1>1, SameObject
      <4>2. PICK nm : nm = CopyName(NameOf(s))
        OBVIOUS
      <4>3. Find(nm)' = Find(nm)
        BY <1>1, <4>1 DEF Find
      <4>4. CopyName(NameOf(table[e].to))' = nm
        BY <3>3, <4>2 DEF CopyName
      <4>5. QED
        BY <1>1, <4>1, <4>2, <4>4 DEF Find
    <3>5. QED
      BY <1>10, <3>1, <3>2, <3>4
  <2>4. QED
    BY <1>1, <1>4, <2>1, <2>2, <2>3 DEF Tabled
<1>14. CopiesArePatched'
  BY <1>1 DEF CopiesArePatched
<1>15. object' \in Input
  BY <1>1 DEF IInv
<1>16. QED
  BY <1>3, <1>12, <1>13, <1>14, <1>15 DEF IInv

-----------------------------------------------------------------------------
(***************************************************************************)
(* gp_cofflink_patch                                                       *)
(***************************************************************************)
Relocated(s, k) == \E r \in Given : reloc[r].section = s /\ reloc[r].address = k

LEMMA PatchesAre ==
    ASSUME NEW s, NEW x
    PROVE  x \in PatchesOf(s) <=> \E k : x = <<s, k>> /\ Relocated(s, k)
BY DEF PatchesOf, Relocated

LEMMA CopyPatchesAre ==
    ASSUME NEW s, NEW t, NEW x
    PROVE  x \in CopyPatches(s, t) <=> \E k : x = <<t, PlaceInCopy(k)>> /\ Relocated(s, k)
<1>1. \A k : <<s, k>>[2] = k
  OBVIOUS
<1>2. ASSUME x \in CopyPatches(s, t)
      PROVE  \E k : x = <<t, PlaceInCopy(k)>> /\ Relocated(s, k)
  <2>1. PICK p \in PatchesOf(s) : x = <<t, PlaceInCopy(p[2])>>
    BY <1>2 DEF CopyPatches
  <2>2. PICK k : p = <<s, k>> /\ Relocated(s, k)
    BY PatchesAre
  <2>3. QED
    BY <1>1, <2>1, <2>2
<1>3. ASSUME NEW k, x = <<t, PlaceInCopy(k)>>, Relocated(s, k)
      PROVE  x \in CopyPatches(s, t)
  <2>1. <<s, k>> \in PatchesOf(s)
    BY <1>3, PatchesAre
  <2>2. x = <<t, PlaceInCopy(<<s, k>>[2])>>
    BY <1>1, <1>3
  <2>3. QED
    BY <2>1, <2>2 DEF CopyPatches
<1>4. QED
  BY <1>2, <1>3

LEMMA PlacesDiffer ==
    ASSUME object \in Input, NEW k \in Nat, NEW l \in Nat
    PROVE  /\ PlaceInCopy(k) \in Nat
           /\ PlaceInCopy(k) = PlaceInCopy(l) => k = l
BY DEF PlaceInCopy

\* The places that are patched belong to the sections on the list and, for
\* initialised data, to the copies behind them.
LEMMA PatchedIs ==
    ASSUME IInv, Patch, NEW x
    PROVE  x \in patched' <=>
              \E s \in Range(list) :
                 /\ HasData(s)
                 /\ \/ x \in PatchesOf(s)
                    \/ s \in InitData /\ x \in CopyPatches(s, Copy(s))
<1>1. phase = "patch" /\ Late
  BY DEF Patch, Late
<1>2. \A i \in DOMAIN list : list[i] \in InitData => list[i + 1] = Copy(list[i])
  BY <1>1 DEF IInv, Copied
<1> DEFINE Has  == {j \in DOMAIN list : HasData(list[j])}
           P(i) == PatchesOf(list[i]) \cup
                     (IF list[i] \in InitData THEN CopyPatches(list[i], list[i + 1]) ELSE {})
<1>3. patched' = UNION {P(i) : i \in Has}
  BY DEF Patch
<1>4. ASSUME NEW i \in DOMAIN list
      PROVE  x \in P(i) <=> \/ x \in PatchesOf(list[i])
                            \/ list[i] \in InitData /\ x \in CopyPatches(list[i], Copy(list[i]))
  <2>1. CASE list[i] \in InitData
    <3>1. list[i + 1] = Copy(list[i])
      BY <1>2, <2>1
    <3>2. QED
      BY <2>1, <3>1
  <2>2. CASE list[i] \notin InitData
    BY <2>2
  <2>3. QED
    BY <2>1, <2>2
<1> HIDE DEF P
<1>5. x \in patched' <=> \E i \in Has : x \in P(i)
  BY <1>3
<1>6. ASSUME x \in patched'
      PROVE  \E s \in Range(list) :
                 /\ HasData(s)
                 /\ \/ x \in PatchesOf(s)
                    \/ s \in InitData /\ x \in CopyPatches(s, Copy(s))
  <2>1. PICK i \in DOMAIN list : HasData(list[i]) /\ x \in P(i)
    BY <1>5, <1>6
  <2>2. list[i] \in Range(list)
    BY DEF Range
  <2>3. QED
    BY <1>4, <2>1, <2>2
<1>7. ASSUME NEW s \in Range(list), HasData(s),
             x \in PatchesOf(s) \/ (s \in InitData /\ x \in CopyPatches(s, Copy(s)))
      PROVE  x \in patched'
  <2>1. PICK i \in DOMAIN list : list[i] = s
    BY DEF Range
  <2>2. i \in Has /\ x \in P(i)
    BY <1>4, <1>7, <2>1
  <2>3. QED
    BY <1>5, <2>2
<1>8. QED
  BY <1>6, <1>7

LEMMA PatchKeeps ==
    ASSUME IInv, Patch
    PROVE  IInv'
<1>1. /\ phase = "patch" /\ phase' = "done"
      /\ object' = object /\ list' = list /\ cells' = cells /\ symbol' = symbol
      /\ reloc' = reloc /\ table' = table /\ errors' = errors
  BY DEF Patch
<1>2. Late /\ Late' /\ ~Early'
  BY <1>1 DEF Late, Early
<1>3. /\ object \in Input /\ list \in Seq(Ids) /\ Range(list) \subseteq Ids
      /\ reloc \in [Given -> [section : Given, address : Nat]]
  BY DEF IInv, TypeOK, Range
<1>4. /\ Listed' /\ Kept' /\ OnlyOverlaysShare' /\ Overlapping' /\ WholeWords'
      /\ ReferencesFollowTheirBytes' /\ Copied' /\ Joined'
  BY <1>1, <1>2, BytesStay
<1>5. /\ Given' = Given /\ Ids' = Ids /\ InitData' = InitData
  BY <1>1, SameObject
<1>6. \A s, k : Relocated(s, k) => s \in Given /\ k \in Nat
  BY <1>3 DEF Relocated
<1>7. ASSUME NEW x \in patched' PROVE x \in Ids \X Nat
  <2>1. PICK s \in Range(list) : x \in PatchesOf(s) \/ (s \in InitData /\ x \in CopyPatches(s, Copy(s)))
    BY PatchedIs
  <2>2. CASE x \in PatchesOf(s)
    BY <1>3, <1>6, <2>2, PatchesAre
  <2>3. CASE s \in InitData /\ x \in CopyPatches(s, Copy(s))
    <3>1. PICK k : x = <<Copy(s), PlaceInCopy(k)>> /\ Relocated(s, k)
      BY <2>3, CopyPatchesAre
    <3>2. Copy(s) \in Ids
      BY <1>3, <2>3, IdFacts, InitDataGiven
    <3>3. PlaceInCopy(k) \in Nat
      BY <1>3, <1>6, <3>1, PlacesDiffer
    <3>4. QED
      BY <3>1, <3>2, <3>3
  <2>4. QED
    BY <2>1, <2>2, <2>3
<1>8. TypeOK'
  BY <1>1, <1>5, <1>7 DEF IInv, TypeOK
<1>9. Tabled'
  <2>1. /\ \A s \in InitData : \E e \in DOMAIN table : table[e].to = s
        /\ \A e \in DOMAIN table :
              /\ table[e].to \in InitData
              /\ table[e].from = Find(CopyName(NameOf(table[e].to)))
              /\ table[e].size = SizeOf(table[e].to)
        /\ \A d, e \in DOMAIN table : table[d].to = table[e].to => d = e
    BY <1>1 DEF IInv, Tabled
  <2>2. \A e \in DOMAIN table : SizeOf(table[e].to)' = SizeOf(table[e].to)
    BY <1>1 DEF SizeOf
  <2>3. \A nm : {i \in DOMAIN list : NameOf(list[i]) = nm}' = {i \in DOMAIN list : NameOf(list[i]) = nm}
    BY <1>1, SameObject
  <2>4. \A e \in DOMAIN table : NameOf(table[e].to)' = NameOf(table[e].to)
    BY <1>1 DEF NameOf, Given, Cinit, N
  <2>5. \A e \in DOMAIN table : Find(CopyName(NameOf(table[e].to)))' = Find(CopyName(NameOf(table[e].to)))
    BY <1>1, <2>3, <2>4 DEF Find
  <2>6. QED
    BY <1>1, <1>5, <2>1, <2>2, <2>5 DEF Tabled
\* The bytes of the section that are patched and those of the copy are the same.
<1>10. ASSUME NEW s \in InitData, HasData(s), NEW k \in Nat
       PROVE  (<<s, k>> \in patched') <=> (<<Copy(s), PlaceInCopy(k)>> \in patched')
  <2>1. s \in Given /\ s \in Range(list) /\ Copy(s) \notin Given /\ Copy(s) - N = s
    BY <1>3, InitDataGiven, IdFacts
  <2>2. ASSUME <<s, k>> \in patched' PROVE Relocated(s, k)
    <3>1. PICK u \in Range(list) : \/ <<s, k>> \in PatchesOf(u)
                                   \/ u \in InitData /\ <<s, k>> \in CopyPatches(u, Copy(u))
      BY <2>2, PatchedIs
    <3>2. CASE <<s, k>> \in PatchesOf(u)
      BY <3>2, PatchesAre
    <3>3. CASE u \in InitData /\ <<s, k>> \in CopyPatches(u, Copy(u))
      <4>1. s = Copy(u)
        BY <3>3, CopyPatchesAre
      <4>2. Copy(u) \notin Given
        BY <1>3, <3>3, InitDataGiven, IdFacts
      <4>3. QED
        BY <2>1, <4>1, <4>2
    <3>4. QED
      BY <3>1, <3>2, <3>3
  <2>3. ASSUME <<Copy(s), PlaceInCopy(k)>> \in patched' PROVE Relocated(s, k)
    <3>1. PICK u \in Range(list) : \/ <<Copy(s), PlaceInCopy(k)>> \in PatchesOf(u)
                                   \/ /\ u \in InitData
                                      /\ <<Copy(s), PlaceInCopy(k)>> \in CopyPatches(u, Copy(u))
      BY <2>3, PatchedIs
    <3>2. CASE <<Copy(s), PlaceInCopy(k)>> \in PatchesOf(u)
      <4>1. Relocated(Copy(s), PlaceInCopy(k))
        BY <3>2, PatchesAre
      <4>2. QED
        BY <1>6, <2>1, <4>1
    <3>3. CASE u \in InitData /\ <<Copy(s), PlaceInCopy(k)>> \in CopyPatches(u, Copy(u))
      <4>1. PICK l : <<Copy(s), PlaceInCopy(k)>> = <<Copy(u), PlaceInCopy(l)>> /\ Relocated(u, l)
        BY <3>3, CopyPatchesAre
      <4>2. Copy(s) = Copy(u) /\ PlaceInCopy(k) = PlaceInCopy(l)
        BY <4>1
      <4>3. Copy(u) - N = u
        BY <1>3, <3>3, InitDataGiven, IdFacts
      <4>4. l \in Nat
        BY <1>6, <4>1
      <4>5. k = l
        BY <1>3, <4>2, <4>4, PlacesDiffer
      <4>6. QED
        BY <2>1, <4>1, <4>2, <4>3, <4>5
    <3>4. QED
      BY <3>1, <3>2, <3>3
  <2>4. ASSUME Relocated(s, k)
        PROVE  <<s, k>> \in patched' /\ <<Copy(s), PlaceInCopy(k)>> \in patched'
    <3>1. <<s, k>> \in PatchesOf(s)
      BY <2>4, PatchesAre
    <3>2. <<Copy(s), PlaceInCopy(k)>> \in CopyPatches(s, Copy(s))
      BY <2>4, CopyPatchesAre
    <3>3. <<s, k>> \in patched'
      BY <1>10, <2>1, <3>1, PatchedIs
    <3>4. <<Copy(s), PlaceInCopy(k)>> \in patched'
      BY <1>10, <2>1, <3>2, PatchedIs
    <3>5. QED
      BY <3>3, <3>4
  <2>5. QED
    BY <2>2, <2>3, <2>4
<1>11. CopiesArePatched'
  <2>1. ASSUME NEW i \in DOMAIN list, list[i] \in InitData, NEW n \in 1 .. SizeOf(list[i])
        PROVE  (<<list[i], n - 1>> \in patched')
                 = (<<Copy(list[i]), (IF object.pic16e THEN n - 1 ELSE 2 * (n - 1))>> \in patched')
    <3>1. PICK s \in InitData : s = list[i]
      BY <2>1
    <3>2. SizeOf(s) \in Nat /\ s \in Given /\ TypeOf(s) = "idata"
      <4>1. s \in Ids /\ s \in Given /\ TypeOf(s) = "idata"
        BY InitDataGiven
      <4>2. cells[s] \in Seq(SUBSET (Given \X Nat))
        BY <4>1 DEF IInv, TypeOK
      <4>3. QED
        BY <4>1, <4>2 DEF SizeOf
    <3>3. n \in Nat /\ n - 1 \in Nat /\ SizeOf(s) > 0
      BY <3>1, <3>2
    <3>4. HasData(s)
      BY <3>2, <3>3 DEF HasData
    <3>5. PICK k \in Nat : k = n - 1
      BY <3>3
    <3>6. PlaceInCopy(k) = IF object.pic16e THEN n - 1 ELSE 2 * (n - 1)
      BY <3>5 DEF PlaceInCopy
    <3>7. (<<s, k>> \in patched') <=> (<<Copy(s), PlaceInCopy(k)>> \in patched')
      BY <1>10, <3>4
    <3>8. QED
      BY <3>1, <3>5, <3>6, <3>7
  <2>2. \A i \in DOMAIN list : SizeOf(list[i])' = SizeOf(list[i]) /\ Copy(list[i])' = Copy(list[i])
    BY <1>1 DEF SizeOf, Copy, N
  <2>3. QED
    BY <1>1, <1>5, <2>1, <2>2 DEF CopiesArePatched
<1>12. object' \in Input
  BY <1>1, <1>3
<1>13. QED
  BY <1>4, <1>8, <1>9, <1>11, <1>12 DEF IInv

-----------------------------------------------------------------------------
(***************************************************************************)
(* The invariant holds in every state.                                     *)
(***************************************************************************)
LEMMA StepKeeps ==
    ASSUME IInv, [Next]_vars
    PROVE  IInv'
<1>0. errors \in BOOLEAN
  BY DEF IInv, TypeOK
<1>1. CASE CombineOverlay
  <2>1. CASE Reported
    BY <2>1, PhaseKeeps DEF Reported
  <2>2. CASE OverlayStep
    BY <1>1, <2>2, OverlayKeeps DEF OverlayStep
  <2>3. QED
    BY <1>1, <2>1, <2>2, OverlayTakes
<1>2. CASE EndOverlays
  <2>1. /\ phase = "overlay" /\ phase' = "merge" /\ errors' = errors
        /\ UNCHANGED <<object, list, cells, symbol, reloc, table, patched>>
    BY <1>2 DEF EndOverlays
  <2>2. QED
    BY <1>0, <2>1, PhaseKeeps
<1>3. CASE MergeSections
  <2>1. CASE Refused
    BY <2>1, PhaseKeeps DEF Refused
  <2>2. CASE JoinStep
    BY <2>2, JoinKeeps DEF JoinStep
  <2>3. QED
    BY <1>3, <2>1, <2>2, MergeTakes
<1>4. CASE EndMerge
  <2>1. /\ phase = "merge" /\ phase' = "idata" /\ Repeated = {} /\ errors' = errors
        /\ UNCHANGED <<object, list, cells, symbol, reloc, table, patched>>
    BY <1>4 DEF EndMerge
  <2>2. QED
    BY <1>0, <2>1, PhaseKeeps
<1>5. CASE MakeIdata
  BY <1>5, MakeIdataKeeps
<1>6. CASE AddCinitSection
  BY <1>6, AddCinitKeeps
<1>7. CASE Patch
  BY <1>7, PatchKeeps
<1>8. CASE UNCHANGED vars
  <2>1. /\ phase' = phase /\ errors' = errors
        /\ UNCHANGED <<object, list, cells, symbol, reloc, table, patched>>
    BY <1>8 DEF vars
  <2>2. QED
    BY <1>0, <2>1, PhaseKeeps
<1>9. QED
  BY <1>1, <1>2, <1>3, <1>4, <1>5, <1>6, <1>7, <1>8 DEF Next

LEMMA Invariance == Spec => []IInv
<1>1. Init => IInv
  BY StartsRight
<1>2. IInv /\ [Next]_vars => IInv'
  BY StepKeeps
<1>3. QED
  BY <1>1, <1>2, PTL DEF Spec

-----------------------------------------------------------------------------
(***************************************************************************)
(* The theorems.                                                           *)
(***************************************************************************)
\* Whatever objects are linked, every symbol stays at the byte that it named in
\* its object, and every relocation at the byte it will patch, while
\* gp_cofflink_combine_overlay and gp_cofflink_merge_sections take sections away.
THEOREM ReferencesFollow == Spec => []ReferencesFollowTheirBytes
<1>1. IInv => ReferencesFollowTheirBytes
  BY DEF IInv
<1>2. QED
  BY <1>1, Invariance, PTL

LEMMA BytesAreOnce ==
    ASSUME IInv
    PROVE  MemoryIsLaidOnce
<1>1. ASSUME NEW s \in Given, NEW k \in 0 .. object.sections[s].size - 1
      PROVE  \E h \in Homes(s, k) : Homes(s, k) = {h} /\ h[1] \in Range(list)
  <2>1. PICK t \in Given : \E n \in DOMAIN cells[t] : <<s, k>> \in cells[t][n]
    BY DEF IInv, Kept
  <2>2. PICK n \in DOMAIN cells[t] : <<s, k>> \in cells[t][n]
    BY <2>1
  <2>3. <<t, n>> \in Homes(s, k)
    BY <2>2 DEF Homes
  <2>4. ASSUME NEW h \in Homes(s, k) PROVE h = <<t, n>>
    <3>1. PICK u \in Given : \E m \in DOMAIN cells[u] : <<s, k>> \in cells[u][m] /\ h = <<u, m>>
      BY DEF Homes
    <3>2. PICK m \in DOMAIN cells[u] : <<s, k>> \in cells[u][m] /\ h = <<u, m>>
      BY <3>1
    <3>3. cells[t][n] \cap cells[u][m] # {}
      BY <2>2, <3>2
    <3>4. t = u /\ n = m
      BY <3>3 DEF IInv, Kept
    <3>5. QED
      BY <3>2, <3>4
  <2>5. t \in Range(list)
    <3>1. cells[t] # << >>
      OBVIOUS
    <3>2. QED
      BY <3>1 DEF IInv, Listed
  <2>6. <<t, n>>[1] = t
    OBVIOUS
  <2>7. Homes(s, k) = {<<t, n>>}
    BY <2>3, <2>4
  <2>8. QED
    BY <2>3, <2>5, <2>6, <2>7
<1>2. EveryByteOnce
  BY <1>1 DEF EveryByteOnce
<1>3. QED
  BY <1>2 DEF IInv, MemoryIsLaidOnce

\* Whatever objects are linked, no byte that one of them brought is lost, doubled
\* or left in a section that is no longer on the list, and only overlays of one
\* name share memory, byte for byte.
THEOREM LaidOnce == Spec => []MemoryIsLaidOnce
<1>1. IInv => MemoryIsLaidOnce
  BY BytesAreOnce
<1>2. QED
  BY <1>1, Invariance, PTL

\* gp_cofflink_add_cinit_section finds the copy, as no other section has its name.
LEMMA CopyIsFound ==
    ASSUME IInv, Late, OwnNames, NEW t \in InitData
    PROVE  Find(CopyName(NameOf(t))) = Copy(t)
<1>1. object \in Input /\ t \in Given /\ t \in Range(list) /\ Copy(t) \in Range(list)
  BY InitDataGiven DEF IInv
<1>2. PICK nm : nm = CopyName(NameOf(t))
  OBVIOUS
<1>3. NameOf(t) = object.sections[t].name /\ NameOf(Copy(t)) = nm
  BY <1>1, <1>2, CopyNames, TypeFacts
<1>4. PICK c : c = Find(nm)
  OBVIOUS
<1>5. c \in Range(list) /\ NameOf(c) = nm
  BY <1>1, <1>3, <1>4, FindIs
<1>6. c \notin Given
  <2>1. SUFFICES ASSUME c \in Given PROVE FALSE
    OBVIOUS
  <2>2. NameOf(c) = object.sections[c].name
    BY <1>1, <2>1, TypeFacts
  <2>3. QED
    BY <1>1, <1>2, <1>3, <1>5, <2>1, <2>2 DEF OwnNames
<1>7. c # Cinit
  BY <1>1, <1>3, <1>5, CopyNames
<1>8. PICK u : u \in InitData /\ c = Copy(u)
  BY <1>5, <1>6, <1>7 DEF IInv, Copied
<1>9. u \in Given /\ u \in Range(list)
  BY <1>8, InitDataGiven
<1>10. CopyName(object.sections[u].name) = CopyName(object.sections[t].name)
  BY <1>1, <1>2, <1>3, <1>5, <1>8, <1>9, CopyNames
<1>11. object.sections[u].name = object.sections[t].name
  <2>1. PICK a \in Name : a = object.sections[u].name
    BY <1>1, <1>9, ObjectFacts
  <2>2. PICK b \in Name : b = object.sections[t].name
    BY <1>1, ObjectFacts
  <2>3. <<a[1], a[2] + 1>> = <<b[1], b[2] + 1>>
    BY <1>10, <2>1, <2>2 DEF CopyName
  <2>4. a[1] = b[1] /\ a[2] + 1 = b[2] + 1
    BY <2>3
  <2>5. a[2] = b[2]
    BY <2>4 DEF Name
  <2>6. a = b
    BY <2>4, <2>5 DEF Name
  <2>7. QED
    BY <2>1, <2>2, <2>6
<1>12. u = t
  BY <1>1, <1>9, <1>11 DEF IInv, Joined, SameName
<1>13. QED
  BY <1>2, <1>4, <1>8, <1>12

LEMMA CopiesAreFound ==
    ASSUME IInv
    PROVE  TableFindsCopies
<1>1. SUFFICES ASSUME phase = "done", Agreed, OwnNames, NEW s \in Given, FlagsOf(s).type = "idata"
               PROVE  \E e \in DOMAIN table :
                        /\ table[e].to = symbol[s].section
                        /\ table[e].size = SizeOf(table[e].to)
                        /\ \A d \in DOMAIN table : table[d].to = table[e].to => d = e
                        /\ \A n \in 1 .. table[e].size :
                              cells[table[e].to][n]
                                = CellAt(table[e].from, (IF object.pic16e THEN n - 1 ELSE 2 * (n - 1)))
  BY DEF TableFindsCopies
<1>2. Late /\ object \in Input
  BY <1>1 DEF Late, IInv
<1>3. PICK t : t = symbol[s].section
  OBVIOUS
<1>4. t \in Given /\ t \in Range(list) /\ SameName(s, t)
  BY <1>3 DEF IInv, Listed
<1>5. FlagsOf(t) = FlagsOf(s)
  BY <1>1, <1>4 DEF Agreed
<1>6. TypeOf(t) = "idata"
  BY <1>1, <1>2, <1>4, <1>5, TypeFacts
<1>7. t \in InitData
  BY <1>4, <1>6 DEF InitData
<1>8. /\ \E e \in DOMAIN table : table[e].to = t
      /\ \A e \in DOMAIN table :
            /\ table[e].from = Find(CopyName(NameOf(table[e].to)))
            /\ table[e].size = SizeOf(table[e].to)
      /\ \A d, e \in DOMAIN table : table[d].to = table[e].to => d = e
  BY <1>1, <1>7 DEF IInv, Tabled
<1>9. PICK e \in DOMAIN table : table[e].to = t
  BY <1>8
<1>10. PICK c : c = Copy(t)
  OBVIOUS
<1>11. table[e].from = c
  BY <1>1, <1>2, <1>7, <1>8, <1>9, <1>10, CopyIsFound
<1>12. cells[c] = CopiedCells(cells[t])
  BY <1>2, <1>7, <1>10 DEF IInv, Copied
<1>13. cells[t] \in Seq(SUBSET (Given \X Nat))
  BY <1>2, <1>4, IdFacts DEF IInv, TypeOK
<1>14. ASSUME NEW n \in 1 .. Len(cells[t])
       PROVE  cells[t][n] = CellAt(c, (IF object.pic16e THEN n - 1 ELSE 2 * (n - 1)))
  <2>1. PICK p : p = PlaceInCopy(n - 1)
    OBVIOUS
  <2>2. p = IF object.pic16e THEN n - 1 ELSE 2 * (n - 1)
    BY <2>1 DEF PlaceInCopy
  <2>3. p + 1 \in DOMAIN cells[c] /\ cells[c][p + 1] = cells[t][n]
    BY <1>2, <1>12, <1>13, <2>1, CopiedIs
  <2>4. CellAt(c, p) = cells[t][n]
    BY <2>3 DEF CellAt
  <2>5. QED
    BY <2>2, <2>4
<1>15. table[e].size = SizeOf(table[e].to) /\ SizeOf(table[e].to) = Len(cells[t])
  BY <1>8, <1>9 DEF SizeOf
<1>16. \A d \in DOMAIN table : table[d].to = table[e].to => d = e
  BY <1>8
<1>17. \A n \in 1 .. table[e].size :
          cells[table[e].to][n]
            = CellAt(table[e].from, (IF object.pic16e THEN n - 1 ELSE 2 * (n - 1)))
  BY <1>9, <1>11, <1>14, <1>15
<1>18. QED
  BY <1>3, <1>9, <1>15, <1>16, <1>17

\* Whatever objects are linked, when gplink is done the table .cinit has one entry
\* for the section where the bytes of initialised data are, it leads to the copy of
\* these very bytes, and the copy was patched where the section was.
THEOREM InitialisedData == Spec => []DataIsInitialised
<1>1. IInv => TableFindsCopies
  BY CopiesAreFound
<1>2. IInv => CopiesArePatched
  BY DEF IInv
<1>3. IInv => DataIsInitialised
  BY <1>1, <1>2 DEF DataIsInitialised
<1>4. QED
  BY <1>3, Invariance, PTL

=============================================================================
