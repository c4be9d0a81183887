------------------------------ MODULE GplibProofs ------------------------------
(***************************************************************************)
(* What the librarian promises, for all files, contents and command lines: *)
(* members are found by name and by symbol, and every command is one step  *)
(* of LibraryFile or none.                                                 *)
(***************************************************************************)
EXTENDS Gplib, SequenceTheorems, FiniteSetTheorems, TLAPS

(***************************************************************************)
(* Lists and their contents.  A command is followed by the set of members  *)
(* that its list holds, whatever their places.                             *)
(***************************************************************************)
IsLibrary(list) ==
    /\ list \in Seq(Member \cup Index)
    /\ \A i \in DOMAIN list : i # 1 => list[i] \in Member

Unique(list) == \A i, j \in Members(list) : list[i].name = list[j].name => i = j

Contents(list) == {list[i] : i \in Members(list)}

Named(members) == {m.name : m \in members}

Fits(list) ==
    HaveIndex(list) =>
        /\ DOMAIN list[1].table = UNION {list[i].object : i \in Members(list)}
        /\ \A s \in DOMAIN list[1].table :
               /\ list[1].table[s] \in Members(list)
               /\ s \in list[list[1].table[s]].object

Disjoint(members) == \A m, n \in members : m # n => m.object \cap n.object = {}

(***************************************************************************)
(* The invariant.                                                          *)
(***************************************************************************)
AtRest ==
    pc = "idle" => /\ mode = "list" /\ args = << >> /\ archive = << >>
                   /\ definitions = NoSymbols /\ at = 0 /\ ~errors

Unchanged == (pc # "idle" /\ ~Updates) => archive = disk

\* The symbols of the members before "at" are entered, each with the name of a
\* member that defines it; one that is defined twice has been reported.
Entered == {archive[i] : i \in {j \in Members(archive) : j < at}}

DefinitionsRight ==
    /\ pc = "arguments" => definitions = NoSymbols
    /\ pc = "symbols" =>
          /\ at \in 1 .. (Len(archive) + 1)
          /\ HaveIndex(archive) => at # 1 /\ ~Updates
          /\ DOMAIN definitions = UNION {m.object : m \in Entered}
          /\ \A s \in DOMAIN definitions :
                \E m \in Entered : m.name = definitions[s] /\ s \in m.object
          /\ errors \/ Disjoint(Entered)
    /\ (pc = "write" /\ Updates) =>
          /\ Fits(archive)
          /\ errors \/ Disjoint(Contents(archive))
          /\ archive # << >> => Contents(archive) # {}

\* What the first k of the files "as" make of a library.
Base == IF mode = "create" THEN Promised!Empty ELSE AsFunction(disk)

Given(as, k, n) == {i \in 1 .. k : MemberName[as[i]] = n}

FilesPut(members, as, k) ==
    /\ \A i \in 1 .. k : files[as[i]] # NoObject
    /\ Named(members) = DOMAIN Base \cup {MemberName[as[i]] : i \in 1 .. k}
    /\ \A m \in members :
          IF Given(as, k, m.name) = {} THEN m.object = Base[m.name]
          ELSE \E i \in Given(as, k, m.name) :
                  /\ \A j \in Given(as, k, m.name) : j <= i
                  /\ m.object = files[as[i]]

NamesTaken(members, as, k) ==
    /\ {as[i] : i \in 1 .. k} \subseteq DOMAIN AsFunction(disk)
    /\ Named(members) = DOMAIN AsFunction(disk) \ {as[i] : i \in 1 .. k}
    /\ \A m \in members : m.object = AsFunction(disk)[m.name]

Done(as, k) ==
    IF mode = "delete" THEN NamesTaken(Contents(archive), as, k)
                       ELSE FilesPut(Contents(archive), as, k)

HalfDone ==
    (Updates /\ ~errors) =>
        /\ pc = "arguments" =>
              \E as \in Arguments : \E k \in 0 .. Len(as) :
                  /\ Len(args) = Len(as) - k
                  /\ \A i \in 1 .. Len(args) : args[i] = as[k + i]
                  /\ Done(as, k)
        /\ pc \in {"symbols", "write"} => \E as \in Arguments : Done(as, Len(as))

IInv ==
    /\ TypeOK
    /\ NamesAreUnique
    /\ IndexFits
    /\ AtRest
    /\ Unchanged
    /\ DefinitionsRight
    /\ HalfDone
-----------------------------------------------------------------------------
(***************************************************************************)
(* Lists of members                                                        *)
(***************************************************************************)
LEMMA LibraryFacts ==
    ASSUME NEW list, IsLibrary(list)
    PROVE  /\ Len(list) \in Nat /\ DOMAIN list = 1 .. Len(list)
           /\ \A i \in DOMAIN list : i # 1 => i \in Members(list)
           /\ \A i \in Members(list) :
                 /\ i \in DOMAIN list /\ i \in Nat \ {0}
                 /\ list[i] \in Member /\ list[i].name \in Names /\ list[i].object \in Objects
           /\ 1 \in Members(list) => ~HaveIndex(list)
           /\ list # << >> /\ ~HaveIndex(list) => 1 \in Members(list)
           /\ ~HaveIndex(list) => Members(list) = DOMAIN list
           /\ HaveIndex(list) => list[1] \in Index /\ Len(list) >= 1
<1>1. Len(list) \in Nat /\ DOMAIN list = 1 .. Len(list)
  BY LenProperties DEF IsLibrary
<1>2. \A i \in DOMAIN list : list[i] \in Member \cup Index
  BY <1>1, ElementOfSeq DEF IsLibrary
<1>3. \A m \in Member : m.kind = "member" /\ m.name \in Names /\ m.object \in Objects
  BY DEF Member
<1>4. \A m \in Index : m.kind = "index"
  BY DEF Index
<1>5. \A i \in DOMAIN list : i # 1 => i \in Members(list)
  BY <1>3 DEF IsLibrary, Members
<1>6. ASSUME NEW i \in Members(list)
      PROVE  /\ i \in DOMAIN list /\ i \in Nat \ {0}
             /\ list[i] \in Member /\ list[i].name \in Names /\ list[i].object \in Objects
  <2>1. i \in DOMAIN list /\ list[i].kind = "member"
    BY DEF Members
  <2>2. list[i] \in Member
    BY <1>2, <1>4, <2>1
  <2>3. QED
    BY <1>1, <1>3, <2>1, <2>2
<1>7. list # << >> => 1 \in DOMAIN list
  BY <1>1, EmptySeq DEF IsLibrary
<1>8. 1 \in Members(list) => ~HaveIndex(list)
  BY DEF Members, HaveIndex
<1>9. list # << >> /\ ~HaveIndex(list) => 1 \in Members(list)
  BY <1>2, <1>3, <1>4, <1>7 DEF Members, HaveIndex
<1>10. ~HaveIndex(list) => Members(list) = DOMAIN list
  <2>1. CASE list = << >>
    BY <2>1 DEF Members
  <2>2. CASE list # << >>
    BY <1>5, <1>9, <2>2 DEF Members
  <2>3. QED
    BY <2>1, <2>2
<1>11. HaveIndex(list) => list[1] \in Index /\ Len(list) >= 1
  <2> SUFFICES ASSUME HaveIndex(list) PROVE list[1] \in Index /\ Len(list) >= 1
    OBVIOUS
  <2>1. 1 \in DOMAIN list /\ list[1].kind = "index"
    BY <1>7 DEF HaveIndex
  <2>2. QED
    BY <1>1, <1>2, <1>3, <2>1
<1>12. QED
  BY <1>1, <1>5, <1>6, <1>8, <1>9, <1>10, <1>11

LEMMA FindFacts ==
    ASSUME NEW list, IsLibrary(list), Unique(list), NEW n
    PROVE  /\ FindMember(list, n) = 0 <=> n \notin Named(Contents(list))
           /\ FindMember(list, n) # 0 =>
                 FindMember(list, n) \in Members(list) /\ list[FindMember(list, n)].name = n
           /\ \A i \in Members(list) : list[i].name = n => FindMember(list, n) = i
<1>1. \A i \in Members(list) : i \in Nat \ {0}
  BY LibraryFacts
<1>2. Found(list, n) = {i \in Members(list) : list[i].name = n}
  BY DEF Found
<1>3. n \in Named(Contents(list)) <=> Found(list, n) # {}
  BY <1>2 DEF Named, Contents
<1>4. CASE Found(list, n) = {}
  <2>1. FindMember(list, n) = 0
    BY <1>4 DEF FindMember
  <2>2. QED
    BY <1>2, <1>3, <1>4, <2>1
<1>5. CASE Found(list, n) # {}
  <2>1. PICK i \in Found(list, n) : TRUE
    BY <1>5
  <2>2. \A j \in Found(list, n) : j = i
    BY <1>2, <2>1 DEF Unique
  <2>3. \A j \in Found(list, n) : i <= j
    BY <1>1, <1>2, <2>1, <2>2
  <2> DEFINE c == CHOOSE x \in Found(list, n) : \A j \in Found(list, n) : x <= j
  <2>4. c \in Found(list, n)
    BY <2>1, <2>3
  <2>5. c = i
    BY <2>2, <2>4
  <2>6. FindMember(list, n) = i
    BY <1>5, <2>5 DEF FindMember
  <2>7. i \in Members(list) /\ list[i].name = n /\ i # 0
    BY <1>1, <1>2, <2>1
  <2>8. QED
    BY <1>2, <1>3, <1>5, <2>2, <2>6, <2>7
<1>6. QED
  BY <1>4, <1>5

LEMMA AsFunctionFacts ==
    ASSUME NEW list, IsLibrary(list), Unique(list)
    PROVE  /\ DOMAIN AsFunction(list) = Named(Contents(list))
           /\ \A m \in Contents(list) : AsFunction(list)[m.name] = m.object
           /\ Named(Contents(list)) \subseteq Names
<1>1. {list[i].name : i \in Members(list)} = Named(Contents(list))
  BY DEF Named, Contents
<1>2. AsFunction(list) = [n \in Named(Contents(list)) |-> list[FindMember(list, n)].object]
  BY <1>1 DEF AsFunction
<1>3. ASSUME NEW i \in Members(list)
      PROVE  AsFunction(list)[list[i].name] = list[i].object
  <2>1. list[i].name \in Named(Contents(list))
    BY <1>1
  <2>2. FindMember(list, list[i].name) = i
    BY FindFacts
  <2>3. QED
    BY <1>2, <2>1, <2>2
<1>4. \A m \in Contents(list) : AsFunction(list)[m.name] = m.object
  BY <1>3 DEF Contents
<1>5. Named(Contents(list)) \subseteq Names
  BY <1>1, LibraryFacts
<1>6. QED
  BY <1>2, <1>4, <1>5

LEMMA SameFunction ==
    ASSUME NEW list, IsLibrary(list), Unique(list), NEW D, NEW F \in [D -> Objects],
           D = Named(Contents(list)), \A m \in Contents(list) : F[m.name] = m.object
    PROVE  AsFunction(list) = F
<1>1. DOMAIN AsFunction(list) = D /\ AsFunction(list) = [n \in D |-> AsFunction(list)[n]]
  BY AsFunctionFacts DEF AsFunction
<1>2. \A n \in D : \E m \in Contents(list) : m.name = n
  BY DEF Named
<1>3. \A n \in D : AsFunction(list)[n] = F[n]
  BY <1>2, AsFunctionFacts
<1>4. QED
  BY <1>1, <1>3

(***************************************************************************)
(* Taking the element at one place out of a list.                          *)
(***************************************************************************)
LEMMA RemovedPlaces ==
    ASSUME NEW S, NEW list \in Seq(S), NEW k \in 1 .. Len(list)
    PROVE  /\ Remove(list, k) \in Seq(S)
           /\ Len(Remove(list, k)) = Len(list) - 1
           /\ \A i \in 1 .. (Len(list) - 1) :
                 Remove(list, k)[i] = IF i < k THEN list[i] ELSE list[i + 1]
<1> DEFINE head == SubSeq(list, 1, k - 1)
           tail == SubSeq(list, k + 1, Len(list))
<1>1. Len(list) \in Nat /\ \A i \in 1 .. Len(list) : list[i] \in S
  BY ElementOfSeq, LenProperties
<1>2. /\ head \in Seq(S) /\ Len(head) = k - 1
      /\ \A i \in 1 .. (k - 1) : head[i] = list[i]
  <2>1. \A i \in 1 .. (k - 1) : list[i] \in S
    BY <1>1
  <2>2. /\ head \in Seq(S)
        /\ Len(head) = IF 1 <= k - 1 THEN (k - 1) - 1 + 1 ELSE 0
        /\ \A i \in 1 .. (k - 1) - 1 + 1 : head[i] = list[1 + i - 1]
    BY <1>1, <2>1, SubSeqProperties
  <2>3. QED
    BY <1>1, <2>2
<1>3. /\ tail \in Seq(S) /\ Len(tail) = Len(list) - k
      /\ \A i \in 1 .. (Len(list) - k) : tail[i] = list[k + i]
  <2>1. \A i \in (k + 1) .. Len(list) : list[i] \in S
    BY <1>1
  <2>2. /\ tail \in Seq(S)
        /\ Len(tail) = IF k + 1 <= Len(list) THEN Len(list) - (k + 1) + 1 ELSE 0
        /\ \A i \in 1 .. Len(list) - (k + 1) + 1 : tail[i] = list[k + 1 + i - 1]
    BY <1>1, <2>1, SubSeqProperties
  <2>3. QED
    BY <1>1, <2>2
<1>4. Remove(list, k) = head \o tail
  BY DEF Remove
<1> HIDE DEF head, tail
<1>5. /\ head \o tail \in Seq(S)
      /\ Len(head \o tail) = Len(head) + Len(tail)
      /\ \A i \in 1 .. Len(head) + Len(tail) :
            (head \o tail)[i] = IF i <= Len(head) THEN head[i] ELSE tail[i - Len(head)]
  BY <1>2, <1>3, ConcatProperties
<1>6. ASSUME NEW i \in 1 .. (Len(list) - 1)
      PROVE  (head \o tail)[i] = IF i < k THEN list[i] ELSE list[i + 1]
  <2>1. CASE i < k
    BY <1>1, <1>2, <1>3, <1>5, <2>1
  <2>2. CASE ~(i < k)
    <3>1. (head \o tail)[i] = tail[i - (k - 1)]
      BY <1>1, <1>2, <1>3, <1>5, <2>2
    <3>2. i - (k - 1) \in 1 .. (Len(list) - k) /\ k + (i - (k - 1)) = i + 1
      BY <1>1, <2>2
    <3>3. QED
      BY <1>3, <2>2, <3>1, <3>2
  <2>3. QED
    BY <2>1, <2>2
<1>7. Len(head \o tail) = Len(list) - 1
  BY <1>1, <1>2, <1>3, <1>5
<1>8. QED
  BY <1>4, <1>5, <1>6, <1>7

LEMMA RemoveFacts ==
    ASSUME NEW list, IsLibrary(list), Unique(list), NEW k \in Members(list)
    PROVE  /\ IsLibrary(Remove(list, k)) /\ Unique(Remove(list, k))
           /\ Contents(Remove(list, k)) = {m \in Contents(list) : m.name # list[k].name}
<1> DEFINE rest == Remove(list, k)
           old(i) == IF i < k THEN i ELSE i + 1
<1>1. /\ Len(list) \in Nat /\ DOMAIN list = 1 .. Len(list)
      /\ \A i \in DOMAIN list : i # 1 => list[i] \in Member
      /\ \A i \in Members(list) : i \in 1 .. Len(list)
      /\ list \in Seq(Member \cup Index)
  BY LibraryFacts DEF IsLibrary
<1>2. k \in 1 .. Len(list)
  BY <1>1
<1>3. /\ rest \in Seq(Member \cup Index) /\ Len(rest) = Len(list) - 1
      /\ \A i \in 1 .. (Len(list) - 1) : rest[i] = IF i < k THEN list[i] ELSE list[i + 1]
  BY <1>1, <1>2, RemovedPlaces
<1> HIDE DEF rest
<1>4. DOMAIN rest = 1 .. (Len(list) - 1)
  BY <1>3, LenProperties
<1>5. \A i \in DOMAIN rest :
        /\ rest[i] = list[old(i)] /\ old(i) \in 1 .. Len(list) /\ old(i) # k
        /\ (i # 1 => old(i) # 1)
  BY <1>1, <1>2, <1>3, <1>4
<1>6. \A i, j \in DOMAIN rest : old(i) = old(j) => i = j
  BY <1>1, <1>2, <1>4
<1>7. ASSUME NEW j \in 1 .. Len(list), j # k
      PROVE  \E i \in DOMAIN rest : old(i) = j
  <2>1. CASE j < k
    <3>1. j \in DOMAIN rest
      BY <1>1, <1>2, <1>4, <2>1
    <3>2. QED
      BY <2>1, <3>1
  <2>2. CASE j > k
    <3>1. j - 1 \in DOMAIN rest /\ ~(j - 1 < k) /\ (j - 1) + 1 = j
      BY <1>1, <1>2, <1>4, <2>2
    <3>2. QED
      BY <3>1
  <2>3. QED
    BY <1>1, <1>2, <1>7, <2>1, <2>2
<1> HIDE DEF old
<1>8. IsLibrary(rest)
  BY <1>1, <1>3, <1>5 DEF IsLibrary
<1>9. \A i \in DOMAIN rest : i \in Members(rest) <=> old(i) \in Members(list)
  BY <1>1, <1>5 DEF Members
<1>10. Unique(rest)
  <2> SUFFICES ASSUME NEW i \in Members(rest), NEW j \in Members(rest), rest[i].name = rest[j].name
               PROVE  i = j
    BY DEF Unique
  <2>1. i \in DOMAIN rest /\ j \in DOMAIN rest
    BY DEF Members
  <2>2. old(i) = old(j)
    BY <1>5, <1>9, <2>1 DEF Unique
  <2>3. QED
    BY <1>6, <2>1, <2>2
<1>11. Contents(rest) = {m \in Contents(list) : m.name # list[k].name}
  <2>1. ASSUME NEW i \in Members(rest)
        PROVE  rest[i] \in Contents(list) /\ rest[i].name # list[k].name
    <3>1. i \in DOMAIN rest
      BY DEF Members
    <3>2. QED
      BY <1>5, <1>9, <3>1 DEF Contents, Unique
  <2>2. ASSUME NEW j \in Members(list), list[j].name # list[k].name
        PROVE  \E i \in Members(rest) : rest[i] = list[j]
    <3>1. j \in 1 .. Len(list) /\ j # k
      BY <1>1, <2>2
    <3>2. PICK i \in DOMAIN rest : old(i) = j
      BY <1>7, <3>1
    <3>3. QED
      BY <1>5, <1>9, <3>2
  <2>3. QED
    BY <2>1, <2>2 DEF Contents
<1>12. QED
  BY <1>8, <1>10, <1>11 DEF rest

LEMMA ReplacedFacts ==
    ASSUME NEW list, IsLibrary(list), Unique(list), NEW n
    PROVE  /\ IsLibrary(Replaced(list, n)) /\ Unique(Replaced(list, n))
           /\ Contents(Replaced(list, n)) = {m \in Contents(list) : m.name # n}
<1>1. CASE FindMember(list, n) = 0
  <2>1. Replaced(list, n) = list
    BY <1>1 DEF Replaced
  <2>2. \A m \in Contents(list) : m.name # n
    BY <1>1, FindFacts DEF Named
  <2>3. QED
    BY <2>1, <2>2
<1>2. CASE FindMember(list, n) # 0
  <2>1. FindMember(list, n) \in Members(list) /\ list[FindMember(list, n)].name = n
    BY <1>2, FindFacts
  <2>2. Replaced(list, n) = Remove(list, FindMember(list, n))
    BY <1>2 DEF Replaced
  <2>3. QED
    BY <2>1, <2>2, RemoveFacts
<1>3. QED
  BY <1>1, <1>2

LEMMA AppendedFacts ==
    ASSUME NEW list, IsLibrary(list), Unique(list), NEW m \in Member,
           m.name \notin Named(Contents(list))
    PROVE  /\ IsLibrary(Append(list, m)) /\ Unique(Append(list, m))
           /\ Contents(Append(list, m)) = Contents(list) \cup {m}
<1> DEFINE new == Append(list, m)
           last == Len(list) + 1
<1>1. /\ Len(list) \in Nat /\ DOMAIN list = 1 .. Len(list)
      /\ \A i \in DOMAIN list : i # 1 => list[i] \in Member
      /\ \A i \in Members(list) : i \in DOMAIN list
      /\ list \in Seq(Member \cup Index)
  BY LibraryFacts DEF IsLibrary
<1>2. /\ new \in Seq(Member \cup Index) /\ Len(new) = last
      /\ \A i \in 1 .. Len(list) : new[i] = list[i]
      /\ new[last] = m
  BY <1>1, AppendProperties
<1> HIDE DEF new
<1>3. DOMAIN new = 1 .. last /\ last \notin DOMAIN list /\ last \in DOMAIN new
  BY <1>1, <1>2, LenProperties
<1>4. \A i \in DOMAIN new : i = last \/ (i \in DOMAIN list /\ new[i] = list[i])
  BY <1>1, <1>2, <1>3
<1>5. \A i \in DOMAIN list : i \in DOMAIN new
  BY <1>1, <1>3
<1>6. m.kind = "member"
  BY DEF Member
<1> HIDE DEF last
<1>7. IsLibrary(new)
  BY <1>1, <1>2, <1>4 DEF IsLibrary
<1>8. /\ last \in Members(new)
      /\ \A i \in Members(new) : i = last \/ (i \in Members(list) /\ new[i] = list[i])
      /\ \A i \in Members(list) : i \in Members(new) /\ new[i] = list[i]
  BY <1>1, <1>2, <1>3, <1>4, <1>5, <1>6 DEF Members
<1>9. Unique(new)
  <2>1. \A i \in Members(list) : list[i].name # m.name
    BY DEF Named, Contents
  <2>2. QED
    BY <1>2, <1>8, <2>1 DEF Unique
<1>10. Contents(new) = Contents(list) \cup {m}
  BY <1>2, <1>8 DEF Contents
<1>11. QED
  BY <1>7, <1>9, <1>10 DEF new

LEMMA WithoutIndexFacts ==
    ASSUME NEW list, IsLibrary(list), Unique(list)
    PROVE  /\ IsLibrary(RemoveIndex(list)) /\ Unique(RemoveIndex(list))
           /\ ~HaveIndex(RemoveIndex(list))
           /\ Contents(RemoveIndex(list)) = Contents(list)
<1>1. CASE ~HaveIndex(list)
  BY <1>1 DEF RemoveIndex
<1>2. CASE HaveIndex(list)
  <2> DEFINE rest == Tail(list)
  <2>1. rest = RemoveIndex(list)
    BY <1>2 DEF RemoveIndex
  <2>2. /\ list \in Seq(Member \cup Index) /\ list # << >>
        /\ Len(list) \in Nat /\ DOMAIN list = 1 .. Len(list)
        /\ \A i \in DOMAIN list : i # 1 => list[i] \in Member /\ i \in Members(list)
        /\ 1 \notin Members(list) /\ Members(list) \subseteq 1 .. Len(list)
    BY <1>2, LibraryFacts DEF IsLibrary, HaveIndex
  <2>3. /\ rest \in Seq(Member \cup Index) /\ Len(rest) = Len(list) - 1
        /\ \A i \in 1 .. Len(rest) : rest[i] = list[i + 1]
    BY <2>2, HeadTailProperties
  <2> HIDE DEF rest
  <2>4. DOMAIN rest = 1 .. (Len(list) - 1)
    BY <2>3, LenProperties
  <2>5. \A i \in DOMAIN rest : i + 1 \in Members(list) /\ rest[i] = list[i + 1] /\ list[i + 1] \in Member
    <3>1. \A i \in DOMAIN rest : i + 1 \in 1 .. Len(list) /\ i + 1 # 1
      BY <2>2, <2>4
    <3>2. QED
      BY <2>2, <2>3, <2>4, <3>1
  <2>6. \A i \in Members(list) : i - 1 \in DOMAIN rest /\ rest[i - 1] = list[i]
    <3>1. \A i \in Members(list) : i - 1 \in 1 .. (Len(list) - 1) /\ (i - 1) + 1 = i
      BY <2>2
    <3>2. QED
      BY <2>4, <2>5, <3>1
  <2>7. Members(rest) = DOMAIN rest
    BY <2>5 DEF Members, Member
  <2>8. IsLibrary(rest)
    BY <2>3, <2>5 DEF IsLibrary
  <2>9. ~HaveIndex(rest)
    <3>1. rest # << >> => 1 \in DOMAIN rest
      BY <2>3, <2>4, EmptySeq
    <3>2. QED
      BY <2>7, <2>8, <3>1, LibraryFacts DEF HaveIndex
  <2>10. Unique(rest)
    <3>1. \A i, j \in DOMAIN rest : rest[i].name = rest[j].name => i + 1 = j + 1
      BY <2>5 DEF Unique
    <3>2. \A i, j \in DOMAIN rest : i + 1 = j + 1 => i = j
      BY <2>2, <2>4
    <3>3. QED
      BY <2>7, <3>1, <3>2 DEF Unique
  <2>11. Contents(rest) = Contents(list)
    BY <2>5, <2>6, <2>7 DEF Contents
  <2>12. QED
    BY <2>1, <2>8, <2>9, <2>10, <2>11
<1>3. QED
  BY <1>1, <1>2

\* Names are unique, so there are no more members than names.
LEMMA FewMembers ==
    ASSUME NEW list, IsLibrary(list), Unique(list), ~HaveIndex(list)
    PROVE  Len(list) <= Cardinality(Names) /\ Cardinality(Names) \in Nat
<1>1. /\ Len(list) \in Nat /\ DOMAIN list = 1 .. Len(list) /\ Members(list) = DOMAIN list
      /\ \A i \in DOMAIN list : list[i].name \in Names
  BY LibraryFacts
<1>2. IsFiniteSet(Names)
  BY FilesAssumption, FS_Subset DEF Names
<1> DEFINE f == [i \in 1 .. Len(list) |-> list[i].name]
<1>3. f \in Injection(1 .. Len(list), Names)
  BY <1>1 DEF Injection, IsInjective, Unique
<1>4. Cardinality(1 .. Len(list)) <= Cardinality(Names)
  BY <1>2, <1>3, FS_Injection
<1>5. Cardinality(1 .. Len(list)) = Len(list)
  BY <1>1, FS_Interval
<1>6. QED
  BY <1>2, <1>4, <1>5, FS_CardinalityType

(***************************************************************************)
(* The index in front of a list leads to the members that definitions name.*)
(***************************************************************************)
LEMMA IndexedFacts ==
    ASSUME NEW list, IsLibrary(list), Unique(list), ~HaveIndex(list), list # << >>,
           NEW defs, DOMAIN defs \subseteq Symbols, DOMAIN defs # {},
           \A s \in DOMAIN defs : \E m \in Contents(list) : m.name = defs[s] /\ s \in m.object,
           DOMAIN defs = UNION {m.object : m \in Contents(list)}
    PROVE  /\ IsLibrary(WithIndex(list, defs)) /\ Unique(WithIndex(list, defs))
           /\ Contents(WithIndex(list, defs)) = Contents(list)
           /\ Fits(WithIndex(list, defs))
<1> DEFINE dummy == [kind |-> "index", table |-> NoSymbols]
           front == <<dummy>> \o list
           table == [s \in DOMAIN defs |-> FindMember(front, defs[s])]
           entry == [kind |-> "index", table |-> table]
           new   == [front EXCEPT ![1].table = table]
<1>1. WithIndex(list, defs) = new
  BY DEF WithIndex
<1>2. /\ list \in Seq(Member \cup Index) /\ Len(list) \in Nat /\ DOMAIN list = 1 .. Len(list)
      /\ Members(list) = DOMAIN list
      /\ \A i \in DOMAIN list : list[i] \in Member /\ list[i].object \in Objects
  BY LibraryFacts DEF IsLibrary
<1>3. Len(list) <= Cardinality(Names) /\ Cardinality(Names) \in Nat
  BY FewMembers
<1>4. NoSymbols \in Partial(Symbols, 1 .. Cardinality(Names) + 1)
  <2>1. NoSymbols \in [{} -> 1 .. Cardinality(Names) + 1] /\ {} \in SUBSET Symbols
    BY DEF NoSymbols
  <2>2. QED
    BY <2>1 DEF Partial
<1>5. dummy \in Index
  BY <1>4 DEF Index
<1>6. /\ front \in Seq(Member \cup Index) /\ Len(front) = Len(list) + 1
      /\ front[1] = dummy
      /\ \A i \in 2 .. (Len(list) + 1) : front[i] = list[i - 1]
  <2>1. <<dummy>> \in Seq(Member \cup Index) /\ Len(<<dummy>>) = 1 /\ <<dummy>>[1] = dummy
    BY <1>5
  <2> DEFINE one == <<dummy>>
  <2> HIDE DEF one, dummy
  <2>2. /\ one \o list \in Seq(Member \cup Index)
        /\ Len(one \o list) = Len(one) + Len(list)
        /\ \A i \in 1 .. Len(one) + Len(list) :
              (one \o list)[i] = IF i <= Len(one) THEN one[i] ELSE list[i - Len(one)]
    BY <1>2, <2>1, ConcatProperties DEF one
  <2>3. QED
    BY <1>2, <2>1, <2>2 DEF one
<1>7. DOMAIN front = 1 .. (Len(list) + 1)
  BY <1>2, <1>6, LenProperties
<1> HIDE DEF front
<1>8. \A i \in DOMAIN front : i # 1 => i - 1 \in DOMAIN list /\ front[i] = list[i - 1]
  BY <1>2, <1>6, <1>7
<1>9. \A i \in DOMAIN list : i + 1 \in DOMAIN front /\ i + 1 # 1 /\ front[i + 1] = list[i]
  BY <1>2, <1>6, <1>7
<1>10. IsLibrary(front)
  BY <1>2, <1>6, <1>8 DEF IsLibrary
<1>11. Members(front) = {i \in DOMAIN front : i # 1}
  <2>1. front[1].kind = "index"
    BY <1>6
  <2>2. \A i \in DOMAIN front : i # 1 => front[i].kind = "member"
    BY <1>2, <1>8 DEF Member
  <2>3. QED
    BY <2>1, <2>2 DEF Members
<1>12. Unique(front)
  <2>1. \A i, j \in DOMAIN front :
           (i # 1 /\ j # 1 /\ front[i].name = front[j].name) => i - 1 = j - 1
    BY <1>2, <1>8 DEF Unique
  <2>2. \A i, j \in DOMAIN front : i - 1 = j - 1 => i = j
    BY <1>2, <1>7
  <2>3. QED
    BY <1>11, <2>1, <2>2 DEF Unique
<1>13. Contents(front) = Contents(list)
  BY <1>2, <1>8, <1>9, <1>11 DEF Contents
<1>14. ASSUME NEW s \in DOMAIN defs
       PROVE  table[s] \in Members(front) /\ s \in front[table[s]].object
  <2>1. PICK i \in Members(front) : front[i].name = defs[s] /\ s \in front[i].object
    BY <1>13 DEF Contents
  <2>2. table[s] = i
    BY <1>10, <1>12, <2>1, FindFacts
  <2>3. QED
    BY <2>1, <2>2
<1>15. table \in Partial(Symbols, 1 .. Cardinality(Names) + 1)
  <2>1. Members(front) \subseteq 1 .. Cardinality(Names) + 1
    BY <1>2, <1>3, <1>7, <1>11
  <2>2. table \in [DOMAIN defs -> 1 .. Cardinality(Names) + 1]
    BY <1>14, <2>1
  <2>3. QED
    BY <2>2 DEF Partial
<1>16. DOMAIN table = DOMAIN defs
  OBVIOUS
<1> HIDE DEF table
<1>17. entry \in Index
  BY <1>15 DEF Index
<1>18. /\ new = [front EXCEPT ![1] = entry]
       /\ 1 \in DOMAIN front
  <2>1. [dummy EXCEPT !.table = table] = entry
    OBVIOUS
  <2>2. new = [front EXCEPT ![1] = [dummy EXCEPT !.table = table]]
    BY <1>6
  <2> HIDE DEF dummy, entry, new
  <2>3. new = [front EXCEPT ![1] = entry]
    BY <2>1, <2>2, Zenon
  <2>4. QED
    BY <1>2, <1>7, <2>3
<1>19. /\ DOMAIN new = DOMAIN front /\ new[1] = entry
       /\ \A i \in DOMAIN front : i # 1 => new[i] = front[i]
       /\ new \in Seq(Member \cup Index)
  BY <1>6, <1>17, <1>18
<1>20. entry.kind = "index" /\ entry.table = table
  OBVIOUS
<1> HIDE DEF new, entry
<1>21. Members(new) = Members(front)
  <2>1. \A i \in DOMAIN front : i # 1 => new[i].kind = "member"
    BY <1>11, <1>19 DEF Members
  <2>2. QED
    BY <1>11, <1>19, <1>20, <2>1 DEF Members
<1>22. \A i \in Members(front) : new[i] = front[i]
  BY <1>11, <1>19
<1>23. IsLibrary(new)
  BY <1>10, <1>19 DEF IsLibrary
<1>24. Unique(new)
  BY <1>12, <1>21, <1>22 DEF Unique
<1>25. Contents(new) = Contents(list)
  <2>1. {new[i] : i \in Members(front)} = {front[i] : i \in Members(front)}
    BY <1>22
  <2>2. QED
    BY <1>13, <1>21, <2>1 DEF Contents
<1>26. Fits(new)
  <2>1. {new[i].object : i \in Members(new)} = {m.object : m \in Contents(list)}
    <3>1. {new[i] : i \in Members(new)} = Contents(list)
      BY <1>25 DEF Contents
    <3>2. {new[i].object : i \in Members(new)} = {m.object : m \in {new[i] : i \in Members(new)}}
      OBVIOUS
    <3>3. QED
      BY <3>1, <3>2
  <2>2. new[1].table = table
    BY <1>19, <1>20
  <2>3. QED
    BY <1>14, <1>16, <1>21, <1>22, <2>1, <2>2 DEF Fits
<1>27. QED
  BY <1>1, <1>23, <1>24, <1>25, <1>26

-----------------------------------------------------------------------------
(***************************************************************************)
(* The invariant holds at first and is kept by every step.                 *)
(***************************************************************************)
LEMMA Lists ==
    ASSUME IInv
    PROVE  /\ IsLibrary(disk) /\ Unique(disk) /\ Fits(disk)
           /\ IsLibrary(archive) /\ Unique(archive)
<1>1. IsLibrary(disk) /\ IsLibrary(archive)
  BY DEF IInv, TypeOK, IsLibrary
<1>2. Unique(disk) /\ Unique(archive)
  BY DEF IInv, NamesAreUnique, Unique
<1>3. Fits(disk)
  BY DEF IInv, IndexFits, Fits
<1>4. QED
  BY <1>1, <1>2, <1>3

LEMMA NoMembers ==
    /\ IsLibrary(<< >>) /\ Unique(<< >>) /\ Fits(<< >>)
    /\ Contents(<< >>) = {} /\ ~HaveIndex(<< >>)
<1>1. Members(<< >>) = {}
  BY DEF Members
<1>2. ~HaveIndex(<< >>)
  BY DEF HaveIndex
<1>3. QED
  BY <1>1, <1>2 DEF IsLibrary, Unique, Fits, Contents

LEMMA NoDefinitions ==
    NoSymbols \in Partial(Symbols, Names) /\ DOMAIN NoSymbols = {}
<1>1. NoSymbols \in [{} -> Names] /\ {} \in SUBSET Symbols /\ DOMAIN NoSymbols = {}
  BY DEF NoSymbols
<1>2. QED
  BY <1>1 DEF Partial

LEMMA InitHolds == Init => IInv
<1> SUFFICES ASSUME Init PROVE IInv
  OBVIOUS
<1>1. TypeOK
  <2>1. files \in [Files -> Objects \cup {NoObject}]
    BY DEF Init
  <2>2. definitions \in Partial(Symbols, Names)
    BY NoDefinitions DEF Init
  <2>3. \A list \in {disk, archive} : IsLibrary(list)
    BY NoMembers DEF Init
  <2>4. << >> \in Seq(Files)
    BY EmptySeq
  <2>5. args \in Seq(Files) /\ mode \in Modes /\ noIndex \in BOOLEAN
    BY <2>4 DEF Init, Modes
  <2>6. pc \in {"idle", "arguments", "symbols", "write"} /\ at \in Nat /\ errors \in BOOLEAN
    BY DEF Init
  <2>7. QED
    BY <2>1, <2>2, <2>3, <2>5, <2>6 DEF TypeOK, IsLibrary
<1>2. NamesAreUnique /\ IndexFits
  BY NoMembers DEF Init, NamesAreUnique, IndexFits, Unique, Fits
<1>3. AtRest /\ Unchanged /\ DefinitionsRight /\ HalfDone
  BY DEF Init, AtRest, Unchanged, DefinitionsRight, HalfDone, Updates
<1>4. QED
  BY <1>1, <1>2, <1>3 DEF IInv

\* What is done depends on the members in the list, not on their places.
LEMMA DoneFrame ==
    ASSUME NEW as, NEW k, UNCHANGED <<files, disk, mode>>,
           Contents(archive') = Contents(archive), Done(as, k)
    PROVE  Done(as, k)'
BY DEF Done, NamesTaken, FilesPut, Base, Given

LEMMA CompileKeeps ==
    ASSUME IInv, NEW v \in Versions, Compile(v[1], v[2])
    PROVE  IInv'
<1>1. /\ pc = "idle" /\ files' = [files EXCEPT ![v[1]] = v[2]]
      /\ UNCHANGED <<disk, pc, mode, noIndex, args, archive, definitions, at, errors>>
  BY DEF Compile, command
<1>2. v[2] \in Objects \cup {NoObject}
  BY FilesAssumption
<1>3. TypeOK'
  BY <1>1, <1>2 DEF IInv, TypeOK
<1>4. NamesAreUnique' /\ IndexFits'
  BY <1>1 DEF IInv, NamesAreUnique, IndexFits
<1>5. AtRest' /\ Unchanged'
  BY <1>1 DEF IInv, AtRest, Unchanged, Updates
<1>6. DefinitionsRight'
  BY <1>1 DEF DefinitionsRight
<1>7. HalfDone'
  BY <1>1 DEF IInv, AtRest, HalfDone, Updates
<1>8. QED
  BY <1>3, <1>4, <1>5, <1>6, <1>7 DEF IInv

LEMMA BeginKeeps ==
    ASSUME IInv, NEW m \in Modes, NEW n \in BOOLEAN, NEW as \in Arguments, Begin(m, n, as)
    PROVE  IInv'
<1>1. /\ pc = "idle" /\ pc' = "arguments" /\ mode' = m /\ noIndex' = n
      /\ args' = (IF m \in {"list", "symbols"} THEN << >> ELSE as)
      /\ archive' = (IF m = "create" THEN << >> ELSE disk)
      /\ errors' \in BOOLEAN
      /\ UNCHANGED <<files, disk, definitions, at>>
  BY DEF Begin
<1>2. /\ IsLibrary(disk) /\ Unique(disk) /\ Fits(disk)
      /\ IsLibrary(archive') /\ Unique(archive')
  BY <1>1, Lists, NoMembers
<1>3. as \in Seq(Files)
  BY FilesAssumption
<1>4. TypeOK'
  <2>1. args' \in Seq(Files)
    <3>1. << >> \in Seq(Files)
      BY EmptySeq
    <3>2. QED
      BY <1>1, <1>3, <3>1, Zenon
  <2>2. \A list \in {disk', archive'} : IsLibrary(list)
    BY <1>1, <1>2
  <2>3. QED
    BY <1>1, <2>1, <2>2 DEF IInv, TypeOK, IsLibrary
<1>5. NamesAreUnique' /\ IndexFits'
  BY <1>1, <1>2 DEF NamesAreUnique, IndexFits, Unique, Fits
<1>6. AtRest' /\ Unchanged'
  BY <1>1 DEF AtRest, Unchanged, Updates
<1>7. DefinitionsRight'
  BY <1>1 DEF IInv, AtRest, DefinitionsRight
<1>8. ASSUME m \in {"create", "replace", "delete"}
      PROVE  Done(as, 0)'
  <2>1. 1 .. 0 = {}
    OBVIOUS
  <2>2. /\ DOMAIN AsFunction(disk) = Named(Contents(disk))
        /\ \A x \in Contents(disk) : AsFunction(disk)[x.name] = x.object
    BY <1>2, AsFunctionFacts
  <2>3. CASE m = "delete"
    <3>1. archive' = disk /\ disk' = disk /\ mode' = "delete"
      BY <1>1, <2>3
    <3>2. QED
      BY <2>1, <2>2, <3>1 DEF Done, NamesTaken
  <2>4. CASE m = "replace"
    <3>1. archive' = disk /\ disk' = disk /\ mode' = "replace"
      BY <1>1, <2>4
    <3>2. Base' = AsFunction(disk)
      BY <3>1 DEF Base
    <3>3. FilesPut(Contents(archive), as, 0)'
      BY <2>1, <2>2, <3>1, <3>2 DEF FilesPut, Given
    <3>4. QED
      BY <3>1, <3>3 DEF Done
  <2>5. CASE m = "create"
    <3>1. archive' = << >> /\ mode' = "create"
      BY <1>1, <2>5
    <3>2. DOMAIN Base' = {}
      BY <3>1 DEF Base, Promised!Empty
    <3>3. Contents(archive') = {} /\ Named({}) = {}
      BY <3>1, NoMembers DEF Named
    <3>4. FilesPut(Contents(archive), as, 0)'
      BY <2>1, <3>2, <3>3 DEF FilesPut
    <3>5. QED
      BY <3>1, <3>4 DEF Done
  <2>6. QED
    BY <1>8, <2>3, <2>4, <2>5
<1>9. HalfDone'
  <2>1. ASSUME Updates'
        PROVE  /\ 0 \in 0 .. Len(as) /\ Len(args') = Len(as) - 0
               /\ \A i \in 1 .. Len(args') : args'[i] = as[0 + i]
               /\ Done(as, 0)'
    <3>1. m \in {"create", "replace", "delete"} /\ args' = as
      BY <1>1, <2>1 DEF Updates
    <3>2. Len(as) \in Nat
      BY <1>3, LenProperties
    <3>3. \A i \in 1 .. Len(as) : as[i] = as[0 + i]
      BY <3>2
    <3>4. 0 \in 0 .. Len(as) /\ Len(as) = Len(as) - 0
      <4>1. \A len \in Nat : 0 \in 0 .. len /\ len = len - 0
        OBVIOUS
      <4>2. QED
        BY <3>2, <4>1, Zenon
    <3>5. QED
      BY <1>8, <3>1, <3>3, <3>4
  <2>2. QED
    BY <1>1, <2>1 DEF HalfDone
<1>10. QED
  BY <1>4, <1>5, <1>6, <1>7, <1>9 DEF IInv

(***************************************************************************)
(* One argument more.                                                      *)
(***************************************************************************)
LEMMA NextFacts ==
    ASSUME IInv, args # << >>, args' = Tail(args)
    PROVE  /\ Head(args) \in Files /\ MemberName[Head(args)] \in Names
           /\ args' \in Seq(Files)
           /\ \A as \in Seq(Files) : \A k \in 0 .. Len(as) :
                 (Len(args) = Len(as) - k /\ \A i \in 1 .. Len(args) : args[i] = as[k + i])
                 => /\ k + 1 \in 0 .. Len(as) /\ Head(args) = as[k + 1]
                    /\ Len(args') = Len(as) - (k + 1)
                    /\ \A i \in 1 .. Len(args') : args'[i] = as[(k + 1) + i]
<1>1. args \in Seq(Files) /\ Len(args) \in Nat /\ Len(args) # 0
  BY EmptySeq, LenProperties DEF IInv, TypeOK
<1>2. /\ args' \in Seq(Files) /\ Len(args') = Len(args) - 1
      /\ \A i \in 1 .. Len(args') : args'[i] = args[i + 1]
  BY <1>1, HeadTailProperties
<1>3. Head(args) = args[1] /\ Head(args) \in Files
  BY <1>1, HeadTailProperties
<1>4. MemberName[Head(args)] \in Names
  BY <1>3 DEF Names
<1>5. ASSUME NEW as \in Seq(Files), NEW k \in 0 .. Len(as),
             Len(args) = Len(as) - k, \A i \in 1 .. Len(args) : args[i] = as[k + i]
      PROVE  /\ k + 1 \in 0 .. Len(as) /\ Head(args) = as[k + 1]
             /\ Len(args') = Len(as) - (k + 1)
             /\ \A i \in 1 .. Len(args') : args'[i] = as[(k + 1) + i]
  <2>1. Len(as) \in Nat
    BY LenProperties
  <2>2. k + 1 \in 0 .. Len(as) /\ Len(args') = Len(as) - (k + 1)
    <3> DEFINE all == Len(as)
               now == Len(args)
    <3>1. all \in Nat /\ now \in Nat /\ now # 0 /\ now = all - k /\ k \in 0 .. all
      BY <1>1, <1>5, <2>1
    <3>2. Len(args') = now - 1
      BY <1>2
    <3> HIDE DEF all, now
    <3>3. k + 1 \in 0 .. all /\ now - 1 = all - (k + 1)
      BY <3>1
    <3>4. QED
      BY <3>2, <3>3 DEF all
  <2>3. Head(args) = as[k + 1]
    <3>1. 1 \in 1 .. Len(args)
      BY <1>1
    <3>2. QED
      BY <1>3, <1>5, <3>1
  <2>4. ASSUME NEW i \in 1 .. Len(args') PROVE args'[i] = as[(k + 1) + i]
    <3>1. i + 1 \in 1 .. Len(args) /\ k + (i + 1) = (k + 1) + i
      BY <1>1, <1>2, <2>1
    <3>2. args'[i] = args[i + 1]
      BY <1>2
    <3>3. args[i + 1] = as[k + (i + 1)]
      BY <1>5, <3>1
    <3>4. QED
      BY <3>1, <3>2, <3>3
  <2>5. QED
    BY <2>2, <2>3, <2>4
<1>6. QED
  BY <1>2, <1>3, <1>4, <1>5

LEMMA FilePut ==
    ASSUME NEW as \in Seq(Files), NEW k \in Nat, NEW f, f = as[k + 1],
           NEW members, NEW m, m.name = MemberName[f], m.object = files[f], files[f] # NoObject,
           FilesPut(members, as, k)
    PROVE  FilesPut({x \in members : x.name # m.name} \cup {m}, as, k + 1)
<1> DEFINE next == {x \in members : x.name # m.name} \cup {m}
<1>1. \A i : i \in 1 .. (k + 1) <=> (i \in 1 .. k \/ i = k + 1)
  OBVIOUS
<1>2. \A i \in 1 .. (k + 1) : files[as[i]] # NoObject
  BY <1>1 DEF FilesPut
<1>3. Named(next) = DOMAIN Base \cup {MemberName[as[i]] : i \in 1 .. (k + 1)}
  <2>1. Named(next) = Named(members) \cup {m.name}
    BY DEF Named
  <2>2. {MemberName[as[i]] : i \in 1 .. (k + 1)} = {MemberName[as[i]] : i \in 1 .. k} \cup {m.name}
    BY <1>1
  <2>3. QED
    BY <2>1, <2>2 DEF FilesPut
<1>4. Given(as, k + 1, m.name) = Given(as, k, m.name) \cup {k + 1}
  BY <1>1 DEF Given
<1>5. \A n : n # m.name => Given(as, k + 1, n) = Given(as, k, n)
  BY <1>1 DEF Given
<1>6. ASSUME NEW x \in next
      PROVE  IF Given(as, k + 1, x.name) = {} THEN x.object = Base[x.name]
             ELSE \E i \in Given(as, k + 1, x.name) :
                     /\ \A j \in Given(as, k + 1, x.name) : j <= i
                     /\ x.object = files[as[i]]
  <2>1. CASE x = m
    <3>1. \A j \in Given(as, k + 1, m.name) : j <= k + 1
      BY DEF Given
    <3>2. QED
      BY <1>4, <2>1, <3>1
  <2>2. CASE x \in members /\ x.name # m.name
    BY <1>5, <2>2 DEF FilesPut
  <2>3. QED
    BY <2>1, <2>2
<1>7. QED
  BY <1>2, <1>3, <1>6 DEF FilesPut

LEMMA AddMemberKeeps ==
    ASSUME IInv, AddMember
    PROVE  IInv'
<1> DEFINE f == Head(args)
           n == MemberName[f]
           m == [kind |-> "member", name |-> n, object |-> files[f]]
<1>1. /\ pc = "arguments" /\ args # << >> /\ mode \in {"create", "replace"}
      /\ files[f] # NoObject
      /\ archive' = Append(Replaced(archive, n), m)
      /\ args' = Tail(args)
      /\ UNCHANGED <<files, disk, pc, mode, noIndex, definitions, at, errors>>
  BY DEF AddMember, NextArgument
<1>2. /\ f \in Files /\ n \in Names /\ args' \in Seq(Files)
      /\ files[f] \in Objects
  BY <1>1, NextFacts DEF IInv, TypeOK
<1>3. m \in Member /\ m.name = n /\ m.object = files[f]
  BY <1>2 DEF Member
<1>4. /\ IsLibrary(Replaced(archive, n)) /\ Unique(Replaced(archive, n))
      /\ Contents(Replaced(archive, n)) = {x \in Contents(archive) : x.name # n}
      /\ IsLibrary(disk) /\ Unique(disk) /\ Fits(disk)
  BY Lists, ReplacedFacts
<1>5. n \notin Named(Contents(Replaced(archive, n)))
  BY <1>4 DEF Named
<1> HIDE DEF m, n, f
<1>6. /\ IsLibrary(archive') /\ Unique(archive')
      /\ Contents(archive') = {x \in Contents(archive) : x.name # n} \cup {m}
  BY <1>1, <1>3, <1>4, <1>5, AppendedFacts
<1>7. TypeOK'
  <2>1. \A list \in {disk', archive'} : IsLibrary(list)
    BY <1>1, <1>4, <1>6
  <2>2. QED
    BY <1>1, <1>2, <2>1 DEF IInv, TypeOK, IsLibrary
<1>8. NamesAreUnique' /\ IndexFits'
  <2>1. NamesAreUnique'
    BY <1>1, <1>4, <1>6 DEF NamesAreUnique, Unique
  <2>2. IndexFits'
    BY <1>1 DEF IInv, IndexFits
  <2>3. QED
    BY <2>1, <2>2
<1>9. AtRest' /\ Unchanged'
  BY <1>1 DEF AtRest, Unchanged, Updates
<1>10. DefinitionsRight'
  BY <1>1 DEF IInv, DefinitionsRight
<1>11. HalfDone'
  <2> SUFFICES ASSUME ~errors
               PROVE  \E as \in Arguments : \E k \in 0 .. Len(as) :
                         /\ Len(args') = Len(as) - k
                         /\ \A i \in 1 .. Len(args') : args'[i] = as[k + i]
                         /\ Done(as, k)'
    BY <1>1 DEF HalfDone
  <2>1. PICK as \in Arguments : \E k \in 0 .. Len(as) :
           /\ Len(args) = Len(as) - k
           /\ \A i \in 1 .. Len(args) : args[i] = as[k + i]
           /\ Done(as, k)
    BY <1>1 DEF IInv, HalfDone, Updates
  <2>2. PICK k \in 0 .. Len(as) :
           /\ Len(args) = Len(as) - k
           /\ \A i \in 1 .. Len(args) : args[i] = as[k + i]
           /\ Done(as, k)
    BY <2>1
  <2>3. as \in Seq(Files) /\ Len(as) \in Nat
    BY FilesAssumption, LenProperties
  <2>4. /\ k + 1 \in 0 .. Len(as) /\ f = as[k + 1]
        /\ Len(args') = Len(as) - (k + 1)
        /\ \A i \in 1 .. Len(args') : args'[i] = as[(k + 1) + i]
    BY <1>1, <2>2, <2>3, NextFacts DEF f
  <2>5. FilesPut(Contents(archive), as, k)
    BY <1>1, <2>2 DEF Done
  <2>6. FilesPut({x \in Contents(archive) : x.name # m.name} \cup {m}, as, k + 1)
    <3>1. m.name = MemberName[f] /\ m.object = files[f] /\ files[f] # NoObject
      BY <1>1, <1>3 DEF n
    <3>2. k \in Nat /\ f = as[k + 1]
      BY <2>3, <2>4
    <3>3. QED
      BY <2>3, <2>5, <3>1, <3>2, FilePut
  <2>7. FilesPut(Contents(archive'), as, k + 1)
    BY <1>3, <1>6, <2>6
  <2>8. Done(as, k + 1)'
    BY <1>1, <2>7 DEF Done, FilesPut, Base, Given
  <2>9. QED
    BY <2>4, <2>8
<1>12. QED
  BY <1>7, <1>8, <1>9, <1>10, <1>11 DEF IInv

LEMMA DeleteMemberKeeps ==
    ASSUME IInv, DeleteMember
    PROVE  IInv'
<1> DEFINE n == Head(args)
<1>1. /\ pc = "arguments" /\ args # << >> /\ mode = "delete"
      /\ FindMember(archive, n) # 0
      /\ archive' = Remove(archive, FindMember(archive, n))
      /\ args' = Tail(args)
      /\ UNCHANGED <<files, disk, pc, mode, noIndex, definitions, at, errors>>
  BY DEF DeleteMember, IsMember, NextArgument
<1>2. args' \in Seq(Files)
  BY <1>1, NextFacts
<1>3. /\ IsLibrary(disk) /\ Unique(disk) /\ Fits(disk)
      /\ IsLibrary(archive) /\ Unique(archive)
  BY Lists
<1> HIDE DEF n
<1>4. /\ FindMember(archive, n) \in Members(archive)
      /\ archive[FindMember(archive, n)].name = n
      /\ n \in Named(Contents(archive))
  BY <1>1, <1>3, FindFacts
<1>5. /\ IsLibrary(archive') /\ Unique(archive')
      /\ Contents(archive') = {x \in Contents(archive) : x.name # n}
  BY <1>1, <1>3, <1>4, RemoveFacts
<1>6. TypeOK'
  <2>1. \A list \in {disk', archive'} : IsLibrary(list)
    BY <1>1, <1>3, <1>5
  <2>2. QED
    BY <1>1, <1>2, <2>1 DEF IInv, TypeOK, IsLibrary
<1>7. NamesAreUnique' /\ IndexFits'
  <2>1. NamesAreUnique'
    BY <1>1, <1>3, <1>5 DEF NamesAreUnique, Unique
  <2>2. IndexFits'
    BY <1>1 DEF IInv, IndexFits
  <2>3. QED
    BY <2>1, <2>2
<1>8. AtRest' /\ Unchanged'
  BY <1>1 DEF AtRest, Unchanged, Updates
<1>9. DefinitionsRight'
  BY <1>1 DEF IInv, DefinitionsRight
<1>10. HalfDone'
  <2> SUFFICES ASSUME ~errors
               PROVE  \E as \in Arguments : \E k \in 0 .. Len(as) :
                         /\ Len(args') = Len(as) - k
                         /\ \A i \in 1 .. Len(args') : args'[i] = as[k + i]
                         /\ Done(as, k)'
    BY <1>1 DEF HalfDone
  <2>1. PICK as \in Arguments : \E k \in 0 .. Len(as) :
           /\ Len(args) = Len(as) - k
           /\ \A i \in 1 .. Len(args) : args[i] = as[k + i]
           /\ Done(as, k)
    BY <1>1 DEF IInv, HalfDone, Updates
  <2>2. PICK k \in 0 .. Len(as) :
           /\ Len(args) = Len(as) - k
           /\ \A i \in 1 .. Len(args) : args[i] = as[k + i]
           /\ Done(as, k)
    BY <2>1
  <2>3. as \in Seq(Files) /\ Len(as) \in Nat
    BY FilesAssumption, LenProperties
  <2>4. /\ k + 1 \in 0 .. Len(as) /\ n = as[k + 1]
        /\ Len(args') = Len(as) - (k + 1)
        /\ \A i \in 1 .. Len(args') : args'[i] = as[(k + 1) + i]
    BY <1>1, <2>2, <2>3, NextFacts DEF n
  <2>5. NamesTaken(Contents(archive), as, k)
    BY <1>1, <2>2 DEF Done
  <2>6. \A i : i \in 1 .. (k + 1) <=> (i \in 1 .. k \/ i = k + 1)
    BY <2>3
  <2>7. {as[i] : i \in 1 .. (k + 1)} = {as[i] : i \in 1 .. k} \cup {n}
    BY <2>4, <2>6
  <2>8. Named(Contents(archive')) = Named(Contents(archive)) \ {n}
    BY <1>5 DEF Named
  <2>9. NamesTaken(Contents(archive'), as, k + 1)
    BY <1>4, <1>5, <2>5, <2>7, <2>8 DEF NamesTaken
  <2>10. Done(as, k + 1)'
    BY <1>1, <2>9 DEF Done, NamesTaken
  <2>11. QED
    BY <2>4, <2>10
<1>11. QED
  BY <1>6, <1>7, <1>8, <1>9, <1>10 DEF IInv

LEMMA ExtractMemberKeeps ==
    ASSUME IInv, ExtractMember
    PROVE  IInv'
<1> DEFINE n == Head(args)
<1>1. /\ pc = "arguments" /\ args # << >> /\ mode = "extract"
      /\ FindMember(archive, n) # 0
      /\ \/ files' = [files EXCEPT ![n] = archive[FindMember(archive, n)].object]
         \/ files' = files
      /\ args' = Tail(args)
      /\ UNCHANGED <<disk, pc, mode, noIndex, archive, definitions, at, errors>>
  BY DEF ExtractMember, IsMember, NextArgument
<1>2. args' \in Seq(Files) /\ n \in Files
  BY <1>1, NextFacts
<1> HIDE DEF n
<1>3. archive[FindMember(archive, n)].object \in Objects
  BY <1>1, Lists, FindFacts, LibraryFacts
<1>4. TypeOK'
  <2>1. files' \in [Files -> Objects \cup {NoObject}]
    BY <1>1, <1>3 DEF IInv, TypeOK
  <2>2. QED
    BY <1>1, <1>2, <2>1 DEF IInv, TypeOK
<1>5. NamesAreUnique' /\ IndexFits'
  BY <1>1 DEF IInv, NamesAreUnique, IndexFits
<1>6. AtRest' /\ Unchanged'
  BY <1>1 DEF IInv, AtRest, Unchanged, Updates
<1>7. DefinitionsRight'
  BY <1>1 DEF IInv, DefinitionsRight
<1>8. HalfDone'
  BY <1>1 DEF HalfDone, Updates
<1>9. QED
  BY <1>4, <1>5, <1>6, <1>7, <1>8 DEF IInv

LEMMA BadArgumentKeeps ==
    ASSUME IInv, BadArgument
    PROVE  IInv'
<1>1. /\ pc = "arguments" /\ errors' = TRUE /\ args' = << >>
      /\ UNCHANGED <<files, disk, pc, mode, noIndex, archive, definitions, at>>
  BY DEF BadArgument
<1>2. TypeOK'
  <2>1. << >> \in Seq(Files)
    BY EmptySeq
  <2>2. QED
    BY <1>1, <2>1 DEF IInv, TypeOK
<1>3. NamesAreUnique' /\ IndexFits'
  BY <1>1 DEF IInv, NamesAreUnique, IndexFits
<1>4. AtRest' /\ Unchanged'
  BY <1>1 DEF IInv, AtRest, Unchanged, Updates
<1>5. DefinitionsRight'
  BY <1>1 DEF IInv, DefinitionsRight
<1>6. HalfDone'
  BY <1>1 DEF HalfDone
<1>7. QED
  BY <1>2, <1>3, <1>4, <1>5, <1>6 DEF IInv

LEMMA EndArgumentsKeeps ==
    ASSUME IInv, EndArguments
    PROVE  IInv'
<1>1. /\ pc = "arguments" /\ pc' = "symbols" /\ args = << >>
      /\ archive' = (IF Updates THEN RemoveIndex(archive) ELSE archive)
      /\ errors' = (errors \/ (mode = "symbols" /\ ~HaveIndex(archive)))
      /\ at' = (IF HaveIndex(archive') THEN 2 ELSE 1)
      /\ UNCHANGED <<files, disk, mode, noIndex, args, definitions>>
  BY DEF EndArguments, command
<1>2. /\ IsLibrary(disk) /\ Unique(disk)
      /\ IsLibrary(archive') /\ Unique(archive') /\ Contents(archive') = Contents(archive)
      /\ Updates => ~HaveIndex(archive')
  BY <1>1, Lists, WithoutIndexFacts
<1>3. /\ Len(archive') \in Nat
      /\ \A i \in Members(archive') : i \in Nat \ {0}
      /\ 1 \in Members(archive') => ~HaveIndex(archive')
      /\ HaveIndex(archive') => Len(archive') >= 1
  BY <1>2, LibraryFacts
<1>4. TypeOK'
  <2>1. \A list \in {disk', archive'} : IsLibrary(list)
    BY <1>1, <1>2
  <2>2. at' \in Nat /\ errors' \in BOOLEAN
    BY <1>1 DEF IInv, TypeOK
  <2>3. QED
    BY <1>1, <2>1, <2>2 DEF IInv, TypeOK, IsLibrary
<1>5. NamesAreUnique' /\ IndexFits'
  <2>1. NamesAreUnique'
    BY <1>1, <1>2 DEF NamesAreUnique, Unique
  <2>2. IndexFits'
    BY <1>1 DEF IInv, IndexFits
  <2>3. QED
    BY <2>1, <2>2
<1>6. AtRest' /\ Unchanged'
  BY <1>1 DEF IInv, AtRest, Unchanged, Updates
<1>7. DefinitionsRight'
  <2>1. definitions' = NoSymbols
    BY <1>1 DEF IInv, DefinitionsRight
  <2>2. Entered' = {}
    <3>1. ASSUME NEW j \in Members(archive') PROVE ~(j < at')
      <4>1. CASE HaveIndex(archive')
        BY <1>1, <1>3, <4>1
      <4>2. CASE ~HaveIndex(archive')
        BY <1>1, <1>3, <4>2
      <4>3. QED
        BY <4>1, <4>2
    <3>2. QED
      BY <3>1 DEF Entered
  <2>3. at' \in 1 .. (Len(archive') + 1)
    BY <1>1, <1>3
  <2>4. HaveIndex(archive') => at' # 1 /\ ~Updates'
    BY <1>1, <1>2 DEF Updates
  <2>5. DOMAIN definitions' = {} /\ UNION {m.object : m \in Entered'} = {}
    BY <2>1, <2>2, NoDefinitions
  <2>6. Disjoint(Entered)'
    BY <2>2 DEF Disjoint
  <2>7. QED
    BY <1>1, <2>3, <2>4, <2>5, <2>6 DEF DefinitionsRight
<1>8. HalfDone'
  <2> SUFFICES ASSUME Updates, ~errors
               PROVE  \E as \in Arguments : Done(as, Len(as))'
    BY <1>1 DEF HalfDone, Updates
  <2>1. PICK as \in Arguments : \E k \in 0 .. Len(as) : Len(args) = Len(as) - k /\ Done(as, k)
    BY <1>1 DEF IInv, HalfDone
  <2>2. PICK k \in 0 .. Len(as) : Len(args) = Len(as) - k /\ Done(as, k)
    BY <2>1
  <2>3. Len(as) \in Nat /\ Len(args) = 0
    BY <1>1, FilesAssumption, LenProperties, EmptySeq
  <2>4. k = Len(as)
    BY <2>2, <2>3
  <2>5. Done(as, Len(as))'
    BY <1>1, <1>2, <2>2, <2>4, DoneFrame
  <2>6. QED
    BY <2>5
<1>9. QED
  BY <1>4, <1>5, <1>6, <1>7, <1>8 DEF IInv

LEMMA EnterSymbolsKeeps ==
    ASSUME IInv, EnterSymbols
    PROVE  IInv'
<1> DEFINE m == archive[at]
<1>1. /\ pc = "symbols" /\ at <= Len(archive)
      /\ definitions' = [s \in DOMAIN definitions \cup m.object |->
             IF s \in DOMAIN definitions THEN definitions[s] ELSE m.name]
      /\ errors' = (errors \/ DOMAIN definitions \cap m.object # {})
      /\ at' = at + 1
      /\ UNCHANGED <<files, disk, pc, mode, noIndex, args, archive>>
  BY DEF EnterSymbols, command
<1>2. /\ at \in 1 .. (Len(archive) + 1)
      /\ HaveIndex(archive) => at # 1 /\ ~Updates
      /\ DOMAIN definitions = UNION {x.object : x \in Entered}
      /\ \A s \in DOMAIN definitions :
            \E x \in Entered : x.name = definitions[s] /\ s \in x.object
      /\ errors \/ Disjoint(Entered)
  BY <1>1 DEF IInv, DefinitionsRight
<1>3. /\ Len(archive) \in Nat /\ DOMAIN archive = 1 .. Len(archive)
      /\ \A i \in DOMAIN archive : i # 1 => i \in Members(archive)
      /\ \A i \in Members(archive) :
            /\ i \in DOMAIN archive /\ i \in Nat \ {0}
            /\ archive[i] \in Member /\ archive[i].name \in Names /\ archive[i].object \in Objects
      /\ ~HaveIndex(archive) => Members(archive) = DOMAIN archive
  BY Lists, LibraryFacts
<1>4. at \in Members(archive)
  <2>1. at \in DOMAIN archive
    BY <1>1, <1>2, <1>3
  <2>2. QED
    BY <1>2, <1>3, <2>1
<1>5. m.name \in Names /\ m.object \subseteq Symbols
  BY <1>3, <1>4 DEF Symbols
<1>6. Entered' = Entered \cup {m}
  <2>1. \A j \in Members(archive) : j < at + 1 <=> (j < at \/ j = at)
    BY <1>2, <1>3
  <2>2. QED
    BY <1>1, <1>4, <2>1 DEF Entered
<1> HIDE DEF m
<1>7. DOMAIN definitions' = DOMAIN definitions \cup m.object
  BY <1>1
<1>8. \A s \in DOMAIN definitions' :
         definitions'[s] = IF s \in DOMAIN definitions THEN definitions[s] ELSE m.name
  BY <1>1
<1>9. TypeOK'
  <2>1. PICK D \in SUBSET Symbols : definitions \in [D -> Names]
    BY DEF IInv, TypeOK, Partial
  <2>2. definitions' \in [D \cup m.object -> Names] /\ D \cup m.object \in SUBSET Symbols
    BY <1>1, <1>5, <2>1
  <2>3. definitions' \in Partial(Symbols, Names)
    BY <2>2 DEF Partial
  <2>4. at' \in Nat /\ errors' \in BOOLEAN
    BY <1>1 DEF IInv, TypeOK
  <2>5. QED
    BY <1>1, <2>3, <2>4 DEF IInv, TypeOK
<1>10. NamesAreUnique' /\ IndexFits'
  BY <1>1 DEF IInv, NamesAreUnique, IndexFits
<1>11. AtRest' /\ Unchanged'
  BY <1>1 DEF IInv, AtRest, Unchanged, Updates
<1>12. DefinitionsRight'
  <2>1. at' \in 1 .. (Len(archive) + 1)
    BY <1>1, <1>2, <1>3
  <2>2. HaveIndex(archive) => at' # 1 /\ ~Updates'
    BY <1>1, <1>2 DEF Updates
  <2>3. DOMAIN definitions' = UNION {x.object : x \in Entered'}
    BY <1>2, <1>6, <1>7
  <2>4. ASSUME NEW s \in DOMAIN definitions'
        PROVE  \E x \in Entered' : x.name = definitions'[s] /\ s \in x.object
    <3>1. CASE s \in DOMAIN definitions
      BY <1>2, <1>6, <1>8, <3>1
    <3>2. CASE s \notin DOMAIN definitions
      BY <1>6, <1>7, <1>8, <3>2
    <3>3. QED
      BY <3>1, <3>2
  <2>5. errors' \/ Disjoint(Entered')
    <3> SUFFICES ASSUME ~errors' PROVE Disjoint(Entered')
      OBVIOUS
    <3>1. Disjoint(Entered) /\ DOMAIN definitions \cap m.object = {}
      BY <1>1, <1>2
    <3>2. \A x \in Entered : x.object \cap m.object = {}
      BY <1>2, <3>1
    <3>3. QED
      BY <1>6, <3>1, <3>2 DEF Disjoint
  <2>6. QED
    BY <1>1, <2>1, <2>2, <2>3, <2>4, <2>5 DEF DefinitionsRight
<1>13. HalfDone'
  <2> SUFFICES ASSUME Updates, ~errors
               PROVE  \E as \in Arguments : Done(as, Len(as))'
    BY <1>1 DEF HalfDone, Updates
  <2>1. PICK as \in Arguments : Done(as, Len(as))
    BY <1>1 DEF IInv, HalfDone
  <2>2. QED
    BY <1>1, <2>1, DoneFrame
<1>14. QED
  BY <1>9, <1>10, <1>11, <1>12, <1>13 DEF IInv

LEMMA AddIndexKeeps ==
    ASSUME IInv, AddIndex
    PROVE  IInv'
<1>1. /\ pc = "symbols" /\ pc' = "write" /\ at > Len(archive)
      /\ archive' = (IF Updates /\ ~noIndex THEN WithIndex(archive, definitions) ELSE archive)
      /\ UNCHANGED <<files, disk, mode, noIndex, args, definitions, at, errors>>
  BY DEF AddIndex, command
<1>2. /\ HaveIndex(archive) => ~Updates
      /\ DOMAIN definitions = UNION {x.object : x \in Entered}
      /\ \A s \in DOMAIN definitions :
            \E x \in Entered : x.name = definitions[s] /\ s \in x.object
      /\ errors \/ Disjoint(Entered)
  BY <1>1 DEF IInv, DefinitionsRight
<1>3. Entered = Contents(archive)
  <2>1. at \in Nat /\ Len(archive) \in Nat /\ \A j \in Members(archive) : j \in 1 .. Len(archive)
    BY Lists, LibraryFacts DEF IInv, TypeOK
  <2>2. \A j \in Members(archive) : j < at
    BY <1>1, <2>1
  <2>3. QED
    BY <2>2 DEF Entered, Contents
<1>4. DOMAIN definitions \subseteq Symbols
  BY DEF IInv, TypeOK, Partial
<1>5. /\ IsLibrary(archive') /\ Unique(archive')
      /\ Contents(archive') = Contents(archive)
      /\ Updates => Fits(archive')
  <2>1. CASE Updates /\ archive' = archive
    BY <1>2, <2>1, Lists DEF Fits
  <2>2. CASE Updates /\ archive' # archive
    <3>1. archive' = WithIndex(archive, definitions)
      BY <1>1, <2>2
    <3>2. archive # << >> /\ DOMAIN definitions # {}
      BY <2>2, <3>1 DEF WithIndex
    <3>3. QED
      BY <1>2, <1>3, <1>4, <2>2, <3>1, <3>2, Lists, IndexedFacts
  <2>3. CASE ~Updates
    BY <1>1, <2>3, Lists
  <2>4. QED
    BY <2>1, <2>2, <2>3
<1>6. TypeOK'
  <2>1. \A list \in {disk', archive'} : IsLibrary(list)
    BY <1>1, <1>5, Lists
  <2>2. QED
    BY <1>1, <2>1 DEF IInv, TypeOK, IsLibrary
<1>7. NamesAreUnique' /\ IndexFits'
  <2>1. NamesAreUnique'
    BY <1>1, <1>5, Lists DEF NamesAreUnique, Unique
  <2>2. IndexFits'
    BY <1>1 DEF IInv, IndexFits
  <2>3. QED
    BY <2>1, <2>2
<1>8. AtRest' /\ Unchanged'
  BY <1>1 DEF IInv, AtRest, Unchanged, Updates
<1>9. DefinitionsRight'
  <2> SUFFICES ASSUME Updates
               PROVE  /\ Fits(archive')
                      /\ errors \/ Disjoint(Contents(archive'))
                      /\ archive' # << >> => Contents(archive') # {}
    BY <1>1 DEF DefinitionsRight, Updates
  <2>1. errors \/ Disjoint(Contents(archive'))
    BY <1>2, <1>3, <1>5
  <2>2. archive # << >> => 1 \in Members(archive)
    BY <1>2, Lists, LibraryFacts
  <2>3. archive # << >> => Contents(archive) # {}
    BY <2>2 DEF Contents
  <2>4. archive = << >> => archive' = << >>
    BY <1>1 DEF WithIndex
  <2>5. QED
    BY <1>5, <2>1, <2>3, <2>4
<1>10. HalfDone'
  <2> SUFFICES ASSUME Updates, ~errors
               PROVE  \E as \in Arguments : Done(as, Len(as))'
    BY <1>1 DEF HalfDone, Updates
  <2>1. PICK as \in Arguments : Done(as, Len(as))
    BY <1>1 DEF IInv, HalfDone
  <2>2. QED
    BY <1>1, <1>5, <2>1, DoneFrame
<1>11. QED
  BY <1>6, <1>7, <1>8, <1>9, <1>10 DEF IInv

\* The end of a command, with the library as it was or as it is to be.
LEMMA LeaveKeeps ==
    ASSUME IInv, Leave, files' = files, IsLibrary(disk'), Unique(disk'), Fits(disk')
    PROVE  IInv'
<1>1. /\ pc' = "idle" /\ mode' = "list" /\ noIndex' = FALSE /\ args' = << >>
      /\ archive' = << >> /\ definitions' = NoSymbols /\ at' = 0 /\ errors' = FALSE
  BY DEF Leave
<1>2. TypeOK'
  <2>1. \A list \in {disk', archive'} : IsLibrary(list)
    BY <1>1, NoMembers
  <2>2. << >> \in Seq(Files) /\ "list" \in Modes
    BY EmptySeq DEF Modes
  <2>3. QED
    BY <1>1, <2>1, <2>2, NoDefinitions DEF IInv, TypeOK, IsLibrary
<1>3. NamesAreUnique' /\ IndexFits'
  <2>1. Unique(archive')
    BY <1>1, NoMembers
  <2>2. NamesAreUnique'
    BY <2>1 DEF NamesAreUnique, Unique
  <2>3. IndexFits'
    BY DEF IndexFits, Fits
  <2>4. QED
    BY <2>2, <2>3
<1>4. AtRest' /\ Unchanged' /\ DefinitionsRight' /\ HalfDone'
  BY <1>1 DEF AtRest, Unchanged, DefinitionsRight, HalfDone, Updates
<1>5. QED
  BY <1>2, <1>3, <1>4 DEF IInv

LEMMA EndKeeps ==
    ASSUME IInv, Write \/ Exit \/ CannotExtract
    PROVE  IInv'
<1>1. CASE Write
  <2>1. pc = "write" /\ Updates /\ disk' = archive
    BY <1>1 DEF Write, Writes
  <2>2. Fits(archive)
    BY <2>1 DEF IInv, DefinitionsRight
  <2>3. QED
    BY <1>1, <2>1, <2>2, Lists, LeaveKeeps DEF Write
<1>2. CASE Exit
  BY <1>2, Lists, LeaveKeeps DEF Exit
<1>3. CASE CannotExtract
  BY <1>3, Lists, LeaveKeeps DEF CannotExtract
<1>4. QED
  BY <1>1, <1>2, <1>3

LEMMA StepKeeps == IInv /\ [Next]_vars => IInv'
<1> SUFFICES ASSUME IInv, [Next]_vars PROVE IInv'
  OBVIOUS
<1>1. ASSUME NEW v \in Versions, Compile(v[1], v[2]) PROVE IInv'
  BY <1>1, CompileKeeps
<1>2. ASSUME NEW m \in Modes, NEW n \in BOOLEAN, NEW as \in Arguments, Begin(m, n, as)
      PROVE  IInv'
  BY <1>2, BeginKeeps
<1>3. CASE AddMember
  BY <1>3, AddMemberKeeps
<1>4. CASE DeleteMember
  BY <1>4, DeleteMemberKeeps
<1>5. CASE ExtractMember
  BY <1>5, ExtractMemberKeeps
<1>6. CASE BadArgument
  BY <1>6, BadArgumentKeeps
<1>7. CASE EndArguments
  BY <1>7, EndArgumentsKeeps
<1>8. CASE EnterSymbols
  BY <1>8, EnterSymbolsKeeps
<1>9. CASE AddIndex
  BY <1>9, AddIndexKeeps
<1>10. CASE Write \/ Exit \/ CannotExtract
  BY <1>10, EndKeeps
<1>11. CASE UNCHANGED vars
  <2>1. UNCHANGED <<files, disk, pc, mode, noIndex, args, archive, definitions, at, errors>>
    BY <1>11 DEF vars, command
  <2>2. TypeOK' /\ NamesAreUnique' /\ IndexFits'
    BY <2>1 DEF IInv, TypeOK, NamesAreUnique, IndexFits
  <2>3. AtRest' /\ Unchanged'
    BY <2>1 DEF IInv, AtRest, Unchanged, Updates
  <2>4. DefinitionsRight'
    BY <2>1 DEF IInv, DefinitionsRight, Entered, Updates
  <2>5. HalfDone'
    <3>1. ASSUME NEW as \in Arguments, NEW k, Done(as, k)
          PROVE  Done(as, k)'
      BY <2>1, <3>1, DoneFrame
    <3>2. ASSUME Updates, ~errors, pc = "arguments"
          PROVE  \E as \in Arguments : \E k \in 0 .. Len(as) :
                    /\ Len(args) = Len(as) - k
                    /\ \A i \in 1 .. Len(args) : args[i] = as[k + i]
                    /\ Done(as, k)'
      <4>1. PICK as \in Arguments : \E k \in 0 .. Len(as) :
                    /\ Len(args) = Len(as) - k
                    /\ \A i \in 1 .. Len(args) : args[i] = as[k + i]
                    /\ Done(as, k)
        BY <3>2 DEF IInv, HalfDone
      <4>2. PICK k \in 0 .. Len(as) :
                    /\ Len(args) = Len(as) - k
                    /\ \A i \in 1 .. Len(args) : args[i] = as[k + i]
                    /\ Done(as, k)
        BY <4>1
      <4>3. Done(as, k)'
        BY <3>1, <4>2
      <4>4. QED
        BY <4>2, <4>3
    <3>3. ASSUME Updates, ~errors, pc \in {"symbols", "write"}
          PROVE  \E as \in Arguments : Done(as, Len(as))'
      <4>1. PICK as \in Arguments : Done(as, Len(as))
        BY <3>3 DEF IInv, HalfDone
      <4>2. QED
        BY <3>1, <4>1
    <3>4. (Updates' <=> Updates) /\ errors' = errors /\ pc' = pc /\ args' = args
      BY <2>1 DEF Updates
    <3>5. QED
      BY <3>2, <3>3, <3>4 DEF HalfDone
  <2>6. QED
    BY <2>2, <2>3, <2>4, <2>5 DEF IInv
<1>12. QED
  BY <1>1, <1>2, <1>3, <1>4, <1>5, <1>6, <1>7, <1>8, <1>9, <1>10, <1>11 DEF Next

\* The invariant holds in every state of every library and every command.
THEOREM Invariance == Spec => []IInv
<1>1. Init => IInv
  BY InitHolds
<1>2. IInv /\ [Next]_vars => IInv'
  BY StepKeeps
<1>3. QED
  BY <1>1, <1>2, PTL DEF Spec

\* By name and by symbol the member is found that is meant, in memory and on disk
\* (gp_archive_find_member, gp_archive_read_index), whatever commands came before.
THEOREM MembersFound == Spec => []MembersAreFound
<1>1. IInv => MembersAreFound
  BY DEF IInv, MembersAreFound
<1>2. QED
  BY <1>1, Invariance, PTL

-----------------------------------------------------------------------------
(***************************************************************************)
(* The refinement: writing the library is the step of LibraryFile, and all *)
(* that a command does before it is none.                                  *)
(***************************************************************************)
LEMMA WithFilesFacts ==
    ASSUME IInv, NEW as \in Arguments, FilesPut(Contents(archive), as, Len(as))
    PROVE  /\ \A i \in DOMAIN as : files[as[i]] # NoObject
           /\ AsFunction(archive) = Promised!WithFiles(Base, as)
<1> DEFINE given(n) == {i \in DOMAIN as : MemberName[as[i]] = n}
           last(n)  == CHOOSE i \in given(n) : \A j \in given(n) : j <= i
           D        == DOMAIN Base \cup {MemberName[as[i]] : i \in DOMAIN as}
           W        == Promised!WithFiles(Base, as)
<1>1. as \in Seq(Files) /\ Len(as) \in Nat /\ DOMAIN as = 1 .. Len(as)
  BY FilesAssumption, LenProperties
<1>2. \A n : given(n) = Given(as, Len(as), n)
  BY <1>1 DEF Given
<1>3. W = [n \in D |-> IF given(n) = {} THEN Base[n] ELSE files[as[last(n)]]]
  BY DEF Promised!WithFiles
<1> HIDE DEF W
<1>4. D = Named(Contents(archive))
  BY <1>1 DEF FilesPut
<1>5. ASSUME NEW n PROVE given(n) \subseteq Nat
  <2>1. given(n) \subseteq DOMAIN as
    OBVIOUS
  <2>2. \A i \in 1 .. Len(as) : i \in Nat
    <3> DEFINE l == Len(as)
    <3>1. l \in Nat
      BY <1>1
    <3> HIDE DEF l
    <3>2. \A i \in 1 .. l : i \in Nat
      BY <3>1
    <3>3. QED
      BY <3>2 DEF l
  <2>3. QED
    BY <1>1, <2>1, <2>2, Zenon
<1> HIDE DEF given, D
<1>6. ASSUME NEW m \in Contents(archive)
      PROVE  m.name \in D /\ W[m.name] = m.object
  <2>1. m.name \in D
    BY <1>4 DEF Named
  <2>2. CASE given(m.name) = {}
    BY <1>2, <1>3, <2>1, <2>2 DEF FilesPut
  <2>3. CASE given(m.name) # {}
    <3>1. PICK i \in given(m.name) :
             (\A j \in given(m.name) : j <= i) /\ m.object = files[as[i]]
      BY <1>2, <2>3 DEF FilesPut
    <3>2. last(m.name) \in given(m.name) /\ \A j \in given(m.name) : j <= last(m.name)
      BY <3>1
    <3>3. last(m.name) = i
      BY <1>5, <3>1, <3>2
    <3>4. QED
      BY <1>3, <2>1, <2>3, <3>1, <3>3
  <2>4. QED
    BY <2>2, <2>3, <2>1
<1>7. \A m \in Contents(archive) : m.object \in Objects
  BY Lists, LibraryFacts DEF Contents
<1>8. W \in [D -> Objects]
  <2>1. ASSUME NEW n \in D PROVE W[n] \in Objects
    BY <1>4, <1>6, <1>7 DEF Named
  <2>2. DOMAIN W = D /\ W = [n \in D |-> W[n]]
    BY <1>3
  <2>3. QED
    BY <2>1, <2>2
<1>9. AsFunction(archive) = W
  BY <1>4, <1>6, <1>8, Lists, SameFunction
<1>10. \A i \in DOMAIN as : files[as[i]] # NoObject
  BY <1>1 DEF FilesPut
<1>11. QED
  BY <1>9, <1>10 DEF W

LEMMA WithoutFacts ==
    ASSUME IInv, NEW as \in Arguments, NamesTaken(Contents(archive), as, Len(as))
    PROVE  /\ {as[i] : i \in DOMAIN as} \subseteq DOMAIN AsFunction(disk)
           /\ Named(Contents(archive)) = DOMAIN AsFunction(disk) \ {as[i] : i \in DOMAIN as}
           /\ AsFunction(archive) = Promised!Without(AsFunction(disk), {as[i] : i \in DOMAIN as})
<1> DEFINE taken == {as[i] : i \in DOMAIN as}
           D     == DOMAIN AsFunction(disk) \ taken
           W     == Promised!Without(AsFunction(disk), taken)
<1>1. DOMAIN as = 1 .. Len(as)
  BY FilesAssumption, LenProperties
<1>2. /\ taken \subseteq DOMAIN AsFunction(disk)
      /\ Named(Contents(archive)) = D
      /\ \A m \in Contents(archive) : m.object = AsFunction(disk)[m.name]
  BY <1>1 DEF NamesTaken
<1> HIDE DEF taken
<1>3. W = [n \in D |-> AsFunction(disk)[n]]
  BY DEF Promised!Without
<1>4. \A m \in Contents(archive) : m.object \in Objects
  BY Lists, LibraryFacts DEF Contents
<1> HIDE DEF D, W
<1>5. \A m \in Contents(archive) : m.name \in D /\ W[m.name] = m.object
  BY <1>2, <1>3 DEF Named
<1>6. W \in [D -> Objects]
  <2>1. ASSUME NEW n \in D PROVE W[n] \in Objects
    BY <1>2, <1>4, <1>5 DEF Named
  <2>2. QED
    BY <1>3, <2>1
<1>7. AsFunction(archive) = W
  BY <1>2, <1>5, <1>6, Lists, SameFunction
<1>8. QED
  BY <1>2, <1>7 DEF W, D, taken

LEMMA WriteImplements ==
    ASSUME IInv, Write
    PROVE  Promised!Next
<1>1. /\ pc = "write" /\ Updates /\ ~errors /\ archive # << >>
      /\ disk' = archive /\ files' = files
  BY DEF Write, Writes
<1>2. PICK as \in Arguments : Done(as, Len(as))
  BY <1>1 DEF IInv, HalfDone
<1>3. /\ Disjoint(Contents(archive)) /\ Contents(archive) # {}
  BY <1>1 DEF IInv, DefinitionsRight
<1>4. /\ DOMAIN AsFunction(archive) = Named(Contents(archive))
      /\ \A m \in Contents(archive) : AsFunction(archive)[m.name] = m.object
  BY Lists, AsFunctionFacts
<1>5. CASE mode = "delete"
  <2> DEFINE taken == {as[i] : i \in DOMAIN as}
  <2>1. NamesTaken(Contents(archive), as, Len(as))
    BY <1>2, <1>5 DEF Done
  <2>2. /\ taken \subseteq DOMAIN AsFunction(disk)
        /\ Named(Contents(archive)) = DOMAIN AsFunction(disk) \ taken
        /\ AsFunction(archive) = Promised!Without(AsFunction(disk), taken)
    BY <2>1, WithoutFacts
  <2>3. Named(Contents(archive)) # {}
    BY <1>3 DEF Named
  <2>4. taken # DOMAIN AsFunction(disk)
    BY <2>2, <2>3
  <2>5. Promised!Delete(as)
    BY <1>1, <2>2, <2>4 DEF Promised!Delete
  <2>6. QED
    BY <2>5 DEF Promised!Next
<1>6. CASE mode # "delete"
  <2>1. FilesPut(Contents(archive), as, Len(as))
    BY <1>2, <1>6 DEF Done
  <2>2. /\ \A i \in DOMAIN as : files[as[i]] # NoObject
        /\ AsFunction(archive) = Promised!WithFiles(Base, as)
    BY <2>1, WithFilesFacts
  <2>3. Promised!Consistent(AsFunction(archive))
    <3>1. ASSUME NEW m \in Contents(archive), NEW n \in Contents(archive), m.name # n.name
          PROVE  AsFunction(archive)[m.name] \cap AsFunction(archive)[n.name] = {}
      BY <1>3, <1>4, <3>1 DEF Disjoint
    <3>2. QED
      BY <1>4, <3>1 DEF Promised!Consistent, Named
  <2>4. Promised!Put(Base, as)
    BY <1>1, <2>2, <2>3 DEF Promised!Put
  <2>5. Base = Promised!Empty \/ Base = AsFunction(disk)
    BY DEF Base
  <2>6. QED
    BY <2>4, <2>5 DEF Promised!Next
<1>7. QED
  BY <1>5, <1>6

LEMMA StepImplements ==
    ASSUME IInv, [Next]_vars
    PROVE  [Promised!Next]_(Promised!vars)
<1>1. ASSUME UNCHANGED <<files, disk>> PROVE UNCHANGED Promised!vars
  BY <1>1 DEF Promised!vars
<1>2. ASSUME NEW v \in Versions, Compile(v[1], v[2]) PROVE Promised!Next
  <2>1. Promised!Compile(v[1], v[2])
    BY <1>2 DEF Compile, Promised!Compile
  <2>2. QED
    BY <2>1 DEF Promised!Next
<1>3. CASE ExtractMember
  <2> DEFINE n == Head(args)
  <2>1. /\ mode = "extract" /\ pc = "arguments" /\ args # << >>
        /\ MemberName[n] = n /\ FindMember(archive, n) # 0
        /\ \/ files' = [files EXCEPT ![n] = archive[FindMember(archive, n)].object]
           \/ files' = files
        /\ disk' = disk
    BY <1>3 DEF ExtractMember, IsMember, HasPath, NextArgument
  <2>2. n \in Names /\ archive = disk
    <3>1. args \in Seq(Files)
      BY DEF IInv, TypeOK
    <3>2. n \in Files
      BY <2>1, <3>1, HeadTailProperties
    <3>3. QED
      BY <2>1, <3>2 DEF IInv, Unchanged, Updates, Names
  <2> HIDE DEF n
  <2>3. /\ FindMember(disk, n) \in Members(disk)
        /\ disk[FindMember(disk, n)].name = n
    BY <2>1, <2>2, Lists, FindFacts
  <2>4. /\ n \in DOMAIN AsFunction(disk)
        /\ AsFunction(disk)[n] = disk[FindMember(disk, n)].object
    BY <2>3 DEF AsFunction
  <2>5. CASE files' = files
    BY <1>1, <2>1, <2>5
  <2>6. CASE files' = [files EXCEPT ![n] = archive[FindMember(archive, n)].object]
    <3>1. Promised!Extract(n)
      BY <2>1, <2>2, <2>4, <2>6 DEF Promised!Extract
    <3>2. n \in Promised!Names
      BY <2>2 DEF Names, Promised!Names
    <3>3. QED
      BY <3>1, <3>2 DEF Promised!Next
  <2>7. QED
    BY <2>1, <2>5, <2>6
<1>4. CASE Write
  BY <1>4, WriteImplements
<1>5. ASSUME NEW m \in Modes, NEW n \in BOOLEAN, NEW as \in Arguments, Begin(m, n, as)
      PROVE  UNCHANGED <<files, disk>>
  BY <1>5 DEF Begin
<1>6. CASE AddMember \/ DeleteMember \/ BadArgument
  <2>1. UNCHANGED <<files, disk>>
    BY <1>6 DEF AddMember, DeleteMember, BadArgument, NextArgument
  <2>2. QED
    BY <1>1, <2>1
<1>7. CASE EndArguments \/ EnterSymbols \/ AddIndex \/ Exit \/ CannotExtract \/ UNCHANGED vars
  <2>1. UNCHANGED <<files, disk>>
    BY <1>7 DEF EndArguments, EnterSymbols, AddIndex, Exit, CannotExtract, vars
  <2>2. QED
    BY <1>1, <2>1
<1>8. QED
  BY <1>1, <1>2, <1>3, <1>4, <1>5, <1>6, <1>7 DEF Next

LEMMA InitImplements == Init => Promised!Init
<1> SUFFICES ASSUME Init PROVE Promised!Init
  OBVIOUS
<1>1. DOMAIN AsFunction(<< >>) = {}
  BY NoMembers, AsFunctionFacts DEF Named
<1>2. AsFunction(<< >>) = Promised!Empty
  BY <1>1 DEF AsFunction, Promised!Empty
<1>3. QED
  BY <1>2 DEF Init, Promised!Init

\* Whatever a command does member by member, and wherever an error ends it, the
\* library changes as LibraryFile says or not at all.
THEOREM LibraryRefines == Spec => ImplementsLibraryFile
<1>1. Init => Promised!Init
  BY InitImplements
<1>2. IInv /\ [Next]_vars => [Promised!Next]_(Promised!vars)
  BY StepImplements
<1>3. QED
  BY <1>1, <1>2, Invariance, PTL DEF Spec, ImplementsLibraryFile, Promised!Spec
=============================================================================
