------------------------- MODULE SymbolResolutionProofs -------------------------
(***************************************************************************)
(* What the choice of modules promises, for every command line: the two    *)
(* tables divide the references between them, nothing is loaded twice, the *)
(* search leaves nothing out, links without errors are unique, and all of  *)
(* it is a behaviour of LibrarySearch.                                     *)
(***************************************************************************)
EXTENDS SymbolResolution, SequenceTheorems, FiniteSetTheorems, WellFoundedInduction, TLAPS

(***************************************************************************)
(* The invariant.                                                          *)
(***************************************************************************)
\* How far gp_cofflink_add_symbols has come: everything is entered when the
\* search looks at the missing symbols.
CursorInPlace ==
    /\ pc = "open" => cursor = [obj |-> 1, sym |-> 1] /\ missing = {}
    /\ pc \in {"objects", "member"} => cursor.obj <= Len(objects)
    /\ pc \notin {"open", "objects", "member", "rejected"} => cursor.obj = Len(objects) + 1 /\ cursor.sym = 1

SymbolsOfModules ==
    pc # "linked" => \A k \in DOMAIN objects : objects[k].syms = LoadedSymbols(objects[k].module)

\* No definition is lost either, and none is made up.
DefinitionsEntered ==
    \A k \in DOMAIN objects : \A i \in DOMAIN objects[k].syms :
        Scanned(k, i) /\ ~objects[k].syms[i].undef => definition[objects[k].syms[i].name] # NotDefined

DefinitionsMeant ==
    \A s \in Symbol :
        /\ definition[s] \in DOMAIN objects => s \in Defines(objects[definition[s]].module)
        /\ definition[s] = ByLinker => pc \in {"clean", "linked", "dangling"}

\* Of two definitions of a symbol the second has been reported.
ScannedIsUnique ==
    ~errors =>
        \A k, h \in DOMAIN objects : \A i \in DOMAIN objects[k].syms, j \in DOMAIN objects[h].syms :
            /\ Scanned(k, i) /\ Scanned(h, j)
            /\ ~objects[k].syms[i].undef /\ ~objects[h].syms[j].undef
            /\ objects[k].syms[i].name = objects[h].syms[j].name
            => k = h /\ i = j

\* Files are opened in their order; objects and archives are all there are.
Opened == Len(input.files) - Len(todo)

TodoIsRest ==
    /\ Len(todo) <= Len(input.files)
    /\ \A i \in 1 .. Len(todo) : todo[i] = input.files[Opened + i]

EachFileKept ==
    \A k \in 1 .. Opened :
        IF input.files[k].archive
        THEN \E a \in DOMAIN archives : archives[a] = input.files[k]
        ELSE \E j \in DOMAIN objects : objects[j].module = input.files[k].members[1]

ArchivesGiven ==
    \A a \in DOMAIN archives :
        \E k \in DOMAIN input.files : input.files[k].archive /\ archives[a] = input.files[k]

ObjectsGiven ==
    /\ \A j \in DOMAIN objects :
          \E k \in CommandObjects : objects[j].module = input.files[k].members[1]
    /\ Len(objects) = Cardinality({k \in CommandObjects : k <= Opened})

FilesOpened ==
    /\ TodoIsRest /\ EachFileKept /\ ArchivesGiven
    /\ pc = "open" => ObjectsGiven
    /\ pc # "open" => todo = << >>
    /\ pc \notin {"open", "rejected"} => objects # << >>

InLibrary(m) ==
    \E k \in DOMAIN input.files :
        input.files[k].archive /\ \E i \in DOMAIN input.files[k].members : input.files[k].members[i] = m

IndexIsRight ==
    /\ \A s \in Symbol : index[s] # NoModule => s \in Defines(index[s]) /\ InLibrary(index[s])
    /\ pc \in {"archive", "index", "member"} => arlist \in DOMAIN archives
    /\ pc \in {"index", "member"} =>
          \A s \in Symbol : index[s] = NoModule =>
              \A i \in DOMAIN archives[arlist].members : s \notin Defines(archives[arlist].members[i])

\* What a round without a new member has shown so far.
NoHelp(archive) ==
    \A i \in DOMAIN archive.members : Defines(archive.members[i]) \cap missing = {}

SearchedInVain ==
    /\ pc = "member" => modified
    /\ pc \in {"archive", "index"} /\ ~modified =>
          \A a \in 1 .. (arlist - 1) : NoHelp(archives[a])

NothingMissing == pc \in {"make", "clean", "linked", "dangling"} => missing = {}

\* What RemoveLinkerSymbols has decided, in the words of LibrarySearch.
SearchHasEnded ==
    pc \in {"make", "clean"} =>
        /\ \A m \in Module : ~Library!Helps(m)
        /\ Library!Unresolved \subseteq Library!Made

\* The definitions that the linker has put at the end of the symbol table.
DefinedByObject(s) == \E k \in DOMAIN objects : s \in Defines(objects[k].module)

OwnIsSound(s) ==
    IF DefinedByObject(s) THEN DefinedBehindReference(s) /\ definition[s] # ByLinker
    ELSE definition[s] = ByLinker

OwnSymbols ==
    /\ pc \notin {"clean", "linked", "dangling"} => own = {}
    /\ ~errors => \A s \in own : OwnIsSound(s)

IInv ==
    /\ TypeOK
    /\ input \in Input
    /\ CursorInPlace
    /\ SymbolsOfModules
    /\ ReferencesAccounted
    /\ MissingIsUndefined
    /\ DefinitionsEntered
    /\ DefinitionsMeant
    /\ ScannedIsUnique
    /\ FilesOpened
    /\ NoMemberLoadedTwice
    /\ IndexIsRight
    /\ SearchedInVain
    /\ SearchIsComplete
    /\ NothingMissing
    /\ NoDanglingReference
    /\ SearchHasEnded

-----------------------------------------------------------------------------
(***************************************************************************)
(* Lists and tables                                                        *)
(***************************************************************************)
LEMMA Smallest ==
    ASSUME NEW S \in SUBSET Nat, S # {}
    PROVE  \E x \in S : \A y \in S : x <= y
<1>1. \A x, y \in Nat : <<y, x>> \in OpToRel(<, Nat) <=> y < x
  BY DEF OpToRel
<1>2. PICK x \in S : \A y \in S : ~(<<y, x>> \in OpToRel(<, Nat))
  BY NatLessThanWellFounded, WFMin
<1>3. ASSUME NEW y \in S PROVE x <= y
  <2>1. x \in Nat /\ y \in Nat
    OBVIOUS
  <2>2. ~(y < x)
    BY <1>1, <1>2, <2>1
  <2>3. QED
    BY <2>1, <2>2
<1>4. QED
  BY <1>3

LEMMA InputFacts ==
    ASSUME input \in Input
    PROVE  /\ input \in InputType
           /\ input.files \in Seq(File)
           /\ \A k \in DOMAIN input.files :
                 /\ input.files[k] \in File
                 /\ input.files[k].members \in Seq(Module)
                 /\ input.files[k].members # << >>
                 /\ input.files[k].members[1] \in Module
           /\ \A m \in Module : input.symtab[m] \in Seq(Entry)
           /\ input.idata \subseteq Module
           /\ input.weak \in BOOLEAN /\ input.stack \in BOOLEAN
<1>1. input \in InputType
  BY InputAssumption
<1>2. /\ input.files \in Seq(File)
      /\ input.symtab \in [Module -> Seq(Entry)]
      /\ input.idata \subseteq Module
      /\ input.weak \in BOOLEAN /\ input.stack \in BOOLEAN
  BY <1>1 DEF InputType
<1>3. ASSUME NEW k \in DOMAIN input.files
      PROVE  /\ input.files[k] \in File
             /\ input.files[k].members \in Seq(Module)
             /\ input.files[k].members # << >>
             /\ input.files[k].members[1] \in Module
  <2>1. input.files[k] \in File
    BY <1>2
  <2>2. input.files[k].members \in Seq(Module)
    BY <2>1 DEF File
  <2>3. input.files[k].members # << >>
    BY InputAssumption
  <2>4. QED
    BY <2>1, <2>2, <2>3
<1>4. QED
  BY <1>1, <1>2, <1>3

(***************************************************************************)
(* Taking the element at one place out of a list.                          *)
(***************************************************************************)
LEMMA RemovalElements ==
    ASSUME NEW S, NEW list \in Seq(S), NEW k \in 1 .. Len(list)
    PROVE  LET rest == SubSeq(list, 1, k - 1) \o SubSeq(list, k + 1, Len(list))
           IN  /\ rest \in Seq(S)
               /\ Len(rest) = Len(list) - 1
               /\ \A i \in 1 .. (Len(list) - 1) :
                     rest[i] = IF i < k THEN list[i] ELSE list[i + 1]
<1> DEFINE head == SubSeq(list, 1, k - 1)
           tail == SubSeq(list, k + 1, Len(list))
<1>1. \A i \in 1 .. Len(list) : list[i] \in S
  BY ElementOfSeq
<1>2. Len(list) \in Nat
  BY LenProperties
<1>3. /\ head \in Seq(S) /\ Len(head) = k - 1
      /\ \A i \in 1 .. (k - 1) : head[i] = list[i]
  <2>1. \A i \in 1 .. (k - 1) : list[i] \in S
    BY <1>1, <1>2
  <2>2. /\ head \in Seq(S)
        /\ Len(head) = IF 1 <= k - 1 THEN (k - 1) - 1 + 1 ELSE 0
        /\ \A i \in 1 .. (k - 1) - 1 + 1 : head[i] = list[1 + i - 1]
    BY <1>2, <2>1, SubSeqProperties
  <2>3. QED
    BY <1>2, <2>2
<1>4. /\ tail \in Seq(S) /\ Len(tail) = Len(list) - k
      /\ \A i \in 1 .. (Len(list) - k) : tail[i] = list[k + i]
  <2>1. \A i \in (k + 1) .. Len(list) : list[i] \in S
    BY <1>1, <1>2
  <2>2. /\ tail \in Seq(S)
        /\ Len(tail) = IF k + 1 <= Len(list) THEN Len(list) - (k + 1) + 1 ELSE 0
        /\ \A i \in 1 .. Len(list) - (k + 1) + 1 : tail[i] = list[k + 1 + i - 1]
    BY <1>2, <2>1, SubSeqProperties
  <2>3. QED
    BY <1>2, <2>2
<1> HIDE DEF head, tail
<1>5. /\ head \o tail \in Seq(S)
      /\ Len(head \o tail) = Len(head) + Len(tail)
      /\ \A i \in 1 .. Len(head) + Len(tail) :
            (head \o tail)[i] = IF i <= Len(head) THEN head[i] ELSE tail[i - Len(head)]
  BY <1>3, <1>4, ConcatProperties
<1>6. ASSUME NEW i \in 1 .. (Len(list) - 1)
      PROVE  (head \o tail)[i] = IF i < k THEN list[i] ELSE list[i + 1]
  <2>1. CASE i < k
    BY <1>2, <1>3, <1>4, <1>5, <2>1
  <2>2. CASE ~(i < k)
    <3>1. (head \o tail)[i] = tail[i - (k - 1)]
      BY <1>2, <1>3, <1>4, <1>5, <2>2
    <3>2. i - (k - 1) \in 1 .. (Len(list) - k) /\ k + (i - (k - 1)) = i + 1
      BY <1>2, <2>2
    <3>3. QED
      BY <1>4, <2>2, <3>1, <3>2
  <2>3. QED
    BY <2>1, <2>2
<1>7. Len(head \o tail) = Len(list) - 1
  BY <1>2, <1>3, <1>4, <1>5
<1>8. QED
  BY <1>5, <1>6, <1>7 DEF head, tail

LEMMA Removal ==
    ASSUME NEW S, NEW list \in Seq(S), NEW k \in 1 .. Len(list)
    PROVE  LET rest == SubSeq(list, 1, k - 1) \o SubSeq(list, k + 1, Len(list))
           IN  /\ rest \in Seq(S)
               /\ \A i \in DOMAIN rest : \E j \in DOMAIN list : rest[i] = list[j]
               /\ \A j \in DOMAIN list : j # k => \E i \in DOMAIN rest : rest[i] = list[j]
<1> DEFINE rest == SubSeq(list, 1, k - 1) \o SubSeq(list, k + 1, Len(list))
<1>0. /\ rest \in Seq(S)
      /\ Len(rest) = Len(list) - 1
      /\ \A i \in 1 .. (Len(list) - 1) : rest[i] = IF i < k THEN list[i] ELSE list[i + 1]
  BY RemovalElements
<1> HIDE DEF rest
<1>1. /\ Len(list) \in Nat
      /\ DOMAIN list = 1 .. Len(list) /\ DOMAIN rest = 1 .. (Len(list) - 1)
  BY <1>0, LenProperties
<1>2. ASSUME NEW j \in 1 .. Len(list), j # k
      PROVE  \E i \in 1 .. (Len(list) - 1) : rest[i] = list[j]
  <2>1. CASE j < k
    BY <1>0, <1>1, <2>1
  <2>2. CASE j > k
    <3>1. j - 1 \in 1 .. (Len(list) - 1) /\ ~(j - 1 < k) /\ (j - 1) + 1 = j
      BY <1>1, <2>2
    <3>2. rest[j - 1] = list[j]
      BY <1>0, <3>1
    <3>3. QED
      BY <3>1, <3>2
  <2>3. QED
    BY <1>1, <1>2, <2>1, <2>2
<1>3. ASSUME NEW i \in 1 .. (Len(list) - 1)
      PROVE  \E j \in 1 .. Len(list) : rest[i] = list[j]
  <2>1. i \in 1 .. Len(list) /\ i + 1 \in 1 .. Len(list)
    BY <1>1
  <2>2. QED
    BY <1>0, <2>1
<1>4. QED
  BY <1>0, <1>1, <1>2, <1>3 DEF rest

(***************************************************************************)
(* Removing a weak symbol removes nothing else.                            *)
(***************************************************************************)
LEMMA RemoveWeakFacts ==
    ASSUME NEW syms \in Seq(Entry)
    PROVE  /\ RemoveWeak(syms) \in Seq(Entry)
           /\ \A i \in DOMAIN RemoveWeak(syms) : \E j \in DOMAIN syms : RemoveWeak(syms)[i] = syms[j]
           /\ \A j \in DOMAIN syms : ~IsWeak(syms[j]) =>
                 \E i \in DOMAIN RemoveWeak(syms) : RemoveWeak(syms)[i] = syms[j]
<1> DEFINE weak  == {i \in DOMAIN syms : IsWeak(syms[i])}
           first == CHOOSE i \in weak : \A j \in weak : i <= j
           rest  == SubSeq(syms, 1, first - 1) \o SubSeq(syms, first + 1, Len(syms))
<1>1. CASE weak = {}
  <2>1. RemoveWeak(syms) = syms
    BY <1>1 DEF RemoveWeak
  <2>2. QED
    BY <2>1
<1>2. CASE weak # {}
  <2>1. first \in weak
    <3>1. weak \in SUBSET Nat
      BY LenProperties
    <3>2. \E i \in weak : \A j \in weak : i <= j
      BY <1>2, <3>1, Smallest
    <3>3. QED
      BY <3>2
  <2>2. RemoveWeak(syms) = rest
    BY <1>2 DEF RemoveWeak
  <2> HIDE DEF first
  <2>3. first \in 1 .. Len(syms) /\ IsWeak(syms[first])
    BY <2>1, LenProperties
  <2>4. /\ rest \in Seq(Entry)
        /\ \A i \in DOMAIN rest : \E j \in DOMAIN syms : rest[i] = syms[j]
        /\ \A j \in DOMAIN syms : j # first => \E i \in DOMAIN rest : rest[i] = syms[j]
    BY <2>3, Removal
  <2> HIDE DEF rest
  <2>5. QED
    BY <2>2, <2>3, <2>4
<1>3. QED
  BY <1>1, <1>2

LEMMA LoadedFacts ==
    ASSUME input \in Input, NEW m \in Module
    PROVE  /\ LoadedSymbols(m) \in Seq(Entry)
           /\ Defines(m) \subseteq Symbol /\ References(m) \subseteq Symbol
           /\ \A s \in Defines(m) : \E i \in DOMAIN LoadedSymbols(m) :
                 ~LoadedSymbols(m)[i].undef /\ LoadedSymbols(m)[i].name = s
           /\ \A i \in DOMAIN LoadedSymbols(m) :
                 ~LoadedSymbols(m)[i].undef => LoadedSymbols(m)[i].name \in Defines(m)
<1>1. input.symtab[m] \in Seq(Entry)
  BY InputFacts
<1> DEFINE syms   == input.symtab[m]
           loaded == LoadedSymbols(m)
<1>2. \A i \in DOMAIN syms : syms[i] \in Entry
  BY <1>1
<1>3. /\ loaded \in Seq(Entry)
      /\ \A i \in DOMAIN loaded : \E j \in DOMAIN syms : loaded[i] = syms[j]
      /\ \A j \in DOMAIN syms : ~IsWeak(syms[j]) => \E i \in DOMAIN loaded : loaded[i] = syms[j]
  BY <1>1, RemoveWeakFacts DEF LoadedSymbols
<1>4. \A i \in DOMAIN loaded : loaded[i] \in Entry
  BY <1>3
<1> HIDE DEF loaded
<1>5. Defines(m) = {syms[i].name : i \in {j \in DOMAIN syms : syms[j].undef = FALSE}}
  BY DEF Defines, NamesOf
<1>6. References(m) = {loaded[i].name : i \in {j \in DOMAIN loaded : loaded[j].undef = TRUE}}
  BY DEF References, NamesOf, loaded
<1>7. \A e \in Entry : e.name \in Symbol /\ e.undef \in BOOLEAN
  BY DEF Entry
<1>8. Defines(m) \subseteq Symbol /\ References(m) \subseteq Symbol
  BY <1>2, <1>4, <1>5, <1>6, <1>7
<1>9. ASSUME NEW s \in Defines(m)
      PROVE  \E i \in DOMAIN loaded : ~loaded[i].undef /\ loaded[i].name = s
  <2>1. PICK j \in DOMAIN syms : ~syms[j].undef /\ syms[j].name = s
    BY <1>5
  <2>2. ~IsWeak(syms[j])
    BY <2>1 DEF IsWeak
  <2>3. QED
    BY <1>3, <2>1, <2>2
<1>10. ASSUME NEW i \in DOMAIN loaded, ~loaded[i].undef
       PROVE  loaded[i].name \in Defines(m)
  <2>1. PICK j \in DOMAIN syms : loaded[i] = syms[j]
    BY <1>3
  <2>2. syms[j].undef = FALSE
    BY <1>2, <1>7, <1>10, <2>1
  <2>3. QED
    BY <1>5, <2>1, <2>2
<1>11. QED
  BY <1>3, <1>8, <1>9, <1>10 DEF loaded

LEMMA ObjectFacts ==
    ASSUME TypeOK
    PROVE  /\ objects \in Seq(ObjectType) /\ Len(objects) \in Nat /\ DOMAIN objects = 1 .. Len(objects)
           /\ \A k \in DOMAIN objects :
                 /\ objects[k] \in ObjectType /\ objects[k].module \in Module
                 /\ objects[k].syms \in Seq(Entry) /\ Len(objects[k].syms) \in Nat
                 /\ DOMAIN objects[k].syms = 1 .. Len(objects[k].syms)
                 /\ \A i \in DOMAIN objects[k].syms :
                       /\ objects[k].syms[i].name \in Symbol
                       /\ objects[k].syms[i].undef \in BOOLEAN
<1>1. objects \in Seq(ObjectType) /\ Len(objects) \in Nat /\ DOMAIN objects = 1 .. Len(objects)
  BY LenProperties DEF TypeOK
<1>2. ASSUME NEW k \in DOMAIN objects
      PROVE  /\ objects[k] \in ObjectType /\ objects[k].module \in Module
             /\ objects[k].syms \in Seq(Entry) /\ Len(objects[k].syms) \in Nat
             /\ DOMAIN objects[k].syms = 1 .. Len(objects[k].syms)
             /\ \A i \in DOMAIN objects[k].syms :
                   /\ objects[k].syms[i].name \in Symbol
                   /\ objects[k].syms[i].undef \in BOOLEAN
  <2>1. objects[k] \in ObjectType
    BY <1>1, ElementOfSeq
  <2>2. objects[k].module \in Module /\ objects[k].syms \in Seq(Entry)
    BY <2>1 DEF ObjectType
  <2>3. Len(objects[k].syms) \in Nat /\ DOMAIN objects[k].syms = 1 .. Len(objects[k].syms)
    BY <2>2, LenProperties
  <2>4. \A i \in DOMAIN objects[k].syms : objects[k].syms[i] \in Entry
    BY <2>2, <2>3, ElementOfSeq
  <2>5. QED
    BY <2>1, <2>2, <2>3, <2>4 DEF Entry
<1>3. QED
  BY <1>1, <1>2

(***************************************************************************)
(* The index of an archive leads to a member that defines the symbol, and  *)
(* to one if there is one.                                                 *)
(***************************************************************************)
LEMMA IndexFacts ==
    ASSUME NEW members \in Seq(Module), NEW s \in Symbol
    PROVE  /\ ArchiveIndex(members)[s] = NoModule
                 => \A i \in DOMAIN members : s \notin Defines(members[i])
           /\ ArchiveIndex(members)[s] # NoModule
                 => \E i \in DOMAIN members : /\ ArchiveIndex(members)[s] = members[i]
                                              /\ s \in Defines(members[i])
<1> DEFINE definers == {i \in DOMAIN members : s \in Defines(members[i])}
           first    == CHOOSE i \in definers : \A j \in definers : i <= j
<1>1. ArchiveIndex(members)[s] = IF definers = {} THEN NoModule ELSE members[first]
  BY DEF ArchiveIndex
<1>2. ASSUME definers # {} PROVE first \in definers
  <2>1. definers \in SUBSET Nat
    OBVIOUS
  <2>2. \E i \in definers : \A j \in definers : i <= j
    BY <1>2, <2>1, Smallest
  <2>3. QED
    BY <2>2
<1>3. \A i \in definers : members[i] \in Module
  OBVIOUS
<1> HIDE DEF first
<1>4. QED
  BY <1>1, <1>2, <1>3, SymbolAssumption

LEMMA IndexType ==
    ASSUME NEW members \in Seq(Module)
    PROVE  ArchiveIndex(members) \in [Symbol -> Module \cup {NoModule}]
<1>1. ArchiveIndex(members) = [s \in Symbol |-> ArchiveIndex(members)[s]]
  BY DEF ArchiveIndex
<1>2. ASSUME NEW s \in Symbol
      PROVE  ArchiveIndex(members)[s] \in Module \cup {NoModule}
  <2>1. \A i \in DOMAIN members : members[i] \in Module
    OBVIOUS
  <2>2. QED
    BY <2>1, IndexFacts
<1>3. QED
  BY <1>1, <1>2

(***************************************************************************)
(* Deleting the references keeps the definitions, each at a place of its   *)
(* own.                                                                    *)
(***************************************************************************)
\* The element of S that has n elements of S up to it.
LEMMA PlaceExists ==
    ASSUME NEW len \in Nat, NEW S \in SUBSET (1 .. len),
           NEW n \in 1 .. Cardinality(S)
    PROVE  \E i \in S : Cardinality({j \in S : j <= i}) = n
<1> DEFINE upto(i)  == {j \in S : j <= i}
           count(i) == Cardinality(upto(i))
<1>1. IsFiniteSet(S)
  <2>1. IsFiniteSet(1 .. len)
    BY FS_Interval
  <2>2. QED
    BY <2>1, FS_Subset
<1>2. Cardinality(S) \in Nat
  BY <1>1, FS_CardinalityType
<1>3. ASSUME NEW i \in 0 .. len PROVE IsFiniteSet(upto(i)) /\ count(i) \in Nat
  <2>1. upto(i) \in SUBSET S
    OBVIOUS
  <2>2. IsFiniteSet(upto(i))
    BY <1>1, <2>1, FS_Subset
  <2>3. QED
    BY <2>2, FS_CardinalityType
<1>4. ASSUME NEW i \in 1 .. len
      PROVE  upto(i) = IF i \in S THEN upto(i - 1) \cup {i} ELSE upto(i - 1)
  <2>1. \A j \in S : j <= i <=> j <= i - 1 \/ j = i
    OBVIOUS
  <2>2. QED
    BY <2>1
<1>5. count(0) = 0
  <2>1. upto(0) = {}
    <3>1. \A j \in S : ~(j <= 0)
      OBVIOUS
    <3>2. QED
      BY <3>1
  <2>2. QED
    BY <2>1, FS_EmptySet
<1>6. count(len) = Cardinality(S)
  <2>1. upto(len) = S
    <3>1. \A j \in S : j <= len
      OBVIOUS
    <3>2. QED
      BY <3>1
  <2>2. QED
    BY <2>1
<1> HIDE DEF upto
<1>8. ASSUME NEW i \in 1 .. len
      PROVE  /\ count(i) <= count(i - 1) + 1
             /\ i \notin S => count(i) = count(i - 1)
  <2>1. IsFiniteSet(upto(i - 1)) /\ count(i - 1) \in Nat
    BY <1>3
  <2>2. Cardinality(upto(i - 1) \cup {i}) <= count(i - 1) + 1
    <3>1. PICK before : before = upto(i - 1)
      OBVIOUS
    <3>2. IsFiniteSet(before) /\ Cardinality(before) \in Nat /\ Cardinality(before) = count(i - 1)
      BY <2>1, <3>1
    <3>3. Cardinality(before \cup {i}) = IF i \in before THEN Cardinality(before) ELSE Cardinality(before) + 1
      BY <3>2, FS_AddElement
    <3>4. Cardinality(before \cup {i}) <= Cardinality(before) + 1
      BY <3>2, <3>3
    <3>5. QED
      BY <3>1, <3>2, <3>4
  <2>3. CASE i \in S
    BY <1>4, <2>2, <2>3
  <2>4. CASE i \notin S
    BY <1>4, <2>1, <2>4
  <2>5. QED
    BY <2>3, <2>4
<1> HIDE DEF count
<1> DEFINE enough == {i \in 0 .. len : count(i) >= n}
<1>9. len \in enough
  BY <1>2, <1>6
<1>10. PICK i \in enough : \A j \in enough : i <= j
  <2>1. enough \in SUBSET Nat /\ enough # {}
    BY <1>9
  <2> HIDE DEF enough
  <2>2. QED
    BY <2>1, Smallest
<1>11. i \in 1 .. len
  <2>1. i # 0
    BY <1>2, <1>5
  <2>2. QED
    BY <2>1
<1>12. i - 1 \notin enough
  BY <1>10, <1>11
<1>13. i - 1 \in 0 .. len /\ n \in Nat
  BY <1>2, <1>11
<1>14. count(i - 1) < n /\ count(i - 1) \in Nat /\ count(i) \in Nat /\ count(i) >= n
  BY <1>3, <1>12, <1>13
<1>15. count(i) = n /\ i \in S
  BY <1>8, <1>11, <1>13, <1>14
<1>16. QED
  BY <1>15 DEF count, upto

LEMMA WithoutReferencesFacts ==
    ASSUME NEW syms \in Seq(Entry)
    PROVE  /\ WithoutReferences(syms) \in Seq(Entry)
           /\ \E origin \in [DOMAIN WithoutReferences(syms) -> DOMAIN syms] :
                 /\ \A n \in DOMAIN WithoutReferences(syms) :
                       /\ WithoutReferences(syms)[n] = syms[origin[n]]
                       /\ ~syms[origin[n]].undef
                 /\ \A n, m \in DOMAIN WithoutReferences(syms) : origin[n] = origin[m] => n = m
<1> DEFINE left     == {i \in DOMAIN syms : ~syms[i].undef}
           place(i) == Cardinality({j \in left : j <= i})
           at(n)    == CHOOSE i \in left : place(i) = n
           origin   == [n \in 1 .. Cardinality(left) |-> at(n)]
           rest     == [n \in 1 .. Cardinality(left) |-> syms[at(n)]]
<1>1. WithoutReferences(syms) = rest
  BY DEF WithoutReferences
<1>2. DOMAIN syms = 1 .. Len(syms) /\ Len(syms) \in Nat /\ \A i \in DOMAIN syms : syms[i] \in Entry
  BY LenProperties, ElementOfSeq
<1>3. left \in SUBSET (1 .. Len(syms)) /\ Cardinality(left) \in Nat
  <2>1. left \in SUBSET (1 .. Len(syms)) /\ IsFiniteSet(1 .. Len(syms))
    BY <1>2, FS_Interval
  <2> HIDE DEF left
  <2>2. QED
    BY <2>1, FS_Subset, FS_CardinalityType
<1>4. ASSUME NEW n \in 1 .. Cardinality(left)
      PROVE  at(n) \in left /\ place(at(n)) = n
  <2>1. \E i \in left : place(i) = n
    BY <1>2, <1>3, PlaceExists
  <2>2. QED
    BY <2>1
<1> HIDE DEF at, place
<1>5. /\ \A n \in 1 .. Cardinality(left) : rest[n] = syms[at(n)] /\ origin[n] = at(n)
      /\ DOMAIN rest = 1 .. Cardinality(left) /\ DOMAIN origin = 1 .. Cardinality(left)
  OBVIOUS
<1>6. rest \in Seq(Entry)
  <2>1. \A n \in 1 .. Cardinality(left) : syms[at(n)] \in Entry
    BY <1>2, <1>4
  <2>2. QED
    BY <1>3, <2>1
<1>7. origin \in [1 .. Cardinality(left) -> DOMAIN syms]
  BY <1>4
<1>8. \A n, m \in 1 .. Cardinality(left) : origin[n] = origin[m] => n = m
  BY <1>4, <1>5
<1>9. \A n \in 1 .. Cardinality(left) : rest[n] = syms[origin[n]] /\ ~syms[origin[n]].undef
  BY <1>4, <1>5
<1> HIDE DEF rest, origin
<1>10. \E f \in [DOMAIN rest -> DOMAIN syms] :
         /\ \A n \in DOMAIN rest : rest[n] = syms[f[n]] /\ ~syms[f[n]].undef
         /\ \A n, m \in DOMAIN rest : f[n] = f[m] => n = m
  <2>1. origin \in [DOMAIN rest -> DOMAIN syms]
    BY <1>5, <1>7
  <2>2. /\ \A n \in DOMAIN rest : rest[n] = syms[origin[n]] /\ ~syms[origin[n]].undef
        /\ \A n, m \in DOMAIN rest : origin[n] = origin[m] => n = m
    BY <1>5, <1>8, <1>9
  <2>3. QED
    BY <2>1, <2>2
<1>11. QED
  BY <1>1, <1>6, <1>10

-----------------------------------------------------------------------------
(***************************************************************************)
(* Every action keeps the invariant.                                       *)
(***************************************************************************)
LEMMA InitHolds == Init => IInv
<1> SUFFICES ASSUME Init PROVE IInv
  OBVIOUS
<1> USE DEF Init
<1>1. input \in InputType /\ input.files \in Seq(File)
  BY InputFacts
<1>2. objects = << >> /\ objects \in Seq(ObjectType) /\ Len(objects) = 0 /\ DOMAIN objects = {}
  BY EmptySeq
<1>3. archives \in Seq(File) /\ Len(archives) = 0 /\ DOMAIN archives = {}
  BY EmptySeq
<1>4. TypeOK
  <2>1. input \in InputType /\ pc \in PC /\ todo \in Seq(File)
    BY <1>1 DEF PC
  <2>2. definition \in [Symbol -> {NotDefined, ByLinker} \cup DOMAIN objects]
    OBVIOUS
  <2>3. cursor \in [obj : 1 .. (Len(objects) + 1), sym : Nat \ {0}] /\ arlist \in 0 .. Len(archives)
    BY <1>2, <1>3
  <2>4. index \in [Symbol -> Module \cup {NoModule}]
    OBVIOUS
  <2>5. QED
    BY <1>2, <1>3, <2>1, <2>2, <2>3, <2>4 DEF TypeOK
<1>5. CursorInPlace /\ SymbolsOfModules /\ ReferencesAccounted /\ MissingIsUndefined /\ DefinitionsEntered
  BY <1>2 DEF CursorInPlace, SymbolsOfModules, ReferencesAccounted, MissingIsUndefined, DefinitionsEntered
<1>6. DefinitionsMeant /\ ScannedIsUnique /\ NoMemberLoadedTwice
  BY <1>2 DEF DefinitionsMeant, ScannedIsUnique, NoMemberLoadedTwice, NotDefined, ByLinker
<1>7. IndexIsRight /\ SearchedInVain /\ SearchIsComplete /\ NothingMissing /\ NoDanglingReference /\ SearchHasEnded
  BY DEF IndexIsRight, SearchedInVain, SearchIsComplete, NothingMissing, NoDanglingReference, SearchHasEnded
<1>8. FilesOpened
  <2>1. Len(todo) = Len(input.files) /\ Len(input.files) \in Nat /\ Opened = 0
    BY <1>1, LenProperties DEF Opened
  <2>2. {k \in CommandObjects : k <= Opened} = {}
    BY <1>1, <2>1, LenProperties DEF CommandObjects
  <2>3. Cardinality({k \in CommandObjects : k <= Opened}) = 0
    BY <2>2, FS_EmptySet
  <2>4. QED
    BY <1>2, <1>3, <2>1, <2>3 DEF FilesOpened, TodoIsRest, EachFileKept, ArchivesGiven, ObjectsGiven
<1>9. QED
  BY <1>4, <1>5, <1>6, <1>7, <1>8 DEF IInv

(***************************************************************************)
(* A new object at the end of the list: nothing of it has been scanned.    *)
(***************************************************************************)
LEMMA AppendFacts ==
    ASSUME TypeOK, input \in Input, NEW m \in Module, AppendObject(m)
    PROVE  /\ objects' \in Seq(ObjectType)
           /\ Len(objects) \in Nat /\ Len(objects') = Len(objects) + 1
           /\ DOMAIN objects = 1 .. Len(objects) /\ DOMAIN objects' = 1 .. (Len(objects) + 1)
           /\ \A k \in DOMAIN objects : objects'[k] = objects[k]
           /\ objects'[Len(objects) + 1].module = m
           /\ objects'[Len(objects) + 1].syms = LoadedSymbols(m)
           /\ errors' \in BOOLEAN /\ (errors => errors')
<1> DEFINE new == [module |-> m, syms |-> LoadedSymbols(m)]
<1>1. new \in ObjectType /\ new.module = m /\ new.syms = LoadedSymbols(m)
  BY LoadedFacts DEF ObjectType
<1>2. objects' = Append(objects, new)
  BY DEF AppendObject
<1>3. objects \in Seq(ObjectType)
  BY DEF TypeOK
<1> HIDE DEF new
<1>4. /\ objects' \in Seq(ObjectType) /\ Len(objects') = Len(objects) + 1
      /\ \A k \in 1 .. Len(objects) : objects'[k] = objects[k]
      /\ objects'[Len(objects) + 1] = new
  BY <1>1, <1>2, <1>3, AppendProperties
<1>5. /\ Len(objects) \in Nat /\ DOMAIN objects = 1 .. Len(objects)
      /\ DOMAIN objects' = 1 .. (Len(objects) + 1)
  BY <1>3, <1>4, LenProperties
<1>6. errors' \in BOOLEAN /\ (errors => errors')
  BY DEF AppendObject, TypeOK
<1>7. QED
  BY <1>1, <1>4, <1>5, <1>6

LEMMA AppendKeepsTables ==
    ASSUME IInv, NEW m \in Module, AppendObject(m),
           UNCHANGED <<input, definition, missing, cursor>>,
           pc \in {"open", "index"}, pc' \in {"open", "member"}
    PROVE  /\ definition' \in [Symbol -> {NotDefined, ByLinker} \cup DOMAIN objects']
           /\ missing' \subseteq Symbol
           /\ cursor' \in [obj : 1 .. (Len(objects') + 1), sym : Nat \ {0}]
           /\ SymbolsOfModules'
           /\ ReferencesAccounted'
           /\ MissingIsUndefined'
           /\ DefinitionsEntered'
           /\ DefinitionsMeant'
           /\ ScannedIsUnique'
<1>1. TypeOK /\ input \in Input
  BY DEF IInv
<1> DEFINE last == Len(objects) + 1
<1>2. /\ objects' \in Seq(ObjectType)
      /\ Len(objects) \in Nat /\ Len(objects') = last
      /\ DOMAIN objects = 1 .. Len(objects) /\ DOMAIN objects' = 1 .. last
      /\ \A k \in DOMAIN objects : objects'[k] = objects[k]
      /\ objects'[last].module = m
      /\ objects'[last].syms = LoadedSymbols(m)
      /\ errors' \in BOOLEAN /\ (errors => errors')
  BY <1>1, AppendFacts
<1>3. cursor.obj \in 1 .. last /\ cursor.sym = 1
  BY <1>1, <1>2 DEF IInv, CursorInPlace, TypeOK
<1>4. \A k, i : Scanned(k, i)' <=> Scanned(k, i)
  BY DEF Scanned
<1>5. \A i \in DOMAIN objects'[last].syms : ~Scanned(last, i)
  <2>1. \A i \in DOMAIN objects'[last].syms : i \in Nat \ {0}
    BY <1>1, <1>2, LoadedFacts, LenProperties
  <2>2. QED
    BY <1>2, <1>3, <2>1 DEF Scanned
<1>6. \A k \in DOMAIN objects' : k # last => k \in DOMAIN objects
  BY <1>2
<1>7. definition' \in [Symbol -> {NotDefined, ByLinker} \cup DOMAIN objects']
  <2>1. DOMAIN objects \subseteq DOMAIN objects'
    BY <1>2
  <2>2. QED
    BY <1>1, <2>1 DEF TypeOK
<1>8. missing' \subseteq Symbol
  BY <1>1 DEF TypeOK
<1>9. cursor' \in [obj : 1 .. (Len(objects') + 1), sym : Nat \ {0}]
  <2>1. cursor \in [obj : 1 .. last, sym : Nat \ {0}]
    BY <1>1 DEF TypeOK
  <2>2. 1 .. last \subseteq 1 .. (Len(objects') + 1)
    BY <1>2
  <2>3. QED
    BY <2>1, <2>2
<1>10. SymbolsOfModules'
  <2>1. \A k \in DOMAIN objects : objects[k].syms = LoadedSymbols(objects[k].module)
    BY DEF IInv, SymbolsOfModules
  <2>2. \A k \in DOMAIN objects' : objects'[k].syms = LoadedSymbols(objects'[k].module)
    BY <1>2, <1>6, <2>1
  <2>3. QED
    BY <2>2 DEF SymbolsOfModules, LoadedSymbols
<1>11. ReferencesAccounted'
  <2> SUFFICES ASSUME NEW k \in DOMAIN objects', NEW i \in DOMAIN objects'[k].syms,
                      Scanned(k, i), objects'[k].syms[i].undef
               PROVE  \/ definition[objects'[k].syms[i].name] # NotDefined
                      \/ objects'[k].syms[i].name \in missing
    BY <1>4 DEF ReferencesAccounted
  <2>1. k \in DOMAIN objects /\ objects'[k] = objects[k]
    BY <1>2, <1>5, <1>6
  <2>2. QED
    BY <2>1 DEF IInv, ReferencesAccounted
<1>12. MissingIsUndefined'
  <2> SUFFICES ASSUME NEW s \in missing
               PROVE  /\ definition[s] = NotDefined
                      /\ \E k \in DOMAIN objects' : s \in NamesOf(objects'[k].syms, TRUE)
    BY DEF MissingIsUndefined, NamesOf
  <2>1. PICK k \in DOMAIN objects : s \in NamesOf(objects[k].syms, TRUE)
    BY DEF IInv, MissingIsUndefined
  <2>2. k \in DOMAIN objects' /\ objects'[k] = objects[k]
    BY <1>2
  <2>3. QED
    BY <2>1, <2>2 DEF IInv, MissingIsUndefined
<1>13. DefinitionsEntered'
  <2> SUFFICES ASSUME NEW k \in DOMAIN objects', NEW i \in DOMAIN objects'[k].syms,
                      Scanned(k, i), ~objects'[k].syms[i].undef
               PROVE  definition[objects'[k].syms[i].name] # NotDefined
    BY <1>4 DEF DefinitionsEntered
  <2>1. k \in DOMAIN objects /\ objects'[k] = objects[k]
    BY <1>2, <1>5, <1>6
  <2>2. QED
    BY <2>1 DEF IInv, DefinitionsEntered
<1>14. DefinitionsMeant'
  <2> SUFFICES ASSUME NEW s \in Symbol
               PROVE  /\ definition[s] \in DOMAIN objects' => s \in Defines(objects'[definition[s]].module)
                      /\ definition[s] # ByLinker
    BY DEF DefinitionsMeant, Defines
  <2>1. definition[s] # ByLinker
    BY DEF IInv, DefinitionsMeant
  <2>2. ASSUME definition[s] \in DOMAIN objects' PROVE definition[s] \in DOMAIN objects
    BY <1>1, <1>2, <2>1, <2>2 DEF TypeOK, NotDefined
  <2>3. QED
    BY <1>2, <2>1, <2>2 DEF IInv, DefinitionsMeant
<1>15. ScannedIsUnique'
  <2> SUFFICES ASSUME ~errors',
                      NEW k \in DOMAIN objects', NEW h \in DOMAIN objects',
                      NEW i \in DOMAIN objects'[k].syms, NEW j \in DOMAIN objects'[h].syms,
                      Scanned(k, i), Scanned(h, j),
                      ~objects'[k].syms[i].undef, ~objects'[h].syms[j].undef,
                      objects'[k].syms[i].name = objects'[h].syms[j].name
               PROVE  k = h /\ i = j
    BY <1>4 DEF ScannedIsUnique
  <2>1. k \in DOMAIN objects /\ objects'[k] = objects[k] /\ h \in DOMAIN objects /\ objects'[h] = objects[h]
    BY <1>2, <1>5, <1>6
  <2>2. QED
    BY <1>2, <2>1 DEF IInv, ScannedIsUnique
<1>16. QED
  BY <1>7, <1>8, <1>9, <1>10, <1>11, <1>12, <1>13, <1>14, <1>15

(***************************************************************************)
(* The next file of the command line.                                      *)
(***************************************************************************)
LEMMA NextFile ==
    ASSUME IInv, todo # << >>, todo' = Tail(todo), UNCHANGED input
    PROVE  /\ Opened \in Nat /\ Opened + 1 \in DOMAIN input.files
           /\ Head(todo) = input.files[Opened + 1]
           /\ Head(todo).members[1] \in Module
           /\ todo' \in Seq(File) /\ Len(todo') \in Nat /\ Len(todo') <= Len(input.files)
           /\ Opened' = Opened + 1
           /\ \A i \in 1 .. Len(todo') : todo'[i] = input.files[Opened' + i]
<1>1. TypeOK /\ FilesOpened /\ input \in Input
  BY DEF IInv
<1>2. input.files \in Seq(File) /\ Len(input.files) \in Nat /\ DOMAIN input.files = 1 .. Len(input.files)
  BY <1>1, InputFacts, LenProperties
<1>3. todo \in Seq(File) /\ Len(todo) \in Nat /\ Len(todo) # 0
  BY <1>1, EmptySeq, LenProperties DEF TypeOK
<1>4. /\ todo' \in Seq(File) /\ Len(todo') = Len(todo) - 1
      /\ \A i \in 1 .. Len(todo') : todo'[i] = todo[i + 1]
  BY <1>3, HeadTailProperties
<1>5. Head(todo) = todo[1]
  BY <1>3
<1>6. Len(todo) <= Len(input.files) /\ \A i \in 1 .. Len(todo) : todo[i] = input.files[Opened + i]
  BY <1>1 DEF FilesOpened, TodoIsRest, EachFileKept, ArchivesGiven, ObjectsGiven
<1>7. Opened = Len(input.files) - Len(todo) /\ Opened' = Len(input.files) - Len(todo')
  BY DEF Opened
<1>8. Opened \in Nat /\ Opened + 1 \in DOMAIN input.files /\ Opened' = Opened + 1
  BY <1>2, <1>3, <1>4, <1>6, <1>7
<1>9. Head(todo) = input.files[Opened + 1]
  BY <1>3, <1>5, <1>6
<1>10. ASSUME NEW i \in 1 .. Len(todo') PROVE todo'[i] = input.files[Opened' + i]
  <2>1. i + 1 \in 1 .. Len(todo) /\ Opened + (i + 1) = Opened' + i
    BY <1>3, <1>4, <1>8
  <2>2. QED
    BY <1>4, <1>6, <2>1
<1>11. Head(todo).members[1] \in Module
  BY <1>1, <1>8, <1>9, InputFacts
<1>12. Len(todo') \in Nat
  BY <1>4, LenProperties
<1>13. Len(todo') <= Len(input.files)
  BY <1>2, <1>3, <1>4, <1>6
<1>14. todo' \in Seq(File)
  BY <1>4
<1>15. QED
  BY <1>8, <1>9, <1>10, <1>11, <1>12, <1>13, <1>14

LEMMA CommandFacts ==
    ASSUME input \in Input
    PROVE  /\ IsFiniteSet(CommandObjects) /\ Cardinality(CommandObjects) \in Nat
           /\ CommandObjects \subseteq Nat
           /\ \A n : IsFiniteSet({k \in CommandObjects : k <= n})
           /\ \A n : Cardinality({k \in CommandObjects : k <= n}) <= Cardinality(CommandObjects)
<1>1. DOMAIN input.files = 1 .. Len(input.files) /\ Len(input.files) \in Nat
  BY InputFacts, LenProperties
<1>2. CommandObjects \in SUBSET (1 .. Len(input.files)) /\ IsFiniteSet(1 .. Len(input.files))
  BY <1>1, FS_Interval DEF CommandObjects
<1>3. IsFiniteSet(CommandObjects)
  BY <1>2, FS_Subset
<1>4. ASSUME NEW n
      PROVE  /\ IsFiniteSet({k \in CommandObjects : k <= n})
             /\ Cardinality({k \in CommandObjects : k <= n}) <= Cardinality(CommandObjects)
  BY <1>3, FS_Subset
<1>5. Cardinality(CommandObjects) \in Nat
  BY <1>3, FS_CardinalityType
<1>6. CommandObjects \subseteq Nat
  BY <1>1, <1>2
<1>7. QED
  BY <1>3, <1>4, <1>5, <1>6

(***************************************************************************)
(* What a part of the invariant reads, left alone, keeps it.               *)
(***************************************************************************)
LEMMA UniqueFrame ==
    ASSUME IInv, UNCHANGED <<objects, cursor>>, errors => errors'
    PROVE  ScannedIsUnique'
<1>1. \A k, i : Scanned(k, i)' <=> Scanned(k, i)
  BY DEF Scanned
<1>2. QED
  BY <1>1 DEF IInv, ScannedIsUnique

LEMMA IndexFrame ==
    ASSUME IInv, UNCHANGED <<input, archives, index, arlist>>,
           pc' \in {"archive", "index", "member"} => pc' = pc \/ (pc = "index" /\ pc' = "member")
                                                         \/ (pc = "member" /\ pc' = "index")
    PROVE  IndexIsRight'
<1>1. IndexIsRight
  BY DEF IInv
<1>2. index' = index /\ arlist' = arlist /\ archives' = archives /\ input' = input
  OBVIOUS
<1>3. pc' \in {"archive", "index", "member"} => pc \in {"archive", "index", "member"}
  OBVIOUS
<1>4. pc' \in {"index", "member"} => pc \in {"index", "member"}
  OBVIOUS
<1>5. \A s \in Symbol : index'[s] # NoModule => s \in Defines(index[s])' /\ InLibrary(index[s])'
  <2>1. ASSUME NEW s \in Symbol, index[s] # NoModule
        PROVE  s \in Defines(index[s])'
    BY <1>1, <1>2, <2>1 DEF IndexIsRight, Defines
  <2>2. ASSUME NEW s \in Symbol, index[s] # NoModule
        PROVE  InLibrary(index[s])'
    <3>1. InLibrary(index[s])
      BY <1>1, <2>2 DEF IndexIsRight
    <3>2. QED
      BY <1>2, <3>1 DEF InLibrary
  <2>3. QED
    BY <1>2, <2>1, <2>2
<1>6. pc' \in {"archive", "index", "member"} => arlist' \in DOMAIN archives'
  BY <1>1, <1>2, <1>3 DEF IndexIsRight
<1>7. pc' \in {"index", "member"} =>
        \A s \in Symbol : index'[s] = NoModule =>
            \A i \in DOMAIN archives'[arlist'].members : s \notin Defines(archives[arlist].members[i])'
  BY <1>1, <1>2, <1>4 DEF IndexIsRight, Defines
<1>8. QED
  BY <1>5, <1>6, <1>7 DEF IndexIsRight

LEMMA FilesFrame ==
    ASSUME IInv, UNCHANGED <<input, todo, objects, archives>>,
           pc # "open" \/ todo = << >>, pc' # "open",
           pc' = "rejected" \/ objects # << >>
    PROVE  FilesOpened'
<1>1. TodoIsRest' /\ EachFileKept' /\ ArchivesGiven'
  BY DEF IInv, FilesOpened, TodoIsRest, EachFileKept, ArchivesGiven, Opened
<1>2. todo' = << >>
  BY DEF IInv, FilesOpened
<1>3. QED
  BY <1>1, <1>2 DEF FilesOpened

LEMMA ObjectsFrame ==
    ASSUME IInv, UNCHANGED <<input, objects>>, pc # "linked"
    PROVE  SymbolsOfModules' /\ NoMemberLoadedTwice'
BY DEF IInv, SymbolsOfModules, LoadedSymbols, NoMemberLoadedTwice, CommandObjects

LEMMA TablesFrame ==
    ASSUME IInv, UNCHANGED <<input, objects, definition, missing, cursor>>,
           pc \notin {"make", "unresolved", "clean", "linked", "dangling"}
    PROVE  ReferencesAccounted' /\ MissingIsUndefined' /\ DefinitionsEntered' /\ DefinitionsMeant'
<1>1. ReferencesAccounted' /\ DefinitionsEntered'
  BY DEF IInv, ReferencesAccounted, DefinitionsEntered, Scanned
<1>2. MissingIsUndefined'
  BY DEF IInv, MissingIsUndefined
<1>3. DefinitionsMeant'
  BY DEF IInv, DefinitionsMeant, Defines
<1>4. QED
  BY <1>1, <1>2, <1>3

LEMMA OpenObjectKeeps ==
    ASSUME IInv, OpenObject
    PROVE  IInv'
<1> DEFINE m == Head(todo).members[1]
           last == Len(objects) + 1
<1>1. /\ pc = "open" /\ pc' = pc /\ todo # << >> /\ todo' = Tail(todo) /\ ~Head(todo).archive
      /\ AppendObject(m)
      /\ UNCHANGED <<input, own, archives, definition, missing, cursor, arlist, index, modified>>
  BY DEF OpenObject, tables, search
<1>2. TypeOK /\ input \in Input /\ input' \in Input
  BY <1>1 DEF IInv
<1>3. /\ Opened \in Nat /\ Opened + 1 \in DOMAIN input.files
      /\ Head(todo) = input.files[Opened + 1]
      /\ m \in Module
      /\ todo' \in Seq(File) /\ Len(todo') <= Len(input.files)
      /\ Opened' = Opened + 1
      /\ \A i \in 1 .. Len(todo') : todo'[i] = input.files[Opened' + i]
  BY <1>1, NextFile
<1>4. /\ objects' \in Seq(ObjectType)
      /\ Len(objects) \in Nat /\ Len(objects') = last
      /\ DOMAIN objects = 1 .. Len(objects) /\ DOMAIN objects' = 1 .. last
      /\ \A k \in DOMAIN objects : objects'[k] = objects[k]
      /\ objects'[last].module = m
      /\ errors' \in BOOLEAN
  BY <1>1, <1>2, <1>3, AppendFacts
<1> HIDE DEF m
<1>5. /\ definition' \in [Symbol -> {NotDefined, ByLinker} \cup DOMAIN objects']
      /\ missing' \subseteq Symbol
      /\ cursor' \in [obj : 1 .. (Len(objects') + 1), sym : Nat \ {0}]
      /\ SymbolsOfModules' /\ ReferencesAccounted' /\ MissingIsUndefined'
      /\ DefinitionsEntered' /\ DefinitionsMeant' /\ ScannedIsUnique'
  BY <1>1, <1>3, AppendKeepsTables
<1>6. TypeOK'
  BY <1>1, <1>2, <1>3, <1>4, <1>5 DEF TypeOK
<1>7. CursorInPlace'
  BY <1>1 DEF IInv, CursorInPlace
<1>8. CommandObjects' = CommandObjects
  BY <1>1 DEF CommandObjects
<1>9. Len(objects') = Cardinality({k \in CommandObjects : k <= Opened'})
  <2> DEFINE before == {k \in CommandObjects : k <= Opened}
  <2>1. Opened + 1 \in CommandObjects /\ Opened + 1 \notin before
    BY <1>1, <1>3 DEF CommandObjects
  <2>2. {k \in CommandObjects : k <= Opened'} = before \cup {Opened + 1}
    <3>1. \A k \in Nat : k <= Opened + 1 <=> k <= Opened \/ k = Opened + 1
      BY <1>3
    <3>2. CommandObjects \subseteq Nat
      BY <1>2, CommandFacts
    <3>3. QED
      BY <1>3, <2>1, <3>1, <3>2
  <2>3. IsFiniteSet(before)
    BY <1>2, CommandFacts
  <2>4. Len(objects) = Cardinality(before)
    BY <1>1 DEF IInv, FilesOpened, TodoIsRest, EachFileKept, ArchivesGiven, ObjectsGiven
  <2> HIDE DEF before
  <2>5. Cardinality(before \cup {Opened + 1}) = Cardinality(before) + 1
    BY <2>1, <2>3, FS_AddElement
  <2>6. QED
    BY <1>4, <2>2, <2>4, <2>5
<1>10. FilesOpened'
  <2>1. ASSUME NEW k \in 1 .. Opened'
        PROVE  IF input.files[k].archive
               THEN \E a \in DOMAIN archives : archives[a] = input.files[k]
               ELSE \E j \in DOMAIN objects' : objects'[j].module = input.files[k].members[1]
    <3>1. CASE k = Opened + 1
      <4>1. objects'[last].module = input.files[k].members[1] /\ last \in DOMAIN objects'
        BY <1>3, <1>4, <3>1 DEF m
      <4>2. ~input.files[k].archive
        BY <1>1, <1>3, <3>1
      <4>3. QED
        BY <4>1, <4>2
    <3>2. CASE k # Opened + 1
      <4>1. k \in 1 .. Opened
        BY <1>3, <3>2
      <4>2. IF input.files[k].archive
            THEN \E a \in DOMAIN archives : archives[a] = input.files[k]
            ELSE \E j \in DOMAIN objects : objects[j].module = input.files[k].members[1]
        BY <4>1 DEF IInv, FilesOpened, TodoIsRest, EachFileKept, ArchivesGiven, ObjectsGiven
      <4>3. DOMAIN objects \subseteq DOMAIN objects'
        BY <1>4
      <4>4. QED
        BY <1>4, <4>2, <4>3
    <3>3. QED
      BY <3>1, <3>2
  <2>2. ASSUME NEW j \in DOMAIN objects'
        PROVE  \E k \in CommandObjects : objects'[j].module = input.files[k].members[1]
    <3>1. CASE j = last
      <4>1. Opened + 1 \in CommandObjects
        BY <1>1, <1>3 DEF CommandObjects
      <4>2. QED
        BY <1>3, <1>4, <3>1, <4>1 DEF m
    <3>2. CASE j # last
      <4>1. j \in DOMAIN objects /\ objects'[j] = objects[j]
        BY <1>4, <3>2
      <4>2. QED
        BY <1>1, <4>1 DEF IInv, FilesOpened, TodoIsRest, EachFileKept, ArchivesGiven, ObjectsGiven
    <3>3. QED
      BY <3>1, <3>2
  <2>3. \A a \in DOMAIN archives :
          \E k \in DOMAIN input.files : input.files[k].archive /\ archives[a] = input.files[k]
    BY DEF IInv, FilesOpened, TodoIsRest, EachFileKept, ArchivesGiven, ObjectsGiven
  <2>4. QED
    BY <1>1, <1>3, <1>8, <1>9, <2>1, <2>2, <2>3 DEF FilesOpened, TodoIsRest, EachFileKept, ArchivesGiven, ObjectsGiven
<1>11. NoMemberLoadedTwice'
  <2>1. Len(objects') <= Cardinality(CommandObjects)
    BY <1>2, <1>9, CommandFacts
  <2>2. \A j \in DOMAIN objects' : j <= Cardinality(CommandObjects)
    BY <1>2, <1>4, <2>1, CommandFacts
  <2>3. QED
    BY <1>8, <2>2 DEF NoMemberLoadedTwice
<1>12. IndexIsRight'
  BY <1>1, IndexFrame
<1>13. SearchedInVain' /\ SearchIsComplete' /\ NothingMissing' /\ NoDanglingReference' /\ SearchHasEnded'
  BY <1>1 DEF SearchedInVain, SearchIsComplete, NothingMissing, NoDanglingReference, SearchHasEnded
<1>14. QED
  BY <1>2, <1>5, <1>6, <1>7, <1>10, <1>11, <1>12, <1>13 DEF IInv

LEMMA OpenArchiveKeeps ==
    ASSUME IInv, OpenArchive
    PROVE  IInv'
<1> DEFINE last == Len(archives) + 1
           new  == Head(todo)
<1>1. /\ pc = "open" /\ pc' = pc /\ todo # << >> /\ todo' = Tail(todo) /\ Head(todo).archive
      /\ archives' = Append(archives, new)
      /\ UNCHANGED <<input, own, objects, definition, missing, cursor, arlist, index, modified, errors>>
  BY DEF OpenArchive, tables, search
<1>2. TypeOK /\ input \in Input /\ input' \in Input
  BY <1>1 DEF IInv
<1>3. /\ Opened \in Nat /\ Opened + 1 \in DOMAIN input.files
      /\ Head(todo) = input.files[Opened + 1]
      /\ todo' \in Seq(File) /\ Len(todo') <= Len(input.files)
      /\ Opened' = Opened + 1
      /\ \A i \in 1 .. Len(todo') : todo'[i] = input.files[Opened' + i]
  BY <1>1, NextFile
<1>4. new \in File
  BY <1>2, <1>3, InputFacts
<1> HIDE DEF new
<1>5. /\ archives' \in Seq(File) /\ Len(archives) \in Nat /\ Len(archives') = last
      /\ DOMAIN archives = 1 .. Len(archives) /\ DOMAIN archives' = 1 .. last
      /\ \A a \in DOMAIN archives : archives'[a] = archives[a]
      /\ archives'[last] = new
  BY <1>1, <1>2, <1>4, AppendProperties, LenProperties DEF TypeOK
<1>6. TypeOK'
  <2>1. arlist' \in 0 .. Len(archives')
    BY <1>1, <1>2, <1>5 DEF TypeOK
  <2>2. QED
    BY <1>1, <1>2, <1>3, <1>5, <2>1 DEF TypeOK
<1>7. /\ CursorInPlace' /\ ScannedIsUnique'
      /\ ReferencesAccounted' /\ MissingIsUndefined' /\ DefinitionsEntered' /\ DefinitionsMeant'
  <2>1. CursorInPlace'
    BY <1>1 DEF IInv, CursorInPlace
  <2>2. QED
    BY <1>1, <2>1, TablesFrame, UniqueFrame
<1>8. SymbolsOfModules' /\ NoMemberLoadedTwice' /\ IndexIsRight'
  <2>1. SymbolsOfModules' /\ NoMemberLoadedTwice'
    BY <1>1, ObjectsFrame
  <2>2. IndexIsRight'
    BY <1>1 DEF IInv, IndexIsRight, InLibrary, Defines
  <2>3. QED
    BY <2>1, <2>2
<1>9. FilesOpened'
  <2>1. ASSUME NEW k \in 1 .. Opened'
        PROVE  IF input.files[k].archive
               THEN \E a \in DOMAIN archives' : archives'[a] = input.files[k]
               ELSE \E j \in DOMAIN objects : objects[j].module = input.files[k].members[1]
    <3>1. CASE k = Opened + 1
      <4>1. archives'[last] = input.files[k] /\ last \in DOMAIN archives' /\ input.files[k].archive
        BY <1>1, <1>3, <1>5, <3>1 DEF new
      <4>2. QED
        BY <4>1
    <3>2. CASE k # Opened + 1
      <4>1. k \in 1 .. Opened
        BY <1>3, <3>2
      <4>2. IF input.files[k].archive
            THEN \E a \in DOMAIN archives : archives[a] = input.files[k]
            ELSE \E j \in DOMAIN objects : objects[j].module = input.files[k].members[1]
        BY <4>1 DEF IInv, FilesOpened, TodoIsRest, EachFileKept, ArchivesGiven, ObjectsGiven
      <4>3. DOMAIN archives \subseteq DOMAIN archives'
        BY <1>5
      <4>4. QED
        BY <1>5, <4>2, <4>3
    <3>3. QED
      BY <3>1, <3>2
  <2>2. ASSUME NEW a \in DOMAIN archives'
        PROVE  \E k \in DOMAIN input.files : input.files[k].archive /\ archives'[a] = input.files[k]
    <3>1. CASE a = last
      BY <1>1, <1>3, <1>5, <3>1 DEF new
    <3>2. CASE a # last
      <4>1. a \in DOMAIN archives /\ archives'[a] = archives[a]
        BY <1>5, <3>2
      <4>2. QED
        BY <4>1 DEF IInv, FilesOpened, TodoIsRest, EachFileKept, ArchivesGiven, ObjectsGiven
    <3>3. QED
      BY <3>1, <3>2
  <2>3. CommandObjects' = CommandObjects
    BY <1>1 DEF CommandObjects
  <2>4. Len(objects) = Cardinality({k \in CommandObjects : k <= Opened'})
    <3>1. Opened + 1 \notin CommandObjects
      BY <1>1, <1>3 DEF CommandObjects
    <3>2. \A k \in Nat : k # Opened + 1 => (k <= Opened + 1 <=> k <= Opened)
      BY <1>3
    <3>3. {k \in CommandObjects : k <= Opened'} = {k \in CommandObjects : k <= Opened}
      BY <1>2, <1>3, <3>1, <3>2, CommandFacts
    <3>4. QED
      BY <1>1, <3>3 DEF IInv, FilesOpened, TodoIsRest, EachFileKept, ArchivesGiven, ObjectsGiven
  <2>5. \A j \in DOMAIN objects : \E k \in CommandObjects : objects[j].module = input.files[k].members[1]
    BY <1>1 DEF IInv, FilesOpened, TodoIsRest, EachFileKept, ArchivesGiven, ObjectsGiven
  <2>6. TodoIsRest'
    BY <1>1, <1>3 DEF TodoIsRest
  <2>7. EachFileKept' /\ ArchivesGiven'
    BY <1>1, <2>1, <2>2 DEF EachFileKept, ArchivesGiven
  <2>8. ObjectsGiven'
    BY <1>1, <2>3, <2>4, <2>5 DEF ObjectsGiven
  <2>9. QED
    BY <1>1, <2>6, <2>7, <2>8 DEF FilesOpened
<1>10. SearchedInVain' /\ SearchIsComplete' /\ NothingMissing' /\ NoDanglingReference' /\ SearchHasEnded'
  BY <1>1 DEF SearchedInVain, SearchIsComplete, NothingMissing, NoDanglingReference, SearchHasEnded
<1>11. QED
  BY <1>2, <1>6, <1>7, <1>8, <1>9, <1>10 DEF IInv

LEMMA StartLinkerKeeps ==
    ASSUME IInv, StartLinker
    PROVE  IInv'
<1>1. /\ pc = "open" /\ todo = << >>
      /\ errors' = (errors \/ objects = << >>)
      /\ pc' = (IF errors' THEN "rejected" ELSE "objects")
      /\ UNCHANGED <<input, own, todo, objects, archives, definition, missing, cursor, arlist, index, modified>>
  BY DEF StartLinker, tables, search
<1>2. TypeOK /\ input \in Input /\ input' \in Input
  BY <1>1 DEF IInv
<1>3. objects \in Seq(ObjectType) /\ Len(objects) \in Nat
  BY <1>2, LenProperties DEF TypeOK
<1>4. TypeOK'
  BY <1>1, <1>2 DEF TypeOK, PC
<1>5. CursorInPlace'
  <2>1. CASE pc' = "rejected"
    BY <2>1 DEF CursorInPlace
  <2>2. CASE pc' = "objects"
    <3>1. objects # << >>
      BY <1>1, <2>2
    <3>2. Len(objects) >= 1
      BY <1>3, <3>1, EmptySeq
    <3>3. QED
      BY <1>1, <2>2, <3>2 DEF IInv, CursorInPlace
  <2>3. QED
    BY <1>1, <2>1, <2>2
<1>6. SymbolsOfModules' /\ NoMemberLoadedTwice'
  BY <1>1, ObjectsFrame
<1>7. ReferencesAccounted' /\ MissingIsUndefined' /\ DefinitionsEntered' /\ DefinitionsMeant'
  BY <1>1, TablesFrame
<1>8. ScannedIsUnique'
  BY <1>1, UniqueFrame
<1>9. FilesOpened'
  <2>1. pc' = "rejected" \/ objects # << >>
    BY <1>1
  <2>2. QED
    BY <1>1, <2>1, FilesFrame
<1>10. IndexIsRight'
  BY <1>1, IndexFrame
<1>11. SearchedInVain' /\ SearchIsComplete'
  BY <1>1 DEF SearchedInVain, SearchIsComplete
<1>12. NothingMissing' /\ NoDanglingReference' /\ SearchHasEnded'
  BY <1>1 DEF NothingMissing, NoDanglingReference, SearchHasEnded
<1>13. QED
  BY <1>2, <1>4, <1>5, <1>6, <1>7, <1>8, <1>9, <1>10, <1>11, <1>12 DEF IInv

(***************************************************************************)
(* One symbol more has been entered.                                       *)
(***************************************************************************)
LEMMA SymbolFacts ==
    ASSUME IInv, AtSymbol, cursor' = [cursor EXCEPT !.sym = @ + 1]
    PROVE  /\ objects \in Seq(ObjectType) /\ Len(objects) \in Nat /\ DOMAIN objects = 1 .. Len(objects)
           /\ cursor.obj \in DOMAIN objects
           /\ cursor.sym \in DOMAIN objects[cursor.obj].syms
           /\ CurrentSymbol \in Entry /\ CurrentSymbol.name \in Symbol
           /\ cursor' \in [obj : 1 .. (Len(objects) + 1), sym : Nat \ {0}]
           /\ cursor'.obj = cursor.obj /\ cursor'.sym = cursor.sym + 1
           /\ \A k \in DOMAIN objects : \A i \in DOMAIN objects[k].syms :
                 Scanned(k, i)' <=> Scanned(k, i) \/ (k = cursor.obj /\ i = cursor.sym)
           /\ ~Scanned(cursor.obj, cursor.sym)
<1>1. TypeOK
  BY DEF IInv
<1>2. objects \in Seq(ObjectType) /\ Len(objects) \in Nat /\ DOMAIN objects = 1 .. Len(objects)
  BY <1>1, LenProperties DEF TypeOK
<1>3. cursor \in [obj : 1 .. (Len(objects) + 1), sym : Nat \ {0}]
  BY <1>1 DEF TypeOK
<1>4. cursor.obj \in Nat /\ cursor.sym \in Nat \ {0} /\ cursor.obj >= 1
  BY <1>2, <1>3
<1>5. cursor.obj \in DOMAIN objects
  BY <1>2, <1>4 DEF AtSymbol
<1>6. ASSUME NEW k \in DOMAIN objects PROVE objects[k].syms \in Seq(Entry)
  <2>1. objects[k] \in ObjectType
    BY <1>2, ElementOfSeq
  <2>2. QED
    BY <2>1 DEF ObjectType
<1>7. \A k \in DOMAIN objects : DOMAIN objects[k].syms \subseteq Nat
  BY <1>6, LenProperties
<1>8. cursor.sym \in DOMAIN objects[cursor.obj].syms
  BY <1>4, <1>5, <1>6, LenProperties DEF AtSymbol
<1>9. CurrentSymbol \in Entry
  BY <1>5, <1>6, <1>8, ElementOfSeq, LenProperties DEF CurrentSymbol
<1>10. CurrentSymbol.name \in Symbol
  BY <1>9 DEF Entry
<1>11. cursor'.obj = cursor.obj /\ cursor'.sym = cursor.sym + 1
  BY <1>3
<1>12. cursor' \in [obj : 1 .. (Len(objects) + 1), sym : Nat \ {0}]
  BY <1>3
<1>13. ASSUME NEW k \in DOMAIN objects, NEW i \in DOMAIN objects[k].syms
       PROVE  Scanned(k, i)' <=> Scanned(k, i) \/ (k = cursor.obj /\ i = cursor.sym)
  <2>1. i \in Nat
    BY <1>7
  <2>2. i < cursor.sym + 1 <=> i < cursor.sym \/ i = cursor.sym
    BY <1>4, <2>1
  <2>3. QED
    BY <1>11, <2>2 DEF Scanned
<1>14. ~Scanned(cursor.obj, cursor.sym)
  BY <1>4 DEF Scanned
<1>15. QED
  BY <1>2, <1>5, <1>8, <1>9, <1>10, <1>11, <1>12, <1>13, <1>14

LEMMA AddReferenceKeeps ==
    ASSUME IInv, AddReference
    PROVE  IInv'
<1> DEFINE name == CurrentSymbol.name
<1>1. /\ AtSymbol /\ pc \in {"objects", "member"} /\ pc' = pc /\ CurrentSymbol.undef
      /\ missing' = (IF definition[name] = NotDefined THEN missing \cup {name} ELSE missing)
      /\ cursor' = [cursor EXCEPT !.sym = @ + 1]
      /\ UNCHANGED <<input, own, todo, objects, archives, definition, arlist, index, modified, errors>>
  BY DEF AddReference, AtSymbol, IsUnknown, AddMissing, search
<1>2. TypeOK /\ input \in Input /\ input' \in Input
  BY <1>1 DEF IInv
<1>3. /\ objects \in Seq(ObjectType) /\ Len(objects) \in Nat /\ DOMAIN objects = 1 .. Len(objects)
      /\ cursor.obj \in DOMAIN objects
      /\ cursor.sym \in DOMAIN objects[cursor.obj].syms
      /\ name \in Symbol
      /\ cursor' \in [obj : 1 .. (Len(objects) + 1), sym : Nat \ {0}]
      /\ cursor'.obj = cursor.obj /\ cursor'.sym = cursor.sym + 1
      /\ \A k \in DOMAIN objects : \A i \in DOMAIN objects[k].syms :
            Scanned(k, i)' <=> Scanned(k, i) \/ (k = cursor.obj /\ i = cursor.sym)
  BY <1>1, SymbolFacts
<1>4. CurrentSymbol = objects[cursor.obj].syms[cursor.sym]
  BY DEF CurrentSymbol
<1>5. TypeOK'
  BY <1>1, <1>2, <1>3 DEF TypeOK
<1>6. CursorInPlace'
  BY <1>1, <1>3 DEF IInv, CursorInPlace
<1>7. SymbolsOfModules' /\ DefinitionsMeant' /\ NoMemberLoadedTwice'
  <2>1. SymbolsOfModules' /\ NoMemberLoadedTwice'
    BY <1>1, ObjectsFrame
  <2>2. DefinitionsMeant'
    BY <1>1 DEF IInv, DefinitionsMeant, Defines
  <2>3. QED
    BY <2>1, <2>2
<1>8. ReferencesAccounted'
  <2> SUFFICES ASSUME NEW k \in DOMAIN objects, NEW i \in DOMAIN objects[k].syms,
                      Scanned(k, i)', objects[k].syms[i].undef
               PROVE  \/ definition[objects[k].syms[i].name] # NotDefined
                      \/ objects[k].syms[i].name \in missing'
    BY <1>1 DEF ReferencesAccounted
  <2>1. CASE Scanned(k, i)
    BY <1>1, <2>1 DEF IInv, ReferencesAccounted
  <2>2. CASE k = cursor.obj /\ i = cursor.sym
    BY <1>1, <1>4, <2>2
  <2>3. QED
    BY <1>3, <2>1, <2>2
<1>9. ASSUME NEW s \in missing'
      PROVE  /\ definition[s] = NotDefined
             /\ \E k \in DOMAIN objects : s \in NamesOf(objects[k].syms, TRUE)
  <2>1. CASE s \in missing
    BY <2>1 DEF IInv, MissingIsUndefined
  <2>2. CASE s = name /\ definition[name] = NotDefined
    <3>1. objects[cursor.obj].syms[cursor.sym].undef = TRUE
      BY <1>1, <1>4, SymbolFacts DEF Entry
    <3>2. name \in NamesOf(objects[cursor.obj].syms, TRUE)
      BY <1>3, <1>4, <3>1 DEF NamesOf
    <3>3. QED
      BY <1>3, <2>2, <3>2
  <2>3. QED
    BY <1>1, <2>1, <2>2
<1>10. DefinitionsEntered'
  <2> SUFFICES ASSUME NEW k \in DOMAIN objects, NEW i \in DOMAIN objects[k].syms,
                      Scanned(k, i)', ~objects[k].syms[i].undef
               PROVE  definition[objects[k].syms[i].name] # NotDefined
    BY <1>1 DEF DefinitionsEntered
  <2>1. Scanned(k, i)
    BY <1>1, <1>3, <1>4
  <2>2. QED
    BY <2>1 DEF IInv, DefinitionsEntered
<1>11. ScannedIsUnique'
  <2> SUFFICES ASSUME ~errors,
                      NEW k \in DOMAIN objects, NEW h \in DOMAIN objects,
                      NEW i \in DOMAIN objects[k].syms, NEW j \in DOMAIN objects[h].syms,
                      Scanned(k, i)', Scanned(h, j)',
                      ~objects[k].syms[i].undef, ~objects[h].syms[j].undef,
                      objects[k].syms[i].name = objects[h].syms[j].name
               PROVE  k = h /\ i = j
    BY <1>1 DEF ScannedIsUnique
  <2>1. Scanned(k, i) /\ Scanned(h, j)
    BY <1>1, <1>3, <1>4
  <2>2. QED
    BY <2>1 DEF IInv, ScannedIsUnique
<1>12. FilesOpened'
  <2>1. objects # << >>
    BY <1>1 DEF IInv, FilesOpened
  <2>2. QED
    BY <1>1, <2>1, FilesFrame
<1>13. IndexIsRight'
  BY <1>1, IndexFrame
<1>16. SearchedInVain'
  BY <1>1 DEF IInv, SearchedInVain
<1>14. SearchIsComplete' /\ NothingMissing' /\ NoDanglingReference' /\ SearchHasEnded'
  BY <1>1 DEF SearchIsComplete, NothingMissing, NoDanglingReference, SearchHasEnded
<1>15. MissingIsUndefined'
  BY <1>1, <1>9 DEF MissingIsUndefined
<1>17. QED
  BY <1>2, <1>5, <1>6, <1>7, <1>8, <1>10, <1>11, <1>12, <1>13, <1>14, <1>15, <1>16 DEF IInv

LEMMA AddDefinitionKeeps ==
    ASSUME IInv, AddDefinition
    PROVE  IInv'
<1> DEFINE name == CurrentSymbol.name
<1>1. /\ AtSymbol /\ pc \in {"objects", "member"} /\ pc' = pc /\ ~CurrentSymbol.undef
      /\ definition' = [definition EXCEPT ![name] = IF @ = NotDefined THEN cursor.obj ELSE @]
      /\ errors' = (errors \/ definition[name] # NotDefined)
      /\ missing' = missing \ {name}
      /\ cursor' = [cursor EXCEPT !.sym = @ + 1]
      /\ UNCHANGED <<input, own, todo, objects, archives, arlist, index, modified>>
  BY DEF AddDefinition, AtSymbol, EnterDefinition, IsDuplicate, RemoveMissing, search
<1>2. TypeOK /\ input \in Input /\ input' \in Input
  BY <1>1 DEF IInv
<1>3. /\ objects \in Seq(ObjectType) /\ Len(objects) \in Nat /\ DOMAIN objects = 1 .. Len(objects)
      /\ cursor.obj \in DOMAIN objects
      /\ cursor.sym \in DOMAIN objects[cursor.obj].syms
      /\ name \in Symbol
      /\ cursor' \in [obj : 1 .. (Len(objects) + 1), sym : Nat \ {0}]
      /\ cursor'.obj = cursor.obj /\ cursor'.sym = cursor.sym + 1
      /\ \A k \in DOMAIN objects : \A i \in DOMAIN objects[k].syms :
            Scanned(k, i)' <=> Scanned(k, i) \/ (k = cursor.obj /\ i = cursor.sym)
      /\ ~Scanned(cursor.obj, cursor.sym)
  BY <1>1, SymbolFacts
<1>4. CurrentSymbol = objects[cursor.obj].syms[cursor.sym]
  BY DEF CurrentSymbol
<1>5. /\ definition \in [Symbol -> {NotDefined, ByLinker} \cup DOMAIN objects]
      /\ cursor.obj # NotDefined /\ cursor.obj # ByLinker
  BY <1>2, <1>3 DEF TypeOK, NotDefined, ByLinker
<1>6. /\ definition' \in [Symbol -> {NotDefined, ByLinker} \cup DOMAIN objects]
      /\ \A s \in Symbol : s # name => definition'[s] = definition[s]
      /\ definition'[name] = IF definition[name] = NotDefined THEN cursor.obj ELSE definition[name]
  BY <1>1, <1>3, <1>5
<1>7. \A s \in Symbol : definition[s] # NotDefined => definition'[s] # NotDefined
  BY <1>5, <1>6
<1>8. \A k \in DOMAIN objects : \A i \in DOMAIN objects[k].syms : objects[k].syms[i].name \in Symbol
  BY <1>2, ObjectFacts
<1> HIDE DEF name
<1>9. TypeOK'
  BY <1>1, <1>2, <1>3, <1>6 DEF TypeOK
<1>10. CursorInPlace'
  BY <1>1, <1>3 DEF IInv, CursorInPlace
<1>11. SymbolsOfModules' /\ NoMemberLoadedTwice'
  BY <1>1, ObjectsFrame
<1>12. ReferencesAccounted'
  <2> SUFFICES ASSUME NEW k \in DOMAIN objects, NEW i \in DOMAIN objects[k].syms,
                      Scanned(k, i)', objects[k].syms[i].undef
               PROVE  \/ definition'[objects[k].syms[i].name] # NotDefined
                      \/ objects[k].syms[i].name \in missing'
    BY <1>1 DEF ReferencesAccounted
  <2>1. Scanned(k, i)
    BY <1>1, <1>3, <1>4
  <2>2. \/ definition[objects[k].syms[i].name] # NotDefined
        \/ objects[k].syms[i].name \in missing
    BY <1>1, <2>1 DEF IInv, ReferencesAccounted
  <2>3. objects[k].syms[i].name = name => definition'[objects[k].syms[i].name] # NotDefined
    BY <1>5, <1>6
  <2>4. QED
    BY <1>1, <1>7, <1>8, <2>2, <2>3
<1>13. ASSUME NEW s \in missing'
       PROVE  /\ definition'[s] = NotDefined
              /\ \E k \in DOMAIN objects : s \in NamesOf(objects[k].syms, TRUE)
  <2>1. s \in missing /\ s # name /\ s \in Symbol
    BY <1>1, <1>2 DEF TypeOK
  <2>2. QED
    BY <1>6, <2>1 DEF IInv, MissingIsUndefined
<1>14. MissingIsUndefined'
  BY <1>1, <1>13 DEF MissingIsUndefined
<1>15. DefinitionsEntered'
  <2> SUFFICES ASSUME NEW k \in DOMAIN objects, NEW i \in DOMAIN objects[k].syms,
                      Scanned(k, i)', ~objects[k].syms[i].undef
               PROVE  definition'[objects[k].syms[i].name] # NotDefined
    BY <1>1 DEF DefinitionsEntered
  <2>1. CASE Scanned(k, i)
    <3>1. definition[objects[k].syms[i].name] # NotDefined
      BY <2>1 DEF IInv, DefinitionsEntered
    <3>2. QED
      BY <1>7, <1>8, <3>1
  <2>2. CASE k = cursor.obj /\ i = cursor.sym
    BY <1>4, <1>5, <1>6, <2>2 DEF name
  <2>3. QED
    BY <1>3, <2>1, <2>2
<1>16. ASSUME NEW s \in Symbol
       PROVE  /\ definition'[s] \in DOMAIN objects => s \in Defines(objects[definition'[s]].module)
              /\ definition'[s] # ByLinker
  <2>1. /\ definition[s] \in DOMAIN objects => s \in Defines(objects[definition[s]].module)
        /\ definition[s] # ByLinker
    BY <1>1 DEF IInv, DefinitionsMeant
  <2>2. CASE definition'[s] = definition[s]
    BY <2>1, <2>2
  <2>3. CASE s = name /\ definition'[s] = cursor.obj
    <3>1. objects[cursor.obj].module \in Module
      BY <1>2, <1>3, ObjectFacts
    <3>2. objects[cursor.obj].syms = LoadedSymbols(objects[cursor.obj].module)
      BY <1>1, <1>3, SMTT(20) DEF IInv, SymbolsOfModules
    <3>3. name \in Defines(objects[cursor.obj].module)
      BY <1>1, <1>2, <1>3, <1>4, <3>1, <3>2, LoadedFacts DEF name
    <3>4. QED
      BY <1>5, <2>3, <3>3
  <2>4. QED
    BY <1>6, <2>2, <2>3
<1>17. DefinitionsMeant'
  BY <1>1, <1>16 DEF DefinitionsMeant, Defines
<1>18. ScannedIsUnique'
  <2> SUFFICES ASSUME ~errors',
                      NEW k \in DOMAIN objects, NEW h \in DOMAIN objects,
                      NEW i \in DOMAIN objects[k].syms, NEW j \in DOMAIN objects[h].syms,
                      Scanned(k, i)', Scanned(h, j)',
                      ~objects[k].syms[i].undef, ~objects[h].syms[j].undef,
                      objects[k].syms[i].name = objects[h].syms[j].name
               PROVE  k = h /\ i = j
    BY <1>1 DEF ScannedIsUnique
  <2>1. ~errors /\ definition[name] = NotDefined
    BY <1>1
  <2>2. CASE Scanned(k, i) /\ Scanned(h, j)
    BY <2>1, <2>2 DEF IInv, ScannedIsUnique
  <2>3. CASE k = cursor.obj /\ i = cursor.sym /\ Scanned(h, j)
    <3>1. definition[name] # NotDefined
      BY <1>4, <2>3 DEF IInv, DefinitionsEntered, name
    <3>2. QED
      BY <2>1, <3>1
  <2>4. CASE h = cursor.obj /\ j = cursor.sym /\ Scanned(k, i)
    <3>1. definition[name] # NotDefined
      BY <1>4, <2>4 DEF IInv, DefinitionsEntered, name
    <3>2. QED
      BY <2>1, <3>1
  <2>5. QED
    BY <1>3, <2>2, <2>3, <2>4
<1>19. FilesOpened'
  <2>1. objects # << >>
    BY <1>1 DEF IInv, FilesOpened
  <2>2. QED
    BY <1>1, <2>1, FilesFrame
<1>20. IndexIsRight'
  BY <1>1, IndexFrame
<1>21. SearchedInVain'
  BY <1>1 DEF IInv, SearchedInVain
<1>22. SearchIsComplete' /\ NothingMissing' /\ NoDanglingReference' /\ SearchHasEnded'
  BY <1>1 DEF SearchIsComplete, NothingMissing, NoDanglingReference, SearchHasEnded
<1>23. QED
  BY <1>2, <1>9, <1>10, <1>11, <1>12, <1>14, <1>15, <1>17, <1>18, <1>19, <1>20, <1>21, <1>22 DEF IInv

(***************************************************************************)
(* Every archive of the command line is in the list that is searched.      *)
(***************************************************************************)
LEMMA ArchivesListed ==
    ASSUME IInv, pc # "open", NEW k \in DOMAIN input.files, input.files[k].archive
    PROVE  \E a \in DOMAIN archives : archives[a] = input.files[k]
<1>1. todo = << >>
  BY DEF IInv, FilesOpened
<1>2. Opened = Len(input.files)
  <2>1. Len(input.files) \in Nat
    BY InputFacts, LenProperties DEF IInv
  <2>2. QED
    BY <1>1, <2>1 DEF Opened
<1>3. k \in 1 .. Opened
  BY <1>2, InputFacts, LenProperties DEF IInv
<1>4. QED
  BY <1>3 DEF IInv, FilesOpened, EachFileKept

LEMMA NextObjectKeeps ==
    ASSUME IInv, NextObject
    PROVE  IInv'
<1>1. /\ pc \in {"objects", "member"} /\ cursor.obj <= Len(objects)
      /\ cursor.sym > Len(objects[cursor.obj].syms)
      /\ cursor' = [obj |-> cursor.obj + 1, sym |-> 1]
      /\ UNCHANGED <<input, own, todo, objects, archives, definition, missing, index, modified, errors>>
      /\ \/ cursor.obj < Len(objects) /\ pc' = pc /\ arlist' = arlist
         \/ ~(cursor.obj < Len(objects)) /\ pc = "member" /\ pc' = "index" /\ arlist' = arlist
         \/ /\ ~(cursor.obj < Len(objects)) /\ pc = "objects" /\ pc' = "archive" /\ arlist' = 1
            /\ missing # {} /\ archives # << >>
         \/ /\ ~(cursor.obj < Len(objects)) /\ pc = "objects" /\ pc' = "check" /\ arlist' = arlist
            /\ missing = {} \/ archives = << >>
  BY DEF NextObject
<1>2. TypeOK /\ input \in Input /\ input' \in Input
  BY <1>1 DEF IInv
<1>3. /\ objects \in Seq(ObjectType) /\ Len(objects) \in Nat /\ DOMAIN objects = 1 .. Len(objects)
      /\ archives \in Seq(File) /\ Len(archives) \in Nat /\ DOMAIN archives = 1 .. Len(archives)
      /\ cursor.obj \in DOMAIN objects
  BY <1>1, <1>2, LenProperties DEF TypeOK
<1>4. ASSUME NEW k \in DOMAIN objects, NEW i \in DOMAIN objects[k].syms
      PROVE  Scanned(k, i)' <=> Scanned(k, i)
  <2>2. i \in 1 .. Len(objects[k].syms) /\ Len(objects[k].syms) \in Nat
    BY <1>2, ObjectFacts
  <2>3. cursor'.obj = cursor.obj + 1 /\ cursor'.sym = 1
    BY <1>1
  <2>4. Scanned(k, i)' <=> k <= cursor.obj
    BY <1>3, <2>2, <2>3 DEF Scanned
  <2>5. k = cursor.obj => i < cursor.sym
    BY <1>1, <1>2, <2>2 DEF TypeOK
  <2>6. QED
    BY <1>3, <2>4, <2>5 DEF Scanned
<1>5. TypeOK'
  <2>1. cursor' \in [obj : 1 .. (Len(objects) + 1), sym : Nat \ {0}]
    BY <1>1, <1>3
  <2>2. arlist' \in 0 .. Len(archives)
    BY <1>1, <1>2, <1>3, EmptySeq DEF TypeOK
  <2>3. pc' \in PC
    BY <1>1 DEF PC
  <2>4. QED
    BY <1>1, <1>2, <2>1, <2>2, <2>3 DEF TypeOK
<1>6. CursorInPlace'
  BY <1>1, <1>3 DEF CursorInPlace
<1>7. SymbolsOfModules' /\ NoMemberLoadedTwice'
  BY <1>1, ObjectsFrame
<1>8. ReferencesAccounted' /\ DefinitionsEntered' /\ ScannedIsUnique'
  <2>1. ReferencesAccounted'
    BY <1>1, <1>4 DEF IInv, ReferencesAccounted
  <2>2. DefinitionsEntered'
    BY <1>1, <1>4 DEF IInv, DefinitionsEntered
  <2>3. ScannedIsUnique'
    BY <1>1, <1>4 DEF IInv, ScannedIsUnique
  <2>4. QED
    BY <2>1, <2>2, <2>3
<1>9. MissingIsUndefined' /\ DefinitionsMeant'
  <2>1. MissingIsUndefined'
    BY <1>1 DEF IInv, MissingIsUndefined
  <2>2. DefinitionsMeant'
    BY <1>1 DEF IInv, DefinitionsMeant, Defines
  <2>3. QED
    BY <2>1, <2>2
<1>10. FilesOpened'
  <2>1. objects # << >>
    BY <1>1 DEF IInv, FilesOpened
  <2>2. pc # "open" \/ todo = << >>
    BY <1>1
  <2>3. pc' # "open"
    BY <1>1
  <2>4. QED
    BY <1>1, <2>1, <2>2, <2>3, FilesFrame
<1>11. IndexIsRight'
  <2>1. CASE pc' = "archive"
    <3>1. arlist' \in DOMAIN archives
      BY <1>1, <1>3, <2>1, EmptySeq
    <3>2. QED
      BY <1>1, <2>1, <3>1 DEF IInv, IndexIsRight, Defines, InLibrary
  <2>2. CASE pc' # "archive"
    <3>1. pc' \in {"archive", "index", "member"} =>
             pc' = pc \/ (pc = "index" /\ pc' = "member") \/ (pc = "member" /\ pc' = "index")
      BY <1>1, <2>2
    <3>2. arlist' = arlist
      BY <1>1, <2>2
    <3>3. QED
      BY <1>1, <3>1, <3>2, IndexFrame
  <2>3. QED
    BY <2>1, <2>2
<1>12. SearchedInVain'
  <2>1. pc = "member" => modified
    BY DEF IInv, SearchedInVain
  <2>2. pc' = "member" => modified'
    BY <1>1, <2>1
  <2>3. pc' \in {"archive", "index"} /\ ~modified' => arlist' = 1
    BY <1>1, <2>1
  <2>4. 1 .. (1 - 1) = {}
    OBVIOUS
  <2>5. QED
    BY <2>2, <2>3, <2>4 DEF SearchedInVain
<1>13. SearchIsComplete'
  <2>1. CASE pc' # "check"
    BY <2>1 DEF SearchIsComplete
  <2>2. CASE missing = {}
    BY <1>1, <2>2 DEF SearchIsComplete
  <2>3. CASE archives = << >>
    <3>1. \A k \in DOMAIN input.files : ~input.files[k].archive
      BY <1>1, <1>3, <2>3, ArchivesListed, EmptySeq
    <3>2. QED
      BY <1>1, <3>1 DEF SearchIsComplete
  <2>4. QED
    BY <1>1, <2>1, <2>2, <2>3
<1>14. NothingMissing' /\ NoDanglingReference' /\ SearchHasEnded'
  BY <1>1 DEF NothingMissing, NoDanglingReference, SearchHasEnded
<1>15. QED
  BY <1>2, <1>5, <1>6, <1>7, <1>8, <1>9, <1>10, <1>11, <1>12, <1>13, <1>14 DEF IInv

LEMMA ReadIndexKeeps ==
    ASSUME IInv, ReadIndex
    PROVE  IInv'
<1> DEFINE members == archives[arlist].members
<1>1. /\ pc = "archive" /\ pc' \in {"index", "noindex"}
      /\ index' = ArchiveIndex(members)
      /\ errors' \in BOOLEAN /\ (errors => errors')
      /\ UNCHANGED <<input, own, todo, objects, archives, definition, missing, cursor, arlist, modified>>
  BY DEF ReadIndex, tables, IInv, TypeOK
<1>2. TypeOK /\ input \in Input /\ input' \in Input
  BY <1>1 DEF IInv
<1>3. arlist \in DOMAIN archives
  BY <1>1 DEF IInv, IndexIsRight
<1>4. PICK k \in DOMAIN input.files : input.files[k].archive /\ archives[arlist] = input.files[k]
  BY <1>3 DEF IInv, FilesOpened, ArchivesGiven
<1>5. members \in Seq(Module)
  BY <1>2, <1>4, InputFacts
<1> HIDE DEF members
<1>6. TypeOK'
  <2>1. index' \in [Symbol -> Module \cup {NoModule}]
    BY <1>1, <1>5, IndexType
  <2>2. pc' \in PC
    BY <1>1 DEF PC
  <2>3. QED
    BY <1>1, <1>2, <2>1, <2>2 DEF TypeOK
<1>7. CursorInPlace'
  BY <1>1 DEF IInv, CursorInPlace
<1>8. SymbolsOfModules' /\ NoMemberLoadedTwice'
  BY <1>1, ObjectsFrame
<1>9. ReferencesAccounted' /\ MissingIsUndefined' /\ DefinitionsEntered' /\ DefinitionsMeant'
  BY <1>1, TablesFrame
<1>10. ScannedIsUnique'
  BY <1>1, UniqueFrame
<1>11. FilesOpened'
  <2>1. objects # << >>
    BY <1>1 DEF IInv, FilesOpened
  <2>2. QED
    BY <1>1, <2>1, FilesFrame
<1>12. IndexIsRight'
  <2>1. ASSUME NEW s \in Symbol, index'[s] # NoModule
        PROVE  s \in Defines(index'[s]) /\ InLibrary(index'[s])
    <3>1. PICK i \in DOMAIN members : index'[s] = members[i] /\ s \in Defines(members[i])
      BY <1>1, <1>5, <2>1, IndexFacts
    <3>2. QED
      BY <1>4, <3>1 DEF InLibrary, members
  <2>2. ASSUME NEW s \in Symbol, index'[s] = NoModule
        PROVE  \A i \in DOMAIN members : s \notin Defines(members[i])
    BY <1>1, <1>5, <2>2, IndexFacts
  <2>3. QED
    BY <1>1, <1>3, <2>1, <2>2 DEF IndexIsRight, Defines, InLibrary, members
<1>13. SearchedInVain'
  BY <1>1 DEF IInv, SearchedInVain, NoHelp, Defines
<1>14. SearchIsComplete' /\ NothingMissing' /\ NoDanglingReference' /\ SearchHasEnded'
  BY <1>1 DEF SearchIsComplete, NothingMissing, NoDanglingReference, SearchHasEnded
<1>15. QED
  BY <1>2, <1>6, <1>7, <1>8, <1>9, <1>10, <1>11, <1>12, <1>13, <1>14 DEF IInv

(***************************************************************************)
(* A member that the index names for a missing symbol defines it, so it is *)
(* in the library and not in the program.                                  *)
(***************************************************************************)
LEMMA FoundIsNew ==
    ASSUME IInv, pc = "index", NEW s \in FoundInIndex
    PROVE  /\ s \in Symbol /\ index[s] \in Module
           /\ s \in Defines(index[s]) /\ InLibrary(index[s])
           /\ \A k \in DOMAIN objects : objects[k].module # index[s]
<1>1. TypeOK /\ input \in Input
  BY DEF IInv
<1>2. s \in missing /\ index[s] # NoModule
  BY DEF FoundInIndex
<1>3. s \in Symbol /\ index[s] \in Module
  BY <1>1, <1>2 DEF TypeOK
<1>4. s \in Defines(index[s]) /\ InLibrary(index[s])
  BY <1>2, <1>3 DEF IInv, IndexIsRight
<1>5. ASSUME NEW k \in DOMAIN objects, objects[k].module = index[s]
      PROVE  FALSE
  <2>1. objects[k].syms = LoadedSymbols(index[s])
    BY <1>5 DEF IInv, SymbolsOfModules
  <2>2. PICK i \in DOMAIN objects[k].syms :
           ~objects[k].syms[i].undef /\ objects[k].syms[i].name = s
    BY <1>1, <1>3, <1>4, <2>1, LoadedFacts
  <2>3. Scanned(k, i)
    <3>1. cursor.obj = Len(objects) + 1
      BY DEF IInv, CursorInPlace
    <3>2. QED
      BY <1>1, <3>1, ObjectFacts DEF Scanned
  <2>4. definition[s] # NotDefined
    BY <2>2, <2>3 DEF IInv, DefinitionsEntered
  <2>5. QED
    BY <1>2, <2>4 DEF IInv, MissingIsUndefined
<1>6. QED
  BY <1>3, <1>4, <1>5

LEMMA LoadMemberKeeps ==
    ASSUME IInv, LoadMember
    PROVE  IInv'
<1> DEFINE last == Len(objects) + 1
<1>1. PICK s \in FoundInIndex : AppendObject(index[s])
  BY DEF LoadMember
<1>2. /\ pc = "index" /\ pc' = "member" /\ modified' = TRUE
      /\ UNCHANGED <<input, own, todo, archives, definition, missing, cursor, arlist, index>>
  BY DEF LoadMember, tables
<1>3. TypeOK /\ input \in Input /\ input' \in Input
  BY <1>2 DEF IInv
<1>4. /\ index[s] \in Module
      /\ \A k \in DOMAIN objects : objects[k].module # index[s]
  BY <1>2, FoundIsNew
<1>5. /\ objects' \in Seq(ObjectType)
      /\ Len(objects) \in Nat /\ Len(objects') = last
      /\ DOMAIN objects = 1 .. Len(objects) /\ DOMAIN objects' = 1 .. last
      /\ \A k \in DOMAIN objects : objects'[k] = objects[k]
      /\ objects'[last].module = index[s]
      /\ errors' \in BOOLEAN
  BY <1>1, <1>3, <1>4, AppendFacts
<1>6. /\ definition' \in [Symbol -> {NotDefined, ByLinker} \cup DOMAIN objects']
      /\ missing' \subseteq Symbol
      /\ cursor' \in [obj : 1 .. (Len(objects') + 1), sym : Nat \ {0}]
      /\ SymbolsOfModules' /\ ReferencesAccounted' /\ MissingIsUndefined'
      /\ DefinitionsEntered' /\ DefinitionsMeant' /\ ScannedIsUnique'
  BY <1>1, <1>2, <1>4, AppendKeepsTables
<1>7. TypeOK'
  <2>1. pc' \in PC
    BY <1>2 DEF PC
  <2>2. QED
    BY <1>2, <1>3, <1>5, <1>6, <2>1 DEF TypeOK
<1>8. CursorInPlace'
  <2>1. cursor.obj = last
    BY <1>2 DEF IInv, CursorInPlace
  <2>2. cursor'.obj <= Len(objects')
    BY <1>2, <1>5, <2>1
  <2>3. QED
    BY <1>2, <2>2 DEF CursorInPlace
<1>9. FilesOpened'
  <2>1. TodoIsRest'
    BY <1>2 DEF IInv, FilesOpened, TodoIsRest, Opened
  <2>2. EachFileKept'
    <3>1. ASSUME NEW k \in 1 .. Opened
          PROVE  IF input.files[k].archive
                 THEN \E a \in DOMAIN archives : archives[a] = input.files[k]
                 ELSE \E j \in DOMAIN objects' : objects'[j].module = input.files[k].members[1]
      <4>1. IF input.files[k].archive
            THEN \E a \in DOMAIN archives : archives[a] = input.files[k]
            ELSE \E j \in DOMAIN objects : objects[j].module = input.files[k].members[1]
        BY DEF IInv, FilesOpened, EachFileKept
      <4>2. DOMAIN objects \subseteq DOMAIN objects'
        BY <1>5
      <4>3. QED
        BY <1>5, <4>1, <4>2
    <3>2. QED
      BY <1>2, <3>1 DEF EachFileKept, Opened
  <2>3. ArchivesGiven'
    BY <1>2 DEF IInv, FilesOpened, ArchivesGiven
  <2>4. objects' # << >>
    BY <1>5, EmptySeq
  <2>5. todo' = << >>
    BY <1>2 DEF IInv, FilesOpened
  <2>6. QED
    BY <1>2, <2>1, <2>2, <2>3, <2>4, <2>5 DEF FilesOpened
<1>10. NoMemberLoadedTwice'
  <2>1. ASSUME NEW i \in DOMAIN objects', NEW j \in DOMAIN objects',
               i < j, objects'[i].module = objects'[j].module
        PROVE  j <= Cardinality(CommandObjects)
    <3>1. i \in DOMAIN objects
      BY <1>5, <2>1
    <3>2. j # last
      BY <1>4, <1>5, <2>1, <3>1
    <3>3. j \in DOMAIN objects
      BY <1>5, <3>2
    <3>4. QED
      BY <1>5, <2>1, <3>1, <3>3 DEF IInv, NoMemberLoadedTwice
  <2>2. CommandObjects' = CommandObjects
    BY <1>2 DEF CommandObjects
  <2>3. QED
    BY <2>1, <2>2 DEF NoMemberLoadedTwice
<1>11. IndexIsRight'
  BY <1>2, IndexFrame
<1>12. SearchedInVain' /\ SearchIsComplete' /\ NothingMissing' /\ NoDanglingReference' /\ SearchHasEnded'
  BY <1>2 DEF SearchedInVain, SearchIsComplete, NothingMissing, NoDanglingReference, SearchHasEnded
<1>13. QED
  BY <1>3, <1>6, <1>7, <1>8, <1>9, <1>10, <1>11, <1>12 DEF IInv

LEMMA NextPlace ==
    ASSUME NEW n \in Nat, NEW a \in 1 .. n
    PROVE  1 \in 1 .. n /\ (a # n => a + 1 \in 1 .. n)
OBVIOUS

LEMMA LeaveArchiveKeeps ==
    ASSUME IInv, LeaveArchive
    PROVE  IInv'
<1>1. /\ pc = "index" /\ pc' \in {"archive", "check"} /\ FoundInIndex = {}
      /\ UNCHANGED <<input, own, todo, objects, archives, definition, missing, cursor, index, errors>>
      /\ \/ /\ pc' = "check" /\ UNCHANGED <<arlist, modified>>
            /\ missing = {} \/ (arlist = Len(archives) /\ ~modified)
         \/ pc' = "archive" /\ arlist = Len(archives) /\ arlist' = 1 /\ modified' = FALSE
         \/ pc' = "archive" /\ arlist # Len(archives) /\ arlist' = arlist + 1 /\ modified' = modified
  BY DEF LeaveArchive, tables, AtLastArchive, AnotherRound
<1>2. TypeOK /\ input \in Input /\ input' \in Input
  BY <1>1 DEF IInv
<1>3. /\ archives \in Seq(File) /\ Len(archives) \in Nat /\ DOMAIN archives = 1 .. Len(archives)
      /\ arlist \in 1 .. Len(archives)
  BY <1>1, <1>2, LenProperties DEF TypeOK, IInv, IndexIsRight
<1>4. pc' = "archive" => arlist' \in DOMAIN archives
  <2> DEFINE last == Len(archives)
  <2>1. last \in Nat /\ arlist \in 1 .. last /\ DOMAIN archives = 1 .. last
    BY <1>3
  <2> HIDE DEF last
  <2>2. 1 \in DOMAIN archives /\ (arlist # last => arlist + 1 \in DOMAIN archives)
    BY <2>1, NextPlace
  <2>3. QED
    BY <1>1, <2>2 DEF last
<1>5. NoHelp(archives[arlist])
  <2>1. \A s \in missing : s \in Symbol /\ index[s] = NoModule
    BY <1>1, <1>2 DEF FoundInIndex, TypeOK
  <2>2. \A s \in missing : \A i \in DOMAIN archives[arlist].members : s \notin Defines(archives[arlist].members[i])
    BY <1>1, <2>1 DEF IInv, IndexIsRight
  <2>3. QED
    BY <2>2 DEF NoHelp
<1>6. ~modified => \A a \in 1 .. arlist : NoHelp(archives[a])
  <2>1. ~modified => \A a \in 1 .. (arlist - 1) : NoHelp(archives[a])
    BY <1>1 DEF IInv, SearchedInVain
  <2>2. \A a \in 1 .. arlist : a = arlist \/ a \in 1 .. (arlist - 1)
    BY <1>3
  <2>3. QED
    BY <1>5, <2>1, <2>2
<1>7. TypeOK'
  <2>1. arlist' \in 0 .. Len(archives)
    <3>1. CASE arlist' = arlist
      BY <1>2, <3>1 DEF TypeOK
    <3>2. CASE pc' = "archive"
      BY <1>3, <1>4, <3>2
    <3>3. QED
      BY <1>1, <3>1, <3>2
  <2>2. modified' \in BOOLEAN
    BY <1>1, <1>2 DEF TypeOK
  <2>3. pc' \in PC
    BY <1>1 DEF PC
  <2>4. QED
    BY <1>1, <1>2, <2>1, <2>2, <2>3 DEF TypeOK
<1>8. CursorInPlace'
  BY <1>1 DEF IInv, CursorInPlace
<1>9. SymbolsOfModules' /\ NoMemberLoadedTwice'
  BY <1>1, ObjectsFrame
<1>10. ReferencesAccounted' /\ MissingIsUndefined' /\ DefinitionsEntered' /\ DefinitionsMeant'
  BY <1>1, TablesFrame
<1>11. ScannedIsUnique'
  BY <1>1, UniqueFrame
<1>12. FilesOpened'
  <2>1. objects # << >>
    BY <1>1 DEF IInv, FilesOpened
  <2>2. QED
    BY <1>1, <2>1, FilesFrame
<1>13. IndexIsRight'
  <2>1. \A s \in Symbol : index[s] # NoModule => s \in Defines(index[s]) /\ InLibrary(index[s])
    BY DEF IInv, IndexIsRight
  <2>2. QED
    BY <1>1, <1>4, <2>1 DEF IndexIsRight, Defines, InLibrary
<1>14. SearchedInVain'
  <2>1. ASSUME pc' = "archive", ~modified', NEW a \in 1 .. (arlist' - 1)
        PROVE  NoHelp(archives[a])
    <3>1. arlist' = arlist + 1 /\ ~modified
      BY <1>1, <2>1
    <3>2. a \in 1 .. arlist
      BY <1>3, <3>1
    <3>3. QED
      BY <1>6, <3>1, <3>2
  <2>2. QED
    BY <1>1, <2>1 DEF SearchedInVain, NoHelp, Defines
<1>15. SearchIsComplete'
  <2>1. CASE pc' # "check"
    BY <2>1 DEF SearchIsComplete
  <2>2. CASE missing = {}
    BY <1>1, <2>2 DEF SearchIsComplete
  <2>3. CASE arlist = Len(archives) /\ ~modified
    <3>1. ASSUME NEW k \in DOMAIN input.files, input.files[k].archive
          PROVE  NoHelp(input.files[k])
      <4>1. PICK a \in DOMAIN archives : archives[a] = input.files[k]
        BY <1>1, <3>1, ArchivesListed
      <4>2. a \in 1 .. arlist
        BY <1>3, <2>3
      <4>3. QED
        BY <1>6, <2>3, <4>1, <4>2
    <3>2. QED
      BY <1>1, <3>1 DEF SearchIsComplete, NoHelp, Defines
  <2>4. QED
    BY <1>1, <2>1, <2>2, <2>3
<1>16. NothingMissing' /\ NoDanglingReference' /\ SearchHasEnded'
  BY <1>1 DEF NothingMissing, NoDanglingReference, SearchHasEnded
<1>17. QED
  BY <1>2, <1>7, <1>8, <1>9, <1>10, <1>11, <1>12, <1>13, <1>14, <1>15, <1>16 DEF IInv

(***************************************************************************)
(* The terms of LibrarySearch, once the files are open.                    *)
(***************************************************************************)
LEMMA LibraryTerms ==
    ASSUME IInv, pc # "open"
    PROVE  /\ \A s : s \in Library!Provided <=> \E k \in DOMAIN objects : s \in Defines(objects[k].module)
           /\ \A s : s \in Library!Needed <=> \E k \in DOMAIN objects : s \in References(objects[k].module)
           /\ objects # << >> => Library!Made = Made
<1> DEFINE loaded  == {objects[k].module : k \in DOMAIN objects}
           program == loaded \cup {input.files[k].members[1] : k \in CommandObjects}
           give    == [m \in Module |-> Defines(m)]
           need    == [m \in Module |-> References(m)]
           made    == [m \in Module |-> (IF m \in input.idata THEN {CInit} ELSE {})
                                         \cup (IF input.stack THEN StackSymbols ELSE {})]
<1>1. TypeOK /\ input \in Input
  BY DEF IInv
<1>2. program = loaded
  <2>1. ASSUME NEW k \in CommandObjects PROVE input.files[k].members[1] \in loaded
    <3>1. todo = << >>
      BY DEF IInv, FilesOpened
    <3>2. Opened = Len(input.files)
      <4>1. Len(input.files) \in Nat
        BY <1>1, InputFacts, LenProperties
      <4>2. QED
        BY <3>1, <4>1 DEF Opened
    <3>3. k \in 1 .. Opened /\ ~input.files[k].archive
      BY <1>1, <3>2, InputFacts, LenProperties DEF CommandObjects
    <3>4. \E j \in DOMAIN objects : objects[j].module = input.files[k].members[1]
      BY <3>3 DEF IInv, FilesOpened, EachFileKept
    <3>5. QED
      BY <3>4
  <2>2. QED
    BY <2>1
<1>3. loaded \subseteq Module
  BY <1>1, ObjectFacts
<1>4. Library!Provided = UNION {give[m] : m \in loaded}
  BY <1>2 DEF Library!Provided
<1>5. Library!Needed = UNION {need[m] : m \in loaded}
  BY <1>2 DEF Library!Needed
<1>6. Library!Made = UNION {made[m] : m \in loaded}
  BY <1>2 DEF Library!Made
<1>7. \A m \in loaded : give[m] = Defines(m) /\ need[m] = References(m)
  BY <1>3
<1>8. ASSUME NEW s
      PROVE  s \in Library!Provided <=> \E k \in DOMAIN objects : s \in Defines(objects[k].module)
  <2>1. s \in Library!Provided <=> \E m \in loaded : s \in give[m]
    BY <1>4
  <2>2. s \in Library!Provided <=> \E m \in loaded : s \in Defines(m)
    BY <1>7, <2>1
  <2>3. QED
    BY <2>2
<1>9. ASSUME NEW s
      PROVE  s \in Library!Needed <=> \E k \in DOMAIN objects : s \in References(objects[k].module)
  <2>1. s \in Library!Needed <=> \E m \in loaded : s \in need[m]
    BY <1>5
  <2>2. s \in Library!Needed <=> \E m \in loaded : s \in References(m)
    BY <1>7, <2>1
  <2>3. QED
    BY <2>2
<1>10. ASSUME objects # << >> PROVE Library!Made = Made
  <2>1. loaded # {}
    <3>1. 1 \in DOMAIN objects
      BY <1>1, <1>10, ObjectFacts, EmptySeq
    <3>2. QED
      BY <3>1
  <2>2. \A m \in loaded : made[m] = (IF m \in input.idata THEN {CInit} ELSE {})
                                     \cup (IF input.stack THEN StackSymbols ELSE {})
    BY <1>3
  <2>3. HasIdata <=> \E m \in loaded : m \in input.idata
    BY DEF HasIdata
  <2> HIDE DEF loaded, made
  <2>4. QED
    BY <1>6, <2>1, <2>2, <2>3 DEF Made
<1>11. QED
  BY <1>8, <1>9, <1>10

(***************************************************************************)
(* Between two symbols the missing table is what LibrarySearch calls       *)
(* unresolved.                                                             *)
(***************************************************************************)
LEMMA MissingIsUnresolved ==
    ASSUME IInv, pc \in {"index", "check"}
    PROVE  missing = Library!Unresolved
<1>1. TypeOK /\ input \in Input
  BY DEF IInv
<1>2. \A k \in DOMAIN objects : \A i \in DOMAIN objects[k].syms : Scanned(k, i)
  <2>1. cursor.obj = Len(objects) + 1
    BY DEF IInv, CursorInPlace
  <2>2. QED
    BY <1>1, <2>1, ObjectFacts DEF Scanned
<1>3. \A k \in DOMAIN objects : objects[k].syms = LoadedSymbols(objects[k].module)
  BY DEF IInv, SymbolsOfModules
<1>4. \A k \in DOMAIN objects : NamesOf(objects[k].syms, TRUE) = References(objects[k].module)
  BY <1>3 DEF References
<1>5. /\ \A s : s \in Library!Provided <=> \E k \in DOMAIN objects : s \in Defines(objects[k].module)
      /\ \A s : s \in Library!Needed <=> \E k \in DOMAIN objects : s \in References(objects[k].module)
  BY LibraryTerms
<1>6. ASSUME NEW s \in missing PROVE s \in Library!Needed /\ s \notin Library!Provided
  <2>1. definition[s] = NotDefined /\ \E k \in DOMAIN objects : s \in References(objects[k].module)
    BY <1>4 DEF IInv, MissingIsUndefined
  <2>2. ASSUME NEW k \in DOMAIN objects, s \in Defines(objects[k].module) PROVE FALSE
    <3>1. objects[k].module \in Module
      BY <1>1, ObjectFacts
    <3>2. PICK i \in DOMAIN objects[k].syms :
             ~objects[k].syms[i].undef /\ objects[k].syms[i].name = s
      BY <1>1, <1>3, <2>2, <3>1, LoadedFacts
    <3>3. definition[s] # NotDefined
      BY <1>2, <3>2 DEF IInv, DefinitionsEntered
    <3>4. QED
      BY <2>1, <3>3
  <2>3. QED
    BY <1>5, <2>1, <2>2
<1>7. ASSUME NEW s \in Library!Needed, s \notin Library!Provided PROVE s \in missing
  <2>1. PICK k \in DOMAIN objects : s \in References(objects[k].module)
    BY <1>5
  <2>2. PICK i \in DOMAIN objects[k].syms :
           objects[k].syms[i].undef = TRUE /\ objects[k].syms[i].name = s
    BY <1>4, <2>1 DEF NamesOf
  <2>3. s \in Symbol
    BY <1>1, <2>2, ObjectFacts
  <2>4. definition[s] # NotDefined \/ s \in missing
    BY <1>2, <2>2 DEF IInv, ReferencesAccounted
  <2>5. ASSUME definition[s] # NotDefined PROVE FALSE
    <3>1. definition[s] \in DOMAIN objects
      BY <1>1, <2>3, <2>5 DEF IInv, DefinitionsMeant, TypeOK
    <3>2. s \in Defines(objects[definition[s]].module)
      BY <2>3, <3>1 DEF IInv, DefinitionsMeant
    <3>3. QED
      BY <1>5, <1>7, <3>1, <3>2
  <2>6. QED
    BY <2>4, <2>5
<1>8. QED
  BY <1>6, <1>7 DEF Library!Unresolved

LEMMA NoMemberHelps ==
    ASSUME IInv, pc = "check", NEW m \in Module
    PROVE  ~Library!Helps(m)
<1>1. missing = Library!Unresolved
  BY MissingIsUnresolved
<1> DEFINE members == UNION {{input.files[k].members[i] : i \in DOMAIN input.files[k].members} :
                                k \in {j \in DOMAIN input.files : input.files[j].archive}}
<1>2. ASSUME m \in members PROVE Defines(m) \cap missing = {}
  <2>1. PICK k \in DOMAIN input.files :
           input.files[k].archive /\ \E i \in DOMAIN input.files[k].members : input.files[k].members[i] = m
    BY <1>2
  <2>2. QED
    BY <2>1 DEF IInv, SearchIsComplete
<1>3. Library!Helps(m) => m \in members /\ [n \in Module |-> Defines(n)][m] \cap Library!Unresolved # {}
  BY DEF Library!Helps
<1>4. [n \in Module |-> Defines(n)][m] = Defines(m)
  OBVIOUS
<1>5. QED
  BY <1>1, <1>2, <1>3, <1>4

LEMMA EndFrame ==
    ASSUME UNCHANGED <<input, objects>>
    PROVE  /\ \A m : Library!Helps(m)' <=> Library!Helps(m)
           /\ Library!Unresolved' = Library!Unresolved
           /\ Library!Made' = Library!Made
<1>1. \A m : Defines(m)' = Defines(m) /\ References(m)' = References(m)
  BY DEF Defines, References, LoadedSymbols
<1>2. CommandObjects' = CommandObjects
  BY DEF CommandObjects
<1>3. Library!Provided' = Library!Provided
  BY <1>1, <1>2 DEF Library!Provided
<1>4. Library!Needed' = Library!Needed
  BY <1>1, <1>2 DEF Library!Needed
<1>5. Library!Made' = Library!Made
  BY <1>2 DEF Library!Made
<1>6. Library!Unresolved' = Library!Unresolved
  BY <1>3, <1>4 DEF Library!Unresolved
<1>7. ASSUME NEW m PROVE Library!Helps(m)' <=> Library!Helps(m)
  BY <1>1, <1>2, <1>6 DEF Library!Helps
<1>8. QED
  BY <1>5, <1>6, <1>7

LEMMA RemoveLinkerSymbolsKeeps ==
    ASSUME IInv, RemoveLinkerSymbols
    PROVE  IInv'
<1>1. /\ pc = "check" /\ pc' \in {"make", "unresolved"}
      /\ missing' = missing \ Made
      /\ pc' = "make" => missing' = {}
      /\ errors' \in BOOLEAN /\ (errors => errors')
      /\ UNCHANGED <<input, own, todo, objects, archives, definition, cursor, arlist, index, modified>>
  BY DEF RemoveLinkerSymbols, search, IInv, TypeOK
<1>2. TypeOK /\ input \in Input /\ input' \in Input
  BY <1>1 DEF IInv
<1>3. Made' = Made
  BY <1>1 DEF Made, HasIdata
<1>4. TypeOK'
  <2>1. missing' \subseteq Symbol /\ pc' \in PC
    BY <1>1, <1>2 DEF TypeOK, PC
  <2>2. QED
    BY <1>1, <1>2, <2>1 DEF TypeOK
<1>5. CursorInPlace'
  BY <1>1 DEF IInv, CursorInPlace
<1>6. SymbolsOfModules' /\ NoMemberLoadedTwice'
  BY <1>1, ObjectsFrame
<1>7. ReferencesAccounted'
  <2> SUFFICES ASSUME NEW k \in DOMAIN objects, NEW i \in DOMAIN objects[k].syms,
                      Scanned(k, i)', objects[k].syms[i].undef
               PROVE  \/ definition[objects[k].syms[i].name] # NotDefined
                      \/ objects[k].syms[i].name \in missing'
                      \/ objects[k].syms[i].name \in Made
    BY <1>1, <1>3 DEF ReferencesAccounted
  <2>1. Scanned(k, i)
    BY <1>1 DEF Scanned
  <2>2. \/ definition[objects[k].syms[i].name] # NotDefined
        \/ objects[k].syms[i].name \in missing
    BY <1>1, <2>1 DEF IInv, ReferencesAccounted
  <2>3. QED
    BY <1>1, <2>2
<1>8. MissingIsUndefined'
  BY <1>1 DEF IInv, MissingIsUndefined
<1>9. DefinitionsEntered'
  BY <1>1 DEF IInv, DefinitionsEntered, Scanned
<1>10. DefinitionsMeant'
  BY <1>1 DEF IInv, DefinitionsMeant, Defines
<1>11. ScannedIsUnique'
  BY <1>1, UniqueFrame
<1>12. FilesOpened'
  <2>1. objects # << >>
    BY <1>1 DEF IInv, FilesOpened
  <2>2. QED
    BY <1>1, <2>1, FilesFrame
<1>13. IndexIsRight'
  BY <1>1, IndexFrame
<1>14. SearchedInVain' /\ SearchIsComplete' /\ NothingMissing' /\ NoDanglingReference'
  BY <1>1 DEF SearchedInVain, SearchIsComplete, NothingMissing, NoDanglingReference
<1>15. SearchHasEnded'
  <2>1. CASE pc' = "make"
    <3>1. \A m \in Module : ~Library!Helps(m)
      BY <1>1, NoMemberHelps
    <3>2. Library!Unresolved = missing
      BY <1>1, MissingIsUnresolved
    <3>3. Library!Made = Made
      BY <1>1, LibraryTerms DEF IInv, FilesOpened
    <3>4. Library!Unresolved \subseteq Library!Made
      BY <1>1, <2>1, <3>2, <3>3
    <3>5. (\A m \in Module : ~Library!Helps(m))'
      BY <1>1, <3>1, EndFrame
    <3>6. (Library!Unresolved \subseteq Library!Made)'
      BY <1>1, <3>4, EndFrame
    <3>7. QED
      BY <3>5, <3>6 DEF SearchHasEnded
  <2>2. CASE pc' = "unresolved"
    BY <2>2 DEF SearchHasEnded
  <2>3. QED
    BY <1>1, <2>1, <2>2
<1>16. QED
  BY <1>2, <1>4, <1>5, <1>6, <1>7, <1>8, <1>9, <1>10, <1>11, <1>12, <1>13, <1>14, <1>15 DEF IInv

LEMMA MakeLinkerSymbolsKeeps ==
    ASSUME IInv, MakeLinkerSymbols
    PROVE  IInv'
<1>1. /\ pc = "make" /\ pc' = "clean"
      /\ definition' = LinkerDefinitions
      /\ own' \subseteq Made
      /\ errors' \in BOOLEAN /\ (errors => errors')
      /\ UNCHANGED <<input, todo, objects, archives, missing, cursor, arlist, index, modified>>
  BY DEF MakeLinkerSymbols, SymbolsAdded, search, IInv, TypeOK
<1>2. TypeOK /\ input \in Input /\ input' \in Input /\ missing = {}
  BY <1>1 DEF IInv, NothingMissing
<1>3. /\ definition' \in [Symbol -> {NotDefined, ByLinker} \cup DOMAIN objects]
      /\ \A s \in Symbol : definition'[s] = definition[s] \/ definition'[s] = ByLinker
      /\ \A s \in Symbol : definition[s] # NotDefined \/ s \in Made => definition'[s] # NotDefined
  BY <1>1, <1>2 DEF LinkerDefinitions, TypeOK, NotDefined, ByLinker
<1>4. \A k \in DOMAIN objects : \A i \in DOMAIN objects[k].syms : objects[k].syms[i].name \in Symbol
  BY <1>2, ObjectFacts
<1>5. TypeOK'
  <2>1. pc' \in PC
    BY <1>1 DEF PC
  <2>2. QED
    BY <1>1, <1>2, <1>3, <2>1, SymbolAssumption DEF TypeOK, Made
<1>6. CursorInPlace'
  BY <1>1 DEF IInv, CursorInPlace
<1>7. SymbolsOfModules' /\ NoMemberLoadedTwice'
  BY <1>1, ObjectsFrame
<1>8. ReferencesAccounted'
  <2> SUFFICES ASSUME NEW k \in DOMAIN objects, NEW i \in DOMAIN objects[k].syms,
                      Scanned(k, i)', objects[k].syms[i].undef
               PROVE  definition'[objects[k].syms[i].name] # NotDefined
    BY <1>1 DEF ReferencesAccounted
  <2>1. Scanned(k, i)
    BY <1>1 DEF Scanned
  <2>2. \/ definition[objects[k].syms[i].name] # NotDefined
        \/ objects[k].syms[i].name \in Made
    BY <1>2, <2>1 DEF IInv, ReferencesAccounted
  <2>3. QED
    BY <1>3, <1>4, <2>2
<1>9. MissingIsUndefined'
  BY <1>1, <1>2 DEF MissingIsUndefined
<1>10. DefinitionsEntered'
  <2> SUFFICES ASSUME NEW k \in DOMAIN objects, NEW i \in DOMAIN objects[k].syms,
                      Scanned(k, i)', ~objects[k].syms[i].undef
               PROVE  definition'[objects[k].syms[i].name] # NotDefined
    BY <1>1 DEF DefinitionsEntered
  <2>1. Scanned(k, i)
    BY <1>1 DEF Scanned
  <2>2. definition[objects[k].syms[i].name] # NotDefined
    BY <2>1 DEF IInv, DefinitionsEntered
  <2>3. QED
    BY <1>3, <1>4, <2>2
<1>11. DefinitionsMeant'
  <2>1. ASSUME NEW s \in Symbol, definition'[s] \in DOMAIN objects
        PROVE  s \in Defines(objects[definition'[s]].module)
    <3>1. ByLinker \notin DOMAIN objects
      BY <1>2, ObjectFacts DEF ByLinker
    <3>2. definition'[s] = definition[s]
      BY <1>3, <2>1, <3>1
    <3>3. QED
      BY <2>1, <3>2 DEF IInv, DefinitionsMeant
  <2>2. QED
    BY <1>1, <2>1 DEF DefinitionsMeant, Defines
<1>12. ScannedIsUnique'
  BY <1>1, UniqueFrame
<1>13. FilesOpened'
  <2>1. objects # << >>
    BY <1>1 DEF IInv, FilesOpened
  <2>2. QED
    BY <1>1, <2>1, FilesFrame
<1>14. IndexIsRight'
  BY <1>1, IndexFrame
<1>15. SearchedInVain' /\ SearchIsComplete' /\ NothingMissing' /\ NoDanglingReference'
  BY <1>1, <1>2 DEF SearchedInVain, SearchIsComplete, NothingMissing, NoDanglingReference
<1>16. SearchHasEnded'
  <2>1. (\A m \in Module : ~Library!Helps(m)) /\ Library!Unresolved \subseteq Library!Made
    BY <1>1 DEF IInv, SearchHasEnded
  <2>2. (\A m \in Module : ~Library!Helps(m))'
    BY <1>1, <2>1, EndFrame
  <2>3. (Library!Unresolved \subseteq Library!Made)'
    BY <1>1, <2>1, EndFrame
  <2>4. QED
    BY <2>2, <2>3 DEF SearchHasEnded
<1>17. QED
  BY <1>2, <1>5, <1>6, <1>7, <1>8, <1>9, <1>10, <1>11, <1>12, <1>13, <1>14, <1>15, <1>16 DEF IInv

(***************************************************************************)
(* The assertion of gp_cofflink_clean_table: everything that is referred   *)
(* to is defined when it is called.                                        *)
(***************************************************************************)
LEMMA CleanTableFacts ==
    ASSUME IInv, CleanTable
    PROVE  /\ pc = "clean" /\ pc' = "linked"
           /\ objects' \in Seq(ObjectType) /\ Len(objects') = Len(objects) /\ DOMAIN objects' = DOMAIN objects
           /\ \A k \in DOMAIN objects :
                 /\ objects'[k].module = objects[k].module
                 /\ objects'[k].syms = WithoutReferences(objects[k].syms)
           /\ UNCHANGED <<input, own, todo, archives, definition, missing, cursor, arlist, index, modified, errors>>
<1> DEFINE rest == [k \in DOMAIN objects |-> [objects[k] EXCEPT !.syms = WithoutReferences(@)]]
<1>1. /\ pc = "clean"
      /\ UNCHANGED <<input, own, todo, archives, definition, missing, cursor, arlist, index, modified, errors>>
  BY DEF CleanTable, tables, search
<1>2. TypeOK /\ missing = {}
  BY <1>1 DEF IInv, NothingMissing
<1>3. ASSUME NEW k \in DOMAIN objects, NEW i \in DOMAIN objects[k].syms, objects[k].syms[i].undef
      PROVE  definition[objects[k].syms[i].name] # NotDefined
  <2>1. cursor.obj = Len(objects) + 1
    BY <1>1 DEF IInv, CursorInPlace
  <2>2. Scanned(k, i)
    BY <1>2, <2>1, ObjectFacts DEF Scanned
  <2>3. QED
    BY <1>1, <1>2, <1>3, <2>2 DEF IInv, ReferencesAccounted
<1>4. pc' = "linked" /\ objects' = rest
  BY <1>3 DEF CleanTable
<1>5. objects \in Seq(ObjectType) /\ Len(objects) \in Nat /\ DOMAIN objects = 1 .. Len(objects)
  BY <1>2, ObjectFacts
<1>6. ASSUME NEW k \in DOMAIN objects
      PROVE  /\ rest[k] \in ObjectType
             /\ rest[k].module = objects[k].module
             /\ rest[k].syms = WithoutReferences(objects[k].syms)
  <2>1. rest[k] = [objects[k] EXCEPT !.syms = WithoutReferences(@)]
    OBVIOUS
  <2>2. objects[k] \in ObjectType /\ objects[k].syms \in Seq(Entry)
    BY <1>2, ObjectFacts
  <2>3. WithoutReferences(objects[k].syms) \in Seq(Entry)
    BY <2>2, WithoutReferencesFacts
  <2>4. QED
    BY <2>1, <2>2, <2>3 DEF ObjectType
<1>7. rest \in Seq(ObjectType) /\ Len(rest) = Len(objects) /\ DOMAIN rest = DOMAIN objects
  <2>1. rest \in [1 .. Len(objects) -> ObjectType]
    BY <1>5, <1>6
  <2> HIDE DEF rest
  <2>2. QED
    BY <1>5, <2>1
<1> HIDE DEF rest
<1>8. QED
  BY <1>1, <1>4, <1>6, <1>7

LEMMA CleanTableKeeps ==
    ASSUME IInv, CleanTable
    PROVE  IInv'
<1>1. /\ pc = "clean" /\ pc' = "linked"
      /\ objects' \in Seq(ObjectType) /\ Len(objects') = Len(objects) /\ DOMAIN objects' = DOMAIN objects
      /\ \A k \in DOMAIN objects :
            /\ objects'[k].module = objects[k].module
            /\ objects'[k].syms = WithoutReferences(objects[k].syms)
      /\ UNCHANGED <<input, own, todo, archives, definition, missing, cursor, arlist, index, modified, errors>>
  BY CleanTableFacts
<1>2. TypeOK /\ input \in Input /\ input' \in Input /\ missing = {}
  BY <1>1 DEF IInv, NothingMissing
<1>3. ASSUME NEW k \in DOMAIN objects
      PROVE  \E origin \in [DOMAIN objects'[k].syms -> DOMAIN objects[k].syms] :
               /\ \A n \in DOMAIN objects'[k].syms :
                     /\ objects'[k].syms[n] = objects[k].syms[origin[n]]
                     /\ ~objects[k].syms[origin[n]].undef
               /\ \A n, m \in DOMAIN objects'[k].syms : origin[n] = origin[m] => n = m
  <2>1. objects[k].syms \in Seq(Entry)
    BY <1>2, ObjectFacts
  <2>2. objects'[k].syms = WithoutReferences(objects[k].syms)
    BY <1>1
  <2>3. \E origin \in [DOMAIN WithoutReferences(objects[k].syms) -> DOMAIN objects[k].syms] :
           /\ \A n \in DOMAIN WithoutReferences(objects[k].syms) :
                 /\ WithoutReferences(objects[k].syms)[n] = objects[k].syms[origin[n]]
                 /\ ~objects[k].syms[origin[n]].undef
           /\ \A n, m \in DOMAIN WithoutReferences(objects[k].syms) : origin[n] = origin[m] => n = m
    BY <2>1, WithoutReferencesFacts
  <2>4. QED
    BY <2>2, <2>3
<1>4. ASSUME NEW k \in DOMAIN objects, NEW n \in DOMAIN objects'[k].syms
      PROVE  \E i \in DOMAIN objects[k].syms :
                objects'[k].syms[n] = objects[k].syms[i] /\ ~objects[k].syms[i].undef
  BY <1>3
<1>5. \A k \in DOMAIN objects : \A i \in DOMAIN objects[k].syms : Scanned(k, i)
  <2>1. cursor.obj = Len(objects) + 1
    BY <1>1 DEF IInv, CursorInPlace
  <2>2. QED
    BY <1>2, <2>1, ObjectFacts DEF Scanned
<1>6. TypeOK'
  <2>1. pc' \in PC
    BY <1>1 DEF PC
  <2>2. QED
    BY <1>1, <1>2, <2>1 DEF TypeOK
<1>7. CursorInPlace'
  BY <1>1 DEF IInv, CursorInPlace
<1>8. SymbolsOfModules'
  BY <1>1 DEF SymbolsOfModules
<1>9. ReferencesAccounted'
  BY <1>1, <1>4 DEF ReferencesAccounted
<1>10. MissingIsUndefined'
  BY <1>1, <1>2 DEF MissingIsUndefined
<1>11. DefinitionsEntered'
  <2>1. ASSUME NEW k \in DOMAIN objects, NEW n \in DOMAIN objects'[k].syms
        PROVE  definition[objects'[k].syms[n].name] # NotDefined
    <3>1. PICK i \in DOMAIN objects[k].syms :
             objects'[k].syms[n] = objects[k].syms[i] /\ ~objects[k].syms[i].undef
      BY <1>4
    <3>2. QED
      BY <1>5, <3>1 DEF IInv, DefinitionsEntered
  <2>2. QED
    BY <1>1, <2>1 DEF DefinitionsEntered
<1>12. DefinitionsMeant'
  BY <1>1 DEF IInv, DefinitionsMeant, Defines
<1>13. ASSUME ~errors,
              NEW k \in DOMAIN objects, NEW h \in DOMAIN objects,
              NEW n \in DOMAIN objects'[k].syms, NEW m \in DOMAIN objects'[h].syms,
              objects'[k].syms[n].name = objects'[h].syms[m].name
       PROVE  k = h /\ n = m
  <2>1. PICK f \in [DOMAIN objects'[k].syms -> DOMAIN objects[k].syms] :
           /\ \A x \in DOMAIN objects'[k].syms :
                 /\ objects'[k].syms[x] = objects[k].syms[f[x]]
                 /\ ~objects[k].syms[f[x]].undef
           /\ \A x, y \in DOMAIN objects'[k].syms : f[x] = f[y] => x = y
    BY <1>3
  <2>2. PICK i \in DOMAIN objects[h].syms :
           objects'[h].syms[m] = objects[h].syms[i] /\ ~objects[h].syms[i].undef
                /\ (h = k => i = f[m])
    <3>1. CASE h = k
      BY <2>1, <3>1
    <3>2. CASE h # k
      BY <1>4, <3>2
    <3>3. QED
      BY <3>1, <3>2
  <2>3. /\ f[n] \in DOMAIN objects[k].syms
        /\ ~objects[k].syms[f[n]].undef
        /\ objects[k].syms[f[n]].name = objects[h].syms[i].name
    BY <1>13, <2>1, <2>2
  <2>4. k = h /\ f[n] = i
    BY <1>5, <1>13, <2>2, <2>3 DEF IInv, ScannedIsUnique
  <2>5. QED
    BY <2>1, <2>2, <2>4
<1>14. ScannedIsUnique'
  BY <1>1, <1>13 DEF ScannedIsUnique
<1>15. FilesOpened'
  <2>1. TodoIsRest' /\ ArchivesGiven'
    BY <1>1 DEF IInv, FilesOpened, TodoIsRest, ArchivesGiven, Opened
  <2>2. EachFileKept'
    <3>1. ASSUME NEW k \in 1 .. Opened
          PROVE  IF input.files[k].archive
                 THEN \E a \in DOMAIN archives : archives[a] = input.files[k]
                 ELSE \E j \in DOMAIN objects : objects'[j].module = input.files[k].members[1]
      BY <1>1 DEF IInv, FilesOpened, EachFileKept
    <3>2. QED
      BY <1>1, <3>1 DEF EachFileKept, Opened
  <2>3. objects' # << >>
    <3>1. objects # << >>
      BY <1>1 DEF IInv, FilesOpened
    <3>2. QED
      BY <1>1, <1>2, <3>1, ObjectFacts, EmptySeq
  <2>4. todo' = << >>
    BY <1>1 DEF IInv, FilesOpened
  <2>5. QED
    BY <1>1, <2>1, <2>2, <2>3, <2>4 DEF FilesOpened
<1>16. NoMemberLoadedTwice'
  BY <1>1 DEF IInv, NoMemberLoadedTwice, CommandObjects
<1>17. IndexIsRight'
  BY <1>1, IndexFrame
<1>18. SearchedInVain' /\ SearchIsComplete' /\ NothingMissing' /\ NoDanglingReference' /\ SearchHasEnded'
  BY <1>1, <1>2 DEF SearchedInVain, SearchIsComplete, NothingMissing, NoDanglingReference, SearchHasEnded
<1>19. QED
  BY <1>2, <1>6, <1>7, <1>8, <1>9, <1>10, <1>11, <1>12, <1>14, <1>15, <1>15, <1>16, <1>17, <1>18 DEF IInv

LEMMA StutterKeeps ==
    ASSUME IInv, UNCHANGED vars
    PROVE  IInv'
<1>1. UNCHANGED <<input, own, pc, todo, objects, archives, definition, missing, cursor, arlist,
                  index, modified, errors>>
  BY DEF vars, tables, search
<1>2. TypeOK' /\ CursorInPlace' /\ ReferencesAccounted' /\ DefinitionsEntered'
  BY <1>1 DEF IInv, TypeOK, CursorInPlace, ReferencesAccounted, DefinitionsEntered, Scanned, Made, HasIdata
<1>3. SymbolsOfModules' /\ MissingIsUndefined' /\ DefinitionsMeant' /\ NoMemberLoadedTwice'
  BY <1>1 DEF IInv, SymbolsOfModules, LoadedSymbols, MissingIsUndefined, DefinitionsMeant, Defines,
              NoMemberLoadedTwice, CommandObjects
<1>4. ScannedIsUnique'
  BY <1>1, UniqueFrame
<1>5. FilesOpened'
  BY <1>1 DEF IInv, FilesOpened, TodoIsRest, EachFileKept, ArchivesGiven, ObjectsGiven, Opened, CommandObjects
<1>6. IndexIsRight'
  BY <1>1, IndexFrame
<1>7. SearchedInVain' /\ SearchIsComplete' /\ NothingMissing' /\ NoDanglingReference'
  BY <1>1 DEF IInv, SearchedInVain, NoHelp, SearchIsComplete, NothingMissing, NoDanglingReference, Defines
<1>8. SearchHasEnded'
  <2>1. CASE pc \in {"make", "clean"}
    <3>1. (\A m \in Module : ~Library!Helps(m)) /\ Library!Unresolved \subseteq Library!Made
      BY <2>1 DEF IInv, SearchHasEnded
    <3>2. (\A m \in Module : ~Library!Helps(m))'
      BY <1>1, <3>1, EndFrame
    <3>3. (Library!Unresolved \subseteq Library!Made)'
      BY <1>1, <3>1, EndFrame
    <3>4. QED
      BY <3>2, <3>3 DEF SearchHasEnded
  <2>2. CASE pc \notin {"make", "clean"}
    BY <1>1, <2>2 DEF SearchHasEnded
  <2>3. QED
    BY <2>1, <2>2
<1>9. input' \in Input
  BY <1>1 DEF IInv
<1>10. QED
  BY <1>2, <1>3, <1>4, <1>5, <1>6, <1>7, <1>8, <1>9 DEF IInv

LEMMA StepKeeps == IInv /\ [Next]_vars => IInv'
<1> SUFFICES ASSUME IInv, [Next]_vars PROVE IInv'
  OBVIOUS
<1>1. CASE OpenObject
  BY <1>1, OpenObjectKeeps
<1>2. CASE OpenArchive
  BY <1>2, OpenArchiveKeeps
<1>3. CASE StartLinker
  BY <1>3, StartLinkerKeeps
<1>4. CASE AddReference
  BY <1>4, AddReferenceKeeps
<1>5. CASE AddDefinition
  BY <1>5, AddDefinitionKeeps
<1>6. CASE NextObject
  BY <1>6, NextObjectKeeps
<1>7. CASE ReadIndex
  BY <1>7, ReadIndexKeeps
<1>8. CASE LoadMember
  BY <1>8, LoadMemberKeeps
<1>9. CASE LeaveArchive
  BY <1>9, LeaveArchiveKeeps
<1>10. CASE RemoveLinkerSymbols
  BY <1>10, RemoveLinkerSymbolsKeeps
<1>11. CASE MakeLinkerSymbols
  BY <1>11, MakeLinkerSymbolsKeeps
<1>12. CASE CleanTable
  BY <1>12, CleanTableKeeps
<1>13. CASE UNCHANGED vars
  BY <1>13, StutterKeeps
<1>14. QED
  BY <1>1, <1>2, <1>3, <1>4, <1>5, <1>6, <1>7, <1>8, <1>9, <1>10, <1>11, <1>12, <1>13 DEF Next

-----------------------------------------------------------------------------
(***************************************************************************)
(* The theorems.                                                           *)
(***************************************************************************)
\* The invariant holds in every state of every link.
THEOREM Invariance == Spec => []IInv
<1>1. Init => IInv
  BY InitHolds
<1>2. IInv /\ [Next]_vars => IInv'
  BY StepKeeps
<1>3. QED
  BY <1>1, <1>2, PTL DEF Spec

\* The prerequisites of _scan_archive: the tables of definitions and of missing
\* symbols divide the references between them, and no member is linked twice.
THEOREM TablesDivide == Spec => []TablesAreSound
<1>1. IInv => TablesAreSound
  BY DEF IInv, TablesAreSound
<1>2. QED
  BY <1>1, Invariance, PTL

\* When gp_cofflink_scan_archives gives up, no archive could have helped.
THEOREM SearchedWell == Spec => []SearchIsComplete
<1>1. IInv => SearchIsComplete
  BY DEF IInv
<1>2. QED
  BY <1>1, Invariance, PTL

\* The assertion of gp_cofflink_clean_table never fails.
THEOREM NeverDangling == Spec => []NoDanglingReference
<1>1. IInv => NoDanglingReference
  BY DEF IInv
<1>2. QED
  BY <1>1, Invariance, PTL

-----------------------------------------------------------------------------
(***************************************************************************)
(* The linker's own definitions.  When it makes one, either no object      *)
(* defines the symbol, or an object does behind a reference.               *)
(***************************************************************************)
LEMMA OwnFrame ==
    ASSUME OwnSymbols, TypeOK, UNCHANGED <<input, own, definition>>, errors => errors',
           DOMAIN objects' = DOMAIN objects,
           \A k \in DOMAIN objects : objects'[k].module = objects[k].module,
           pc \in {"clean", "linked", "dangling"}, pc' \in {"clean", "linked", "dangling"}
    PROVE  OwnSymbols'
<1>1. \A m : /\ Defines(m)' = Defines(m) /\ References(m)' = References(m)
            /\ LoadedSymbols(m)' = LoadedSymbols(m)
  BY DEF Defines, References, LoadedSymbols
<1>2. \A s : DefinedByObject(s)' <=> DefinedByObject(s)
  BY <1>1 DEF DefinedByObject
<1>3. ASSUME NEW s, DefinedBehindReference(s)
      PROVE  DefinedBehindReference(s)'
  <2>1. /\ DOMAIN objects = 1 .. Len(objects) /\ Len(objects) \in Nat
    BY ObjectFacts
  <2>2. \A k \in DOMAIN objects : LoadedSymbols(objects[k].module)' = LoadedSymbols(objects[k].module)
    BY DEF LoadedSymbols
  <2>3. \A k \in DOMAIN objects : References(objects[k].module)' = References(objects[k].module)
    BY DEF References, LoadedSymbols
  <2>4. \A k \in DOMAIN objects : \A h \in 1 .. (k - 1) : h \in DOMAIN objects
    BY <2>1
  <2>5. PICK k \in DOMAIN objects : \E i \in DOMAIN LoadedSymbols(objects[k].module) :
           LET syms == LoadedSymbols(objects[k].module)
           IN  /\ syms[i].name = s /\ ~syms[i].undef
               /\ \/ \E j \in 1 .. (i - 1) : syms[j].name = s /\ syms[j].undef
                  \/ \E h \in 1 .. (k - 1) : s \in References(objects[h].module)
    BY <1>3 DEF DefinedBehindReference
  <2>6. QED
    BY <2>2, <2>3, <2>4, <2>5 DEF DefinedBehindReference
<1>4. \A s : OwnIsSound(s) => OwnIsSound(s)'
  BY <1>2, <1>3 DEF OwnIsSound
<1>5. QED
  BY <1>4 DEF OwnSymbols

LEMMA MakeOwnSymbols ==
    ASSUME IInv, MakeLinkerSymbols
    PROVE  OwnSymbols'
<1> SUFFICES ASSUME ~errors', NEW s \in own'
             PROVE  OwnIsSound(s)'
  BY DEF MakeLinkerSymbols, SymbolsAdded, OwnSymbols
<1>1. /\ pc = "make" /\ pc' = "clean" /\ ~errors
      /\ s \in Made /\ ~FirstIsDefinition(s)
      /\ definition' = LinkerDefinitions
      /\ UNCHANGED <<input, objects>>
  BY DEF MakeLinkerSymbols, SymbolsAdded
<1>2. TypeOK /\ input \in Input
  BY DEF IInv
<1>3. s \in Symbol
  BY <1>1, SymbolAssumption DEF Made
<1>4. \A k \in DOMAIN objects : objects[k].syms = LoadedSymbols(objects[k].module)
  BY <1>1 DEF IInv, SymbolsOfModules
<1>5. \A k \in DOMAIN objects : \A i \in DOMAIN objects[k].syms : Scanned(k, i)
  <2>1. cursor.obj = Len(objects) + 1
    BY <1>1 DEF IInv, CursorInPlace
  <2>2. QED
    BY <1>2, <2>1, ObjectFacts DEF Scanned
<1>6. DefinedByObject(s)' <=> DefinedByObject(s)
  BY <1>1 DEF DefinedByObject, Defines
<1>7. CASE ~DefinedByObject(s)
  <2>1. definition[s] \notin DOMAIN objects /\ definition[s] # ByLinker
    BY <1>1, <1>3, <1>7 DEF IInv, DefinitionsMeant, DefinedByObject
  <2>2. definition[s] = NotDefined
    BY <1>2, <1>3, <2>1 DEF TypeOK
  <2>3. definition'[s] = ByLinker
    BY <1>1, <1>3, <2>2 DEF LinkerDefinitions
  <2>4. QED
    BY <1>6, <1>7, <2>3 DEF OwnIsSound, ByLinker
<1>8. CASE DefinedByObject(s)
  <2>1. PICK k \in DOMAIN objects : s \in Defines(objects[k].module)
    BY <1>8 DEF DefinedByObject
  <2>2. objects[k].module \in Module
    BY <1>2, ObjectFacts
  <2>3. PICK i \in DOMAIN objects[k].syms : ~objects[k].syms[i].undef /\ objects[k].syms[i].name = s
    BY <1>2, <1>4, <2>1, <2>2, LoadedFacts
  <2>4. definition'[s] # ByLinker
    <3>1. definition[s] # NotDefined
      BY <1>5, <2>3 DEF IInv, DefinitionsEntered
    <3>2. definition[s] # ByLinker
      BY <1>1, <1>3 DEF IInv, DefinitionsMeant
    <3>3. QED
      BY <1>1, <1>3, <3>1, <3>2 DEF LinkerDefinitions
  <2>5. \/ \E j \in 1 .. (i - 1) : objects[k].syms[j].name = s
        \/ \E h \in 1 .. (k - 1) : \E j \in DOMAIN objects[h].syms : objects[h].syms[j].name = s
    BY <1>1, <2>3 DEF FirstIsDefinition
  <2>6. DefinedBehindReference(s)
    <3>1. CASE \E j \in 1 .. (i - 1) : objects[k].syms[j].name = s
      <4>1. PICK j \in 1 .. (i - 1) : objects[k].syms[j].name = s
        BY <3>1
      <4>2. j \in DOMAIN objects[k].syms /\ j # i
        BY <1>2, <4>1, ObjectFacts
      <4>3. objects[k].syms[j].undef
        BY <1>1, <1>5, <2>3, <4>1, <4>2 DEF IInv, ScannedIsUnique
      <4>4. QED
        BY <1>4, <2>3, <4>1, <4>3 DEF DefinedBehindReference
    <3>2. CASE \E h \in 1 .. (k - 1) : \E j \in DOMAIN objects[h].syms : objects[h].syms[j].name = s
      <4>1. PICK h \in 1 .. (k - 1) : \E j \in DOMAIN objects[h].syms : objects[h].syms[j].name = s
        BY <3>2
      <4>2. PICK j \in DOMAIN objects[h].syms : objects[h].syms[j].name = s
        BY <4>1
      <4>3. h \in DOMAIN objects /\ h # k
        BY <1>2, <4>1, ObjectFacts
      <4>4. objects[h].syms[j].undef
        BY <1>1, <1>5, <2>3, <4>2, <4>3 DEF IInv, ScannedIsUnique
      <4>5. objects[h].syms[j].undef = TRUE
        BY <1>2, <4>3, <4>4, ObjectFacts
      <4>6. s \in References(objects[h].module)
        BY <1>4, <4>2, <4>3, <4>5 DEF References, NamesOf
      <4>7. QED
        BY <1>4, <2>3, <4>1, <4>6 DEF DefinedBehindReference
    <3>3. QED
      BY <2>5, <3>1, <3>2
  <2>7. DefinedBehindReference(s)'
    BY <1>1, <2>6 DEF DefinedBehindReference, References, LoadedSymbols
  <2>8. QED
    BY <1>6, <1>8, <2>4, <2>7 DEF OwnIsSound, ByLinker
<1>9. QED
  BY <1>7, <1>8

LEMMA OwnStep == IInv /\ OwnSymbols /\ [Next]_vars => OwnSymbols'
<1> SUFFICES ASSUME IInv, OwnSymbols, [Next]_vars PROVE OwnSymbols'
  OBVIOUS
<1>1. CASE MakeLinkerSymbols
  BY <1>1, MakeOwnSymbols
<1>2. CASE CleanTable
  <2>1. /\ pc = "clean" /\ pc' = "linked" /\ UNCHANGED <<input, own, definition, errors>>
        /\ DOMAIN objects' = DOMAIN objects
        /\ \A k \in DOMAIN objects : objects'[k].module = objects[k].module
    BY <1>2, CleanTableFacts
  <2>2. QED
    BY <2>1, OwnFrame DEF IInv
<1>3. CASE UNCHANGED vars
  <2>1. UNCHANGED <<input, own, definition, errors, objects, pc>>
    BY <1>3 DEF vars, tables
  <2>2. CASE pc \in {"clean", "linked", "dangling"}
    BY <2>1, <2>2, OwnFrame DEF IInv
  <2>3. CASE pc \notin {"clean", "linked", "dangling"}
    BY <2>1, <2>3 DEF OwnSymbols
  <2>4. QED
    BY <2>2, <2>3
<1>4. ASSUME pc \in {"open", "objects", "archive", "index", "member", "check"}, own' = own
      PROVE  OwnSymbols'
  BY <1>4 DEF OwnSymbols
<1>5. CASE OpenObject \/ OpenArchive \/ StartLinker \/ AddReference \/ AddDefinition
  <2>1. pc \in {"open", "objects", "archive", "index", "member", "check"} /\ own' = own
    BY <1>5 DEF OpenObject, OpenArchive, StartLinker, AddReference, AddDefinition, AtSymbol
  <2>2. QED
    BY <1>4, <2>1
<1>6. CASE NextObject \/ ReadIndex \/ LoadMember \/ LeaveArchive \/ RemoveLinkerSymbols
  <2>1. pc \in {"open", "objects", "archive", "index", "member", "check"} /\ own' = own
    BY <1>6 DEF NextObject, ReadIndex, LoadMember, LeaveArchive, RemoveLinkerSymbols
  <2>2. QED
    BY <1>4, <2>1
<1>7. QED
  BY <1>1, <1>2, <1>3, <1>5, <1>6 DEF Next

(***************************************************************************)
(* A link without errors has one definition for each external symbol that  *)
(* references go to; where it has two, one is the linker's and the         *)
(* program's stands behind a reference.                                    *)
(***************************************************************************)
THEOREM OneDefinition == Spec => []LinkedIsUnique
<1>1. Init => OwnSymbols
  BY DEF Init, OwnSymbols
<1>2. IInv /\ OwnSymbols => LinkedIsUnique
  <2> SUFFICES ASSUME IInv, OwnSymbols, pc = "linked", ~errors
               PROVE  LinkedIsUnique
    BY DEF LinkedIsUnique
  <2>1. ASSUME NEW i \in DOMAIN objects, NEW k \in DOMAIN objects,
               NEW j \in DOMAIN objects[i].syms, NEW l \in DOMAIN objects[k].syms,
               <<i, j>> # <<k, l>>, ~objects[i].syms[j].undef, ~objects[k].syms[l].undef
        PROVE  objects[i].syms[j].name # objects[k].syms[l].name
    <3>1. cursor.obj = Len(objects) + 1
      BY DEF IInv, CursorInPlace
    <3>2. Scanned(i, j) /\ Scanned(k, l)
      BY <3>1, ObjectFacts DEF Scanned, IInv
    <3>3. QED
      BY <2>1, <3>2 DEF IInv, ScannedIsUnique
  <2>2. \A s \in own : OwnIsSound(s)
    BY DEF OwnSymbols
  <2>3. QED
    BY <2>1, <2>2 DEF LinkedIsUnique, OwnIsSound, DefinedByObject
<1>3. QED
  BY <1>1, <1>2, OwnStep, Invariance, PTL DEF Spec

(***************************************************************************)
(* The refinement of LibrarySearch.                                        *)
(***************************************************************************)
\* Nothing that LibrarySearch speaks of has changed.
LEMMA InputsKept ==
    ASSUME UNCHANGED input
    PROVE  UNCHANGED Library!inputs
<1>1. \A m : Defines(m)' = Defines(m) /\ References(m)' = References(m)
  BY DEF Defines, References, LoadedSymbols
<1>2. QED
  BY <1>1 DEF Library!inputs

LEMMA LibraryInit == Init => Library!Init
<1> SUFFICES ASSUME Init PROVE Library!Init
  OBVIOUS
<1>1. input \in Input /\ objects = << >> /\ DOMAIN objects = {} /\ pc = "open"
  BY DEF Init
<1>2. [m \in Module |-> Defines(m)] \in [Module -> SUBSET Symbol]
  BY <1>1, LoadedFacts
<1>3. [m \in Module |-> References(m)] \in [Module -> SUBSET Symbol]
  BY <1>1, LoadedFacts
<1>4. [m \in Module |-> (IF m \in input.idata THEN {CInit} ELSE {})
                         \cup (IF input.stack THEN StackSymbols ELSE {})] \in [Module -> SUBSET Symbol]
  BY SymbolAssumption
<1>5. UNION {{input.files[k].members[i] : i \in DOMAIN input.files[k].members} :
               k \in {j \in DOMAIN input.files : input.files[j].archive}} \in SUBSET Module
  <2>1. ASSUME NEW k \in DOMAIN input.files, NEW i \in DOMAIN input.files[k].members
        PROVE  input.files[k].members[i] \in Module
    <3>1. input.files[k].members \in Seq(Module)
      BY <1>1, InputFacts
    <3>2. QED
      BY <3>1, LenProperties, ElementOfSeq
  <2>2. QED
    BY <2>1
<1>6. {objects[k].module : k \in DOMAIN objects}
        \cup {input.files[k].members[1] : k \in CommandObjects} \in SUBSET Module
  BY <1>1, InputFacts DEF CommandObjects
<1>7. QED
  BY <1>1, <1>2, <1>3, <1>4, <1>5, <1>6 DEF Library!Init

\* The modules of the program and the outcome, as the INSTANCE names them.
Program ==
    {objects[k].module : k \in DOMAIN objects} \cup {input.files[k].members[1] : k \in CommandObjects}

Outcome ==
    CASE pc = "linked" -> "linked"
      [] pc = "unresolved" -> "unresolved"
      [] pc \in {"rejected", "noindex", "dangling"} -> "stopped"
      [] OTHER -> "searching"

LEMMA OutcomeFacts ==
    /\ pc = "linked" => Outcome = "linked"
    /\ pc = "unresolved" => Outcome = "unresolved"
    /\ pc \in {"rejected", "noindex", "dangling"} => Outcome = "stopped"
    /\ pc \in {"open", "objects", "archive", "index", "member", "check", "make", "clean"}
          => Outcome = "searching"
BY DEF Outcome

\* Steps that load nothing and decide nothing.
LEMMA Stutters ==
    ASSUME UNCHANGED input, Program' = Program, Outcome' = Outcome
    PROVE  UNCHANGED Library!vars
<1>1. UNCHANGED Library!inputs
  BY InputsKept
<1>2. QED
  BY <1>1 DEF Library!vars, Program, Outcome

LEMMA SameProgram ==
    ASSUME UNCHANGED <<input, objects>>
    PROVE  Program' = Program
BY DEF Program, CommandObjects

\* Every step of the linker is a step of LibrarySearch or leaves its state alone.
LEMMA LibraryStep ==
    ASSUME IInv, [Next]_vars
    PROVE  [Library!Next]_(Library!vars)
<1>0. TypeOK /\ input \in Input
  BY DEF IInv
<1>1. CASE OpenObject
  <2>1. UNCHANGED <<input, pc>> /\ todo # << >> /\ todo' = Tail(todo) /\ ~Head(todo).archive
        /\ AppendObject(Head(todo).members[1])
    BY <1>1 DEF OpenObject
  <2>2. /\ Opened + 1 \in DOMAIN input.files /\ Head(todo) = input.files[Opened + 1]
        /\ Head(todo).members[1] \in Module
    BY <2>1, NextFile
  <2>3. /\ DOMAIN objects = 1 .. Len(objects) /\ DOMAIN objects' = 1 .. (Len(objects) + 1) /\ Len(objects) \in Nat
        /\ \A k \in DOMAIN objects : objects'[k] = objects[k]
        /\ objects'[Len(objects) + 1].module = Head(todo).members[1]
    BY <1>0, <2>1, <2>2, AppendFacts
  <2>4. Opened + 1 \in CommandObjects /\ CommandObjects' = CommandObjects
    BY <2>1, <2>2 DEF CommandObjects
  <2>5. Program' = Program
    <3>1. DOMAIN objects' = DOMAIN objects \cup {Len(objects) + 1}
      BY <2>3
    <3>2. {objects'[k].module : k \in DOMAIN objects'}
             = {objects[k].module : k \in DOMAIN objects} \cup {Head(todo).members[1]}
      BY <2>3, <3>1
    <3>3. Head(todo).members[1] \in {input.files[k].members[1] : k \in CommandObjects}
      BY <2>2, <2>4
    <3>4. QED
      BY <2>1, <2>4, <3>2, <3>3 DEF Program
  <2>6. Outcome' = Outcome
    BY <2>1 DEF Outcome
  <2>7. QED
    BY <2>1, <2>5, <2>6, Stutters
<1>2. CASE OpenArchive \/ AddReference \/ AddDefinition
  <2>1. UNCHANGED <<input, objects, pc>>
    BY <1>2 DEF OpenArchive, AddReference, AddDefinition
  <2>2. Outcome' = Outcome
    BY <2>1 DEF Outcome
  <2>3. QED
    BY <2>1, <2>2, SameProgram, Stutters
<1>3. CASE StartLinker \/ ReadIndex
  <2>1. UNCHANGED <<input, objects>> /\ pc \in {"open", "archive"}
        /\ pc' \in {"rejected", "noindex", "objects", "index"}
    BY <1>3 DEF StartLinker, ReadIndex
  <2>2. CASE pc' \in {"objects", "index"}
    <3>1. Outcome = "searching" /\ Outcome' = "searching"
      BY <2>1, <2>2 DEF Outcome
    <3>2. QED
      BY <2>1, <3>1, SameProgram, Stutters
  <2>3. CASE pc' \in {"rejected", "noindex"}
    <3>1. Outcome = "searching" /\ Outcome' = "stopped"
      BY <2>1, <2>3 DEF Outcome
    <3>2. Program' = Program /\ UNCHANGED Library!inputs
      BY <2>1, SameProgram, InputsKept
    <3>3. Library!Stop
      BY <3>1, <3>2 DEF Library!Stop, Program, Outcome
    <3>4. QED
      BY <3>3 DEF Library!Next
  <2>4. QED
    BY <2>1, <2>2, <2>3
<1>4. CASE NextObject \/ LeaveArchive \/ MakeLinkerSymbols
  <2>1. UNCHANGED <<input, objects>>
    BY <1>4 DEF NextObject, LeaveArchive, MakeLinkerSymbols
  <2>2. /\ pc \in {"objects", "member", "index", "make"}
        /\ pc' \in {"objects", "member", "index", "archive", "check", "clean"}
    BY <1>4 DEF NextObject, LeaveArchive, MakeLinkerSymbols
  <2>3. Outcome = "searching" /\ Outcome' = "searching"
    BY <2>2 DEF Outcome
  <2>4. QED
    BY <2>1, <2>3, SameProgram, Stutters
<1>5. CASE LoadMember
  <2>1. PICK s \in FoundInIndex : AppendObject(index[s])
    BY <1>5 DEF LoadMember
  <2>2. pc = "index" /\ pc' = "member" /\ UNCHANGED input
    BY <1>5 DEF LoadMember
  <2> DEFINE m == index[s]
  <2>3. /\ s \in Symbol /\ m \in Module /\ s \in Defines(m) /\ InLibrary(m)
        /\ \A k \in DOMAIN objects : objects[k].module # m
    BY <2>2, FoundIsNew
  <2>4. s \in Library!Unresolved
    BY <2>2, MissingIsUnresolved DEF FoundInIndex
  <2>5. m \notin Program
    <3>1. ASSUME NEW k \in CommandObjects
          PROVE  \E j \in DOMAIN objects : objects[j].module = input.files[k].members[1]
      <4>1. Opened = Len(input.files) /\ Len(input.files) \in Nat
        BY <1>0, <2>2, InputFacts, LenProperties DEF IInv, FilesOpened, Opened
      <4>2. k \in 1 .. Opened /\ ~input.files[k].archive
        BY <1>0, <4>1, InputFacts, LenProperties DEF CommandObjects
      <4>3. QED
        BY <4>2 DEF IInv, FilesOpened, EachFileKept
    <3>2. QED
      BY <2>3, <3>1 DEF Program
  <2>6. m \in UNION {{input.files[k].members[i] : i \in DOMAIN input.files[k].members} :
                       k \in {j \in DOMAIN input.files : input.files[j].archive}}
    BY <2>3 DEF InLibrary
  <2>7. [n \in Module |-> Defines(n)][m] \cap Library!Unresolved # {}
    BY <2>3, <2>4
  <2>8. Library!Helps(m)
    BY <2>5, <2>6, <2>7 DEF Library!Helps, Program
  <2>9. Program' = Program \cup {m}
    <3>1. /\ DOMAIN objects = 1 .. Len(objects) /\ DOMAIN objects' = 1 .. (Len(objects) + 1) /\ Len(objects) \in Nat
          /\ \A k \in DOMAIN objects : objects'[k] = objects[k]
          /\ objects'[Len(objects) + 1].module = m
      BY <1>0, <2>1, <2>3, AppendFacts
    <3>2. DOMAIN objects' = DOMAIN objects \cup {Len(objects) + 1}
      BY <3>1
    <3> HIDE DEF m
    <3>3. {objects'[k].module : k \in DOMAIN objects'} = {objects[k].module : k \in DOMAIN objects} \cup {m}
      BY <3>1, <3>2
    <3>4. CommandObjects' = CommandObjects
      BY <2>2 DEF CommandObjects
    <3>5. QED
      BY <2>2, <3>3, <3>4 DEF Program
  <2>10. Outcome = "searching" /\ Outcome' = "searching"
    BY <2>2 DEF Outcome
  <2>11. UNCHANGED Library!inputs
    BY <2>2, InputsKept
  <2> HIDE DEF m
  <2>12. Library!Load
    BY <2>3, <2>8, <2>9, <2>10, <2>11 DEF Library!Load, Program, Outcome
  <2>13. QED
    BY <2>12 DEF Library!Next
<1>6. CASE RemoveLinkerSymbols
  <2>1. /\ UNCHANGED <<input, objects>> /\ pc = "check" /\ missing' = missing \ Made
        /\ pc' = IF missing' # {} THEN "unresolved" ELSE "make"
    BY <1>6 DEF RemoveLinkerSymbols
  <2>2. CASE pc' = "make"
    <3>1. Outcome = "searching" /\ Outcome' = "searching"
      BY <2>1, <2>2 DEF Outcome
    <3>2. QED
      BY <2>1, <3>1, SameProgram, Stutters
  <2>3. CASE pc' = "unresolved"
    <3>1. Outcome = "searching" /\ Outcome' = "unresolved"
      BY <2>1, <2>3 DEF Outcome
    <3>2. \A m \in Module : ~Library!Helps(m)
      BY <2>1, NoMemberHelps
    <3>3. Library!Unresolved = missing /\ Library!Made = Made
      BY <2>1, MissingIsUnresolved, LibraryTerms DEF IInv, FilesOpened
    <3>4. ~(Library!Unresolved \subseteq Library!Made)
      BY <2>1, <2>3, <3>3
    <3>5. Program' = Program /\ UNCHANGED Library!inputs
      BY <2>1, SameProgram, InputsKept
    <3>6. Library!Finish
      BY <3>1, <3>2, <3>4, <3>5 DEF Library!Finish, Program, Outcome
    <3>7. QED
      BY <3>6 DEF Library!Next
  <2>4. QED
    BY <2>1, <2>2, <2>3
<1>7. CASE CleanTable
  <2>1. /\ pc = "clean" /\ pc' = "linked" /\ UNCHANGED input
        /\ DOMAIN objects' = DOMAIN objects
        /\ \A k \in DOMAIN objects : objects'[k].module = objects[k].module
    BY <1>7, CleanTableFacts
  <2>2. Program' = Program
    BY <2>1 DEF Program, CommandObjects
  <2>3. Outcome = "searching" /\ Outcome' = "linked"
    BY <2>1 DEF Outcome
  <2>4. (\A m \in Module : ~Library!Helps(m)) /\ Library!Unresolved \subseteq Library!Made
    BY <2>1 DEF IInv, SearchHasEnded
  <2>5. UNCHANGED Library!inputs
    BY <2>1, InputsKept
  <2>6. Library!Finish
    BY <2>2, <2>3, <2>4, <2>5 DEF Library!Finish, Program, Outcome
  <2>7. QED
    BY <2>6 DEF Library!Next
<1>8. CASE UNCHANGED vars
  <2>1. UNCHANGED <<input, objects, pc>>
    BY <1>8 DEF vars
  <2>2. Outcome' = Outcome
    BY <2>1 DEF Outcome
  <2>3. QED
    BY <2>1, <2>2, SameProgram, Stutters
<1>9. QED
  BY <1>1, <1>2, <1>3, <1>4, <1>5, <1>6, <1>7, <1>8 DEF Next

\* The walk over objects, archives and indexes is an implementation of the
\* search that LibrarySearch describes without any order.
THEOREM SearchRefines == Spec => ImplementsLibrarySearch
<1>1. Init => Library!Init
  BY LibraryInit
<1>2. IInv /\ [Next]_vars => [Library!Next]_(Library!vars)
  BY LibraryStep
<1>3. QED
  BY <1>1, <1>2, Invariance, PTL DEF Spec, ImplementsLibrarySearch, Library!Spec
=============================================================================
