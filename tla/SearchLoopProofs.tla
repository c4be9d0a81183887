---------------------------- MODULE SearchLoopProofs ----------------------------
(***************************************************************************)
(* The loop of _search_memory computes what MemorySearch defines, for      *)
(* every memory, all bounds and sizes, and both ways of searching.         *)
(***************************************************************************)
EXTENDS SearchLoop, TLAPS

(***************************************************************************)
(* A block that the search of a section definition reports is not empty    *)
(* and lies between the first and the last address of the definition.      *)
(***************************************************************************)
LEMMA BlockBounds ==
    ASSUME NEW taken, NEW low \in Int, NEW high \in Int,
           NEW b \in BlocksFound(taken, low, high)
    PROVE  /\ b = [address |-> b.address, size |-> b.size]
           /\ b.address \in Int
           /\ b.size \in Nat \ {0}
           /\ low <= b.address
           /\ b.address + b.size - 1 <= high
           /\ b.address \notin taken
<1>1. CASE \E a, e : /\ a \in Openings(taken, low, high)
                     /\ e \in (low + 1) .. high
                     /\ Closes(taken, low, high, a, e)
                     /\ b = [address |-> a, size |-> e - a + (IF e = high THEN 1 ELSE 0)]
  <2>1. PICK a, e : /\ a \in Openings(taken, low, high)
                    /\ e \in (low + 1) .. high
                    /\ Closes(taken, low, high, a, e)
                    /\ b = [address |-> a, size |-> e - a + (IF e = high THEN 1 ELSE 0)]
    BY <1>1
  <2>2. /\ a \in Int /\ low <= a /\ a < high /\ a \notin taken
        /\ e \in Int /\ a < e /\ e <= high
    BY <2>1 DEF Openings, Closes
  <2>3. b.address = a /\ b.size = e - a + (IF e = high THEN 1 ELSE 0)
    BY <2>1
  <2>4. QED
    BY <2>1, <2>2, <2>3
<1>2. CASE b = [address |-> low, size |-> 1] /\ low = high /\ low \notin taken
  BY <1>2
<1>3. QED
  BY <1>1, <1>2 DEF BlocksFound

(***************************************************************************)
(* The invariant.  The block that is open begins where MemorySearch opens  *)
(* one and is free so far.  Of the blocks that begin before it, or before  *)
(* the address where none is open, the answer is the best.                 *)
(***************************************************************************)
TypeOK ==
    /\ used \in SUBSET Address
    /\ start \in Address
    /\ stop \in Address
    /\ size \in 0 .. (LastAddress + 1)
    /\ stopAtFirst \in BOOLEAN
    /\ address \in Nat
    /\ inBlock \in BOOLEAN
    /\ currentAddress \in Nat /\ currentSize \in Nat
    /\ blockAddress \in Nat /\ blockSize \in Nat
    /\ success \in BOOLEAN
    /\ running \in BOOLEAN

OpenBlock ==
    inBlock => /\ running
               /\ currentAddress \in Openings(used, start, stop)
               /\ currentAddress < address /\ address <= stop
               /\ currentSize = address - currentAddress
               /\ \A i \in (currentAddress + 1) .. (address - 1) : i \notin used

NoOpenBlock ==
    ~inBlock /\ running => \/ address > stop
                           \/ address = start
                           \/ address - 1 \in used /\ address > start

Seen ==
    {b \in Fitting(used, start, stop, size) :
        b.address < IF inBlock THEN currentAddress ELSE address}

Best(b) ==
    /\ b \in Seen
    /\ \A c \in Seen :
          IF stopAtFirst THEN b.address <= c.address
          ELSE b.size < c.size \/ (b.size = c.size /\ b.address <= c.address)

BestSoFar ==
    IF success THEN Best([address |-> blockAddress, size |-> blockSize])
               ELSE Seen = {} /\ blockSize = NoSize

Stopped ==
    /\ running /\ stopAtFirst => ~success
    /\ ~running => address > stop \/ (stopAtFirst /\ success)

IInv ==
    /\ TypeOK
    /\ start <= address
    /\ OpenBlock
    /\ NoOpenBlock
    /\ BestSoFar
    /\ Stopped

-----------------------------------------------------------------------------
(***************************************************************************)
(* The blocks that begin in an open block are the one that it becomes when *)
(* it closes.                                                              *)
(***************************************************************************)
LEMMA ClosedBlock ==
    ASSUME NEW U, NEW first \in Int, NEW last \in Int, NEW a, NEW e,
           a \in Openings(U, first, last), Closes(U, first, last, a, e),
           NEW b
    PROVE  (b \in BlocksFound(U, first, last) /\ a <= b.address /\ b.address <= e)
              <=> b = [address |-> a, size |-> e - a + (IF e = last THEN 1 ELSE 0)]
<1> DEFINE block(x, y) == [address |-> x, size |-> y - x + (IF y = last THEN 1 ELSE 0)]
<1>1. /\ a \in Int /\ first <= a /\ a < last /\ a \notin U
      /\ e \in Int /\ a < e /\ e <= last
      /\ \A i \in (a + 1) .. (e - 1) : i \notin U
      /\ e = last \/ e \in U
  BY DEF Openings, Closes
<1>2. ASSUME b = block(a, e)
      PROVE  b \in BlocksFound(U, first, last) /\ a <= b.address /\ b.address <= e
  <2>1. e \in {x \in (first + 1) .. last : Closes(U, first, last, a, x)}
    BY <1>1
  <2>2. b.address = a
    BY <1>2
  <2>3. QED
    BY <1>1, <1>2, <2>1, <2>2 DEF BlocksFound
<1>3. ASSUME b \in BlocksFound(U, first, last), a <= b.address, b.address <= e
      PROVE  b = block(a, e)
  <2>1. CASE \E x, y : /\ x \in Openings(U, first, last)
                       /\ y \in (first + 1) .. last
                       /\ Closes(U, first, last, x, y)
                       /\ b = block(x, y)
    <3>1. PICK x, y : /\ x \in Openings(U, first, last)
                      /\ y \in (first + 1) .. last
                      /\ Closes(U, first, last, x, y)
                      /\ b = block(x, y)
      BY <2>1
    <3>2. /\ x \in Int /\ x < last /\ x \notin U /\ (x = first \/ x - 1 \in U)
          /\ y \in Int /\ x < y /\ y <= last
          /\ \A i \in (x + 1) .. (y - 1) : i \notin U
          /\ y = last \/ y \in U
          /\ b.address = x
      BY <3>1 DEF Openings, Closes
    <3>3. x = a
      <4> SUFFICES ASSUME x # a PROVE FALSE
        OBVIOUS
      <4>1. a < x /\ x <= e /\ x # first
        BY <1>1, <1>3, <3>2
      <4>2. x - 1 = a \/ x - 1 \in (a + 1) .. (e - 1)
        BY <1>1, <3>2, <4>1
      <4>3. QED
        BY <1>1, <3>2, <4>1, <4>2
    <3>4. y = e
      <4>1. ~(y < e)
        <5> SUFFICES ASSUME y < e PROVE FALSE
          OBVIOUS
        <5>1. y \in (a + 1) .. (e - 1) /\ y # last
          BY <1>1, <3>2, <3>3
        <5>2. QED
          BY <1>1, <3>2, <5>1
      <4>2. ~(e < y)
        <5> SUFFICES ASSUME e < y PROVE FALSE
          OBVIOUS
        <5>1. e \in (x + 1) .. (y - 1) /\ e # last
          BY <1>1, <3>2, <3>3
        <5>2. QED
          BY <1>1, <3>2, <5>1
      <4>3. QED
        BY <1>1, <3>2, <4>1, <4>2
    <3>5. QED
      BY <3>1, <3>3, <3>4
  <2>2. CASE b = [address |-> first, size |-> 1] /\ first = last
    BY <1>1, <2>2
  <2>3. QED
    BY <1>3, <2>1, <2>2 DEF BlocksFound
<1>4. QED
  BY <1>2, <1>3

(***************************************************************************)
(* No block begins behind the last address, and at the last address only   *)
(* one of a definition of one byte.                                        *)
(***************************************************************************)
LEMMA BlocksBegin ==
    ASSUME NEW U, NEW first \in Int, NEW last \in Int, NEW b \in BlocksFound(U, first, last)
    PROVE  \/ /\ b.address \in Openings(U, first, last)
              /\ \E e : Closes(U, first, last, b.address, e)
           \/ first = last /\ first \notin U /\ b = [address |-> first, size |-> 1]
BY DEF BlocksFound

LEMMA SameBeginning ==
    ASSUME NEW U, NEW first \in Int, NEW last \in Int,
           NEW b \in BlocksFound(U, first, last), NEW c \in BlocksFound(U, first, last),
           b.address = c.address
    PROVE  b = c
<1>1. CASE first = last
  <2>1. Openings(U, first, last) = {}
    BY <1>1 DEF Openings
  <2>2. QED
    BY <2>1, BlocksBegin
<1>2. CASE first # last
  <2>1. PICK e : /\ b.address \in Openings(U, first, last)
                 /\ Closes(U, first, last, b.address, e)
    BY <1>2, BlocksBegin
  <2>2. b.address \in Int /\ b.address <= e
    BY <2>1 DEF Openings, Closes
  <2>3. QED
    BY <2>1, <2>2, ClosedBlock
<1>3. QED
  BY <1>1, <1>2

LEMMA SeenBlocks ==
    ASSUME TypeOK, NEW b \in Seen
    PROVE  /\ b \in BlocksFound(used, start, stop) /\ b.size >= size
           /\ b = [address |-> b.address, size |-> b.size]
           /\ b.address \in Int /\ b.size \in Nat \ {0}
           /\ start <= b.address /\ b.address + b.size - 1 <= stop
           /\ b.size < NoSize
<1>1. b \in BlocksFound(used, start, stop) /\ b.size >= size
  BY DEF Seen, Fitting
<1>2. start \in 0 .. LastAddress /\ stop \in 0 .. LastAddress /\ LastAddress \in Nat
  BY LastAddressAssumption DEF TypeOK, Address
<1>3. QED
  BY <1>1, <1>2, BlockBounds DEF NoSize

(***************************************************************************)
(* When a block ends the answer is the best of those seen, if it was so    *)
(* before and the new one begins behind the others.                        *)
(***************************************************************************)
LEMMA EndBlockIsBest ==
    ASSUME TypeOK, BestSoFar, Stopped, running,
           NEW a \in Nat, NEW n \in Nat, n < NoSize,
           EndBlock(a, n), UNCHANGED arguments,
           Seen' = Seen \cup {b \in {[address |-> a, size |-> n]} : n >= size},
           \A b \in Seen : b.address < a
    PROVE  /\ BestSoFar'
           /\ blockAddress' \in Nat /\ blockSize' \in Nat
           /\ success' \in BOOLEAN /\ running' \in BOOLEAN
           /\ running' /\ stopAtFirst' => ~success'
           /\ ~running' => stopAtFirst' /\ success'
<1> DEFINE new    == [address |-> a, size |-> n]
           old    == [address |-> blockAddress, size |-> blockSize]
           better == n >= size /\ (stopAtFirst \/ n < blockSize)
<1>1. /\ size \in Nat /\ stopAtFirst \in BOOLEAN /\ LastAddress \in Nat
      /\ blockAddress \in Nat /\ blockSize \in Nat /\ success \in BOOLEAN
      /\ stopAtFirst' = stopAtFirst
  BY LastAddressAssumption DEF TypeOK, arguments
<1>2. /\ IF better THEN blockAddress' = a /\ blockSize' = n /\ success' = TRUE
                   ELSE UNCHANGED <<blockAddress, blockSize, success>>
      /\ running' = ~(stopAtFirst /\ n >= size)
  BY DEF EndBlock
<1>3. \A b \in Seen : b.address \in Int /\ b.size \in Nat /\ b.size < NoSize
  BY SeenBlocks
<1>4. new.address = a /\ new.size = n /\ old.address = blockAddress /\ old.size = blockSize
  OBVIOUS
<1>5. stopAtFirst => ~success
  BY DEF Stopped
<1>6. success => old \in Seen
  BY DEF BestSoFar, Best
<1>7. ~success => Seen = {} /\ blockSize = NoSize
  BY DEF BestSoFar
<1>8. CASE better
  <2>1. /\ blockAddress' = a /\ blockSize' = n /\ success' = TRUE
        /\ Seen' = Seen \cup {new}
    BY <1>2, <1>8
  <2>2. ASSUME NEW c \in Seen' 
        PROVE  IF stopAtFirst THEN new.address <= c.address
               ELSE new.size < c.size \/ (new.size = c.size /\ new.address <= c.address)
    <3>1. CASE c = new
      BY <1>1, <1>4, <3>1
    <3>2. CASE c \in Seen
      <4>1. success /\ ~stopAtFirst
        BY <1>5, <1>7, <3>2
      <4>2. blockSize < c.size \/ blockSize = c.size
        BY <1>4, <3>2, <4>1 DEF BestSoFar, Best
      <4>3. n < c.size
        BY <1>1, <1>3, <1>8, <3>2, <4>1, <4>2
      <4>4. QED
        BY <1>4, <4>1, <4>3
    <3>3. QED
      BY <2>1, <3>1, <3>2
  <2>3. Best(new)'
    BY <1>1, <1>4, <2>1, <2>2 DEF Best
  <2>4. BestSoFar'
    BY <2>1, <2>3 DEF BestSoFar
  <2>5. QED
    BY <1>1, <1>2, <1>8, <2>1, <2>4
<1>9. CASE ~better
  <2>1. UNCHANGED <<blockAddress, blockSize, success>>
    BY <1>2, <1>9
  <2>2. BestSoFar'
    <3>1. CASE n >= size
      <4>1. ~stopAtFirst /\ blockSize <= n /\ Seen' = Seen \cup {new}
        BY <1>1, <1>9, <3>1
      <4>2. success
        BY <1>1, <1>7, <4>1
      <4>3. old \in Seen /\ old.address < a
        BY <1>6, <4>2
      <4>4. ASSUME NEW c \in Seen'
            PROVE  old.size < c.size \/ (old.size = c.size /\ old.address <= c.address)
        <5>1. CASE c = new
          BY <1>1, <1>4, <4>1, <4>3, <5>1
        <5>2. CASE c \in Seen
          BY <4>1, <4>2, <5>2 DEF BestSoFar, Best
        <5>3. QED
          BY <4>1, <5>1, <5>2
      <4>5. Best(old)'
        BY <1>1, <2>1, <4>1, <4>3, <4>4 DEF Best
      <4>6. QED
        BY <2>1, <4>2, <4>5 DEF BestSoFar
    <3>2. CASE ~(n >= size)
      <4>1. Seen' = Seen
        BY <3>2
      <4>2. QED
        BY <1>1, <2>1, <4>1 DEF BestSoFar, Best
    <3>3. QED
      BY <3>1, <3>2
  <2>3. QED
    BY <1>1, <1>2, <1>5, <1>9, <2>1, <2>2
<1>10. QED
  BY <1>8, <1>9

-----------------------------------------------------------------------------
(***************************************************************************)
(* Every step keeps the invariant.                                         *)
(***************************************************************************)
LEMMA InitIInv == Init => IInv
<1> SUFFICES ASSUME Init PROVE IInv
  OBVIOUS
<1>1. TypeOK
  <2>1. Address \subseteq Nat /\ NoSize \in Nat
    BY LastAddressAssumption DEF Address, NoSize
  <2>2. QED
    BY <2>1 DEF Init, TypeOK
<1>2. Seen = {}
  <2>1. \A b \in Seen : start <= b.address /\ b.address \in Int
    BY <1>1, SeenBlocks
  <2>2. \A b \in Seen : b.address < start
    BY DEF Init, Seen
  <2>3. start \in Int
    BY <1>1, LastAddressAssumption DEF TypeOK, Address
  <2>4. QED
    BY <2>1, <2>2, <2>3
<1>3. start <= address
  BY <1>1, LastAddressAssumption DEF Init, TypeOK, Address
<1>4. QED
  BY <1>1, <1>2, <1>3 DEF Init, IInv, OpenBlock, NoOpenBlock, BestSoFar, Stopped

LEMMA Numbers ==
    ASSUME TypeOK
    PROVE  /\ LastAddress \in Nat
           /\ start \in Nat /\ start <= LastAddress
           /\ stop \in Nat /\ stop <= LastAddress
           /\ size \in Nat
           /\ address \in Nat
           /\ currentAddress \in Nat /\ currentSize \in Nat
           /\ inBlock \in BOOLEAN /\ stopAtFirst \in BOOLEAN
BY LastAddressAssumption DEF TypeOK, Address

LEMMA AtUnusedIInv == IInv /\ AtUnused => IInv'
<1> SUFFICES ASSUME IInv, AtUnused PROVE IInv'
  OBVIOUS
<1>1. TypeOK
  BY DEF IInv
<1>2. /\ running /\ address < stop /\ address \notin used
      /\ currentAddress' = IF inBlock THEN currentAddress ELSE address
      /\ currentSize' = IF inBlock THEN currentSize + 1 ELSE 1
      /\ inBlock' = TRUE /\ address' = address + 1
      /\ UNCHANGED <<used, start, stop, size, stopAtFirst, blockAddress, blockSize, success, running>>
  BY DEF AtUnused, NoBlockEnds, arguments
<1>3. TypeOK'
  BY <1>1, <1>2, Numbers DEF TypeOK
<1>4. start <= address'
  BY <1>1, <1>2, Numbers DEF IInv
<1>5. OpenBlock'
  <2>1. CASE inBlock
    <3>1. \A i \in (currentAddress + 1) .. address : i \notin used
      BY <1>1, <1>2, <2>1, Numbers DEF IInv, OpenBlock
    <3>2. QED
      BY <1>1, <1>2, <2>1, <3>1, Numbers DEF IInv, OpenBlock
  <2>2. CASE ~inBlock
    <3>1. address \in Openings(used, start, stop)
      BY <1>1, <1>2, <2>2, Numbers DEF IInv, NoOpenBlock, Openings
    <3>2. QED
      BY <1>1, <1>2, <2>2, <3>1, Numbers DEF OpenBlock
  <2>3. QED
    BY <2>1, <2>2
<1>6. Seen' = Seen
  BY <1>1, <1>2, Numbers DEF Seen
<1>7. BestSoFar'
  BY <1>2, <1>6 DEF IInv, BestSoFar, Best
<1>8. NoOpenBlock' /\ Stopped'
  BY <1>2 DEF IInv, NoOpenBlock, Stopped
<1>9. QED
  BY <1>2, <1>3, <1>4, <1>5, <1>7, <1>8 DEF IInv

(***************************************************************************)
(* The open block that closes at an address is a block of MemorySearch,    *)
(* and the only one seen anew.                                             *)
(***************************************************************************)
LEMMA OpenBlockCloses ==
    ASSUME IInv, inBlock, address \in used \/ address = stop,
           UNCHANGED arguments, inBlock' = FALSE, address' = address + 1,
           NEW n, n = address - currentAddress + (IF address = stop THEN 1 ELSE 0)
    PROVE  /\ n \in Nat /\ n < NoSize
           /\ Seen' = Seen \cup {b \in {[address |-> currentAddress, size |-> n]} : n >= size}
           /\ \A b \in Seen : b.address < currentAddress
<1> DEFINE new == [address |-> currentAddress, size |-> n]
<1>1. TypeOK
  BY DEF IInv
<1>2. /\ currentAddress \in Openings(used, start, stop)
      /\ currentAddress < address /\ address <= stop
      /\ \A i \in (currentAddress + 1) .. (address - 1) : i \notin used
  BY DEF IInv, OpenBlock
<1>3. Closes(used, start, stop, currentAddress, address)
  BY <1>1, <1>2, Numbers DEF Closes
<1>4. UNCHANGED <<used, start, stop, size>>
  BY DEF arguments
<1>5. n \in Nat /\ n < NoSize
  BY <1>1, <1>2, Numbers DEF NoSize
<1>6. \A b \in Seen : b.address < currentAddress
  BY DEF Seen
<1>7. ASSUME NEW b \in Seen', b \notin Seen
      PROVE  b = new /\ n >= size
  <2>1. b \in Fitting(used, start, stop, size) /\ b.address < address + 1
    BY <1>4, <1>7 DEF Seen
  <2>2. b \in BlocksFound(used, start, stop) /\ b.size >= size /\ b.address \in Int
    BY <1>1, <2>1, Numbers, BlockBounds DEF Fitting
  <2>3. currentAddress <= b.address /\ b.address <= address
    BY <1>1, <1>7, <2>1, <2>2, Numbers DEF Seen
  <2>4. b = new
    BY <1>1, <1>2, <1>3, <2>2, <2>3, Numbers, ClosedBlock
  <2>5. QED
    BY <2>2, <2>4
<1>8. ASSUME n >= size
      PROVE  new \in Seen'
  <2>1. new \in BlocksFound(used, start, stop)
    BY <1>1, <1>2, <1>3, Numbers, ClosedBlock
  <2>2. new \in Fitting(used, start, stop, size)
    BY <1>8, <2>1 DEF Fitting
  <2>3. currentAddress < address + 1
    BY <1>1, <1>2, Numbers
  <2>4. QED
    BY <1>4, <2>2, <2>3 DEF Seen
<1>9. \A b \in Seen : b \in Seen'
  BY <1>1, <1>2, <1>4, Numbers, SeenBlocks DEF Seen
<1>10. QED
  BY <1>5, <1>6, <1>7, <1>8, <1>9

LEMMA AtUsedIInv == IInv /\ AtUsed => IInv'
<1> SUFFICES ASSUME IInv, AtUsed PROVE IInv'
  OBVIOUS
<1>1. TypeOK
  BY DEF IInv
<1>2. /\ running /\ address < stop /\ address \in used
      /\ IF inBlock THEN EndBlock(currentAddress, currentSize) ELSE NoBlockEnds
      /\ inBlock' = FALSE /\ address' = address + 1
      /\ UNCHANGED <<used, start, stop, size, stopAtFirst, currentAddress, currentSize>>
      /\ UNCHANGED arguments
  BY DEF AtUsed, arguments
<1>3. start <= address' /\ address' \in Nat
  BY <1>1, <1>2, Numbers DEF IInv
<1>4. NoOpenBlock' /\ OpenBlock'
  BY <1>1, <1>2, Numbers DEF IInv, NoOpenBlock, OpenBlock
<1>5. CASE inBlock
  <2>1. currentSize = address - currentAddress + (IF address = stop THEN 1 ELSE 0)
    BY <1>1, <1>2, <1>5, Numbers DEF IInv, OpenBlock
  <2>2. /\ currentSize \in Nat /\ currentSize < NoSize
        /\ Seen' = Seen \cup {b \in {[address |-> currentAddress, size |-> currentSize]} :
                                   currentSize >= size}
        /\ \A b \in Seen : b.address < currentAddress
    BY <1>2, <1>5, <2>1, OpenBlockCloses
  <2>3. /\ BestSoFar'
        /\ blockAddress' \in Nat /\ blockSize' \in Nat
        /\ success' \in BOOLEAN /\ running' \in BOOLEAN
        /\ running' /\ stopAtFirst => ~success'
        /\ ~running' => stopAtFirst' /\ success'
    BY <1>1, <1>2, <1>5, <2>2, Numbers, EndBlockIsBest DEF IInv
  <2>4. QED
    BY <1>1, <1>2, <1>3, <1>4, <2>3 DEF IInv, TypeOK, Stopped
<1>6. CASE ~inBlock
  <2>1. UNCHANGED <<blockAddress, blockSize, success, running>>
    BY <1>2, <1>6 DEF NoBlockEnds
  <2>2. \A b \in Fitting(used, start, stop, size) :
           b.address \in Int /\ b.address # address
    BY <1>1, <1>2, Numbers, BlockBounds DEF Fitting
  <2>3. Seen' = Seen
    BY <1>1, <1>2, <1>6, <2>2, Numbers DEF Seen
  <2>4. BestSoFar'
    BY <1>2, <2>1, <2>3 DEF IInv, BestSoFar, Best
  <2>5. QED
    BY <1>1, <1>2, <1>3, <1>4, <2>1, <2>4 DEF IInv, TypeOK, Stopped
<1>7. QED
  BY <1>1, <1>5, <1>6 DEF TypeOK

LEMMA AtStopIInv == IInv /\ AtStop => IInv'
<1> SUFFICES ASSUME IInv, AtStop PROVE IInv'
  OBVIOUS
<1>1. TypeOK
  BY DEF IInv
<1>2. /\ running /\ address = stop
      /\ inBlock' = FALSE /\ address' = address + 1
      /\ UNCHANGED <<used, start, stop, size, stopAtFirst>>
      /\ UNCHANGED arguments
  BY DEF AtStop, arguments
<1>3. start <= address' /\ address' \in Nat /\ address' > stop'
  BY <1>1, <1>2, Numbers DEF IInv
<1>4. NoOpenBlock' /\ OpenBlock'
  BY <1>1, <1>2, <1>3 DEF NoOpenBlock, OpenBlock
<1>5. CASE inBlock
  <2>1. /\ currentSize' = currentSize + 1 /\ currentAddress' = currentAddress
        /\ EndBlock(currentAddress, currentSize + 1)
    BY <1>5 DEF AtStop
  <2>2. currentSize + 1 = address - currentAddress + (IF address = stop THEN 1 ELSE 0)
    BY <1>1, <1>2, <1>5, Numbers DEF IInv, OpenBlock
  <2>3. /\ currentSize + 1 \in Nat /\ currentSize + 1 < NoSize
        /\ Seen' = Seen \cup {b \in {[address |-> currentAddress, size |-> currentSize + 1]} :
                                   currentSize + 1 >= size}
        /\ \A b \in Seen : b.address < currentAddress
    BY <1>2, <1>5, <2>2, OpenBlockCloses
  <2>4. /\ BestSoFar'
        /\ blockAddress' \in Nat /\ blockSize' \in Nat
        /\ success' \in BOOLEAN /\ running' \in BOOLEAN
        /\ running' /\ stopAtFirst => ~success'
        /\ ~running' => stopAtFirst' /\ success'
    BY <1>1, <1>2, <2>1, <2>3, Numbers, EndBlockIsBest DEF IInv
  <2>5. QED
    BY <1>1, <1>2, <1>3, <1>4, <2>1, <2>3, <2>4 DEF IInv, TypeOK, Stopped
<1>6. CASE ~inBlock /\ start = stop /\ stop \notin used
  <2> DEFINE new == [address |-> start, size |-> 1]
  <2>1. /\ currentAddress' = start /\ currentSize' = 1
        /\ EndBlock(start, 1)
    BY <1>6 DEF AtStop
  <2>2. BlocksFound(used, start, stop) = {new}
    <3>1. Openings(used, start, stop) = {}
      BY <1>1, <1>6, Numbers DEF Openings
    <3>2. \A b \in BlocksFound(used, start, stop) : b = new
      BY <1>1, <3>1, Numbers, BlocksBegin
    <3>3. new \in BlocksFound(used, start, stop)
      BY <1>6 DEF BlocksFound
    <3>4. QED
      BY <3>2, <3>3
  <2>3. Fitting(used, start, stop, size) = {b \in {new} : 1 >= size}
    BY <2>2 DEF Fitting
  <2>4. Seen = {}
    BY <1>1, <1>2, <1>6, <2>3, Numbers DEF Seen
  <2>5. Seen' = Seen \cup {b \in {new} : 1 >= size}
    BY <1>1, <1>2, <1>6, <2>3, <2>4, Numbers DEF Seen
  <2>6. 1 < NoSize
    BY <1>1, Numbers DEF NoSize
  <2>7. /\ BestSoFar'
        /\ blockAddress' \in Nat /\ blockSize' \in Nat
        /\ success' \in BOOLEAN /\ running' \in BOOLEAN
        /\ running' /\ stopAtFirst => ~success'
        /\ ~running' => stopAtFirst' /\ success'
    BY <1>1, <1>2, <2>1, <2>4, <2>5, <2>6, Numbers, EndBlockIsBest DEF IInv
  <2>8. QED
    BY <1>1, <1>2, <1>3, <1>4, <2>1, <2>7, Numbers DEF IInv, TypeOK, Stopped
<1>7. CASE ~inBlock /\ ~(start = stop /\ stop \notin used)
  <2>1. UNCHANGED <<blockAddress, blockSize, success, running, currentAddress, currentSize>>
    BY <1>7 DEF AtStop, NoBlockEnds
  <2>2. ASSUME NEW b \in Fitting(used, start, stop, size)
        PROVE  b.address \in Int /\ b.address # address
    <3>1. b \in BlocksFound(used, start, stop) /\ b.address \in Int
      BY <1>1, Numbers, BlockBounds DEF Fitting
    <3>2. b.address \in Openings(used, start, stop)
      BY <1>1, <1>7, <3>1, Numbers, BlocksBegin
    <3>3. QED
      BY <1>1, <1>2, <3>1, <3>2, Numbers DEF Openings
  <2>3. Seen' = Seen
    BY <1>1, <1>2, <1>7, <2>2, Numbers DEF Seen
  <2>4. BestSoFar'
    BY <1>2, <2>1, <2>3 DEF IInv, BestSoFar, Best
  <2>5. QED
    BY <1>1, <1>2, <1>3, <1>4, <2>1, <2>4 DEF IInv, TypeOK, Stopped
<1>8. QED
  BY <1>1, <1>5, <1>6, <1>7 DEF TypeOK

LEMMA ReturnIInv == IInv /\ Return => IInv'
<1> SUFFICES ASSUME IInv, Return PROVE IInv'
  OBVIOUS
<1>1. /\ running' = FALSE /\ address > stop
      /\ UNCHANGED <<used, start, stop, size, stopAtFirst, address, inBlock, currentAddress,
                     currentSize, blockAddress, blockSize, success>>
  BY DEF Return, PastStop, arguments
<1>2. TypeOK
  BY DEF IInv
<1>3. ~inBlock
  BY <1>1, <1>2, Numbers DEF IInv, OpenBlock
<1>4. QED
  BY <1>1, <1>3 DEF IInv, TypeOK, OpenBlock, NoOpenBlock, BestSoFar, Best, Seen, Stopped

LEMMA StutterIInv == IInv /\ UNCHANGED vars => IInv'
BY DEF vars, arguments, IInv, TypeOK, OpenBlock, NoOpenBlock, BestSoFar, Best, Seen, Stopped

THEOREM Invariance == Spec => []IInv
<1>1. Init => IInv
  BY InitIInv
<1>2. IInv /\ [Next]_vars => IInv'
  BY AtStopIInv, AtUsedIInv, AtUnusedIInv, ReturnIInv, StutterIInv DEF Next
<1>3. QED
  BY <1>1, <1>2, PTL DEF Spec

-----------------------------------------------------------------------------
(***************************************************************************)
(* For every memory, all bounds, sizes and both ways of searching, the     *)
(* block that _search_memory reports is the one SectionPlacement places    *)
(* sections in: the smallest that fits and the lowest of these, or the     *)
(* first that fits.                                                        *)
(***************************************************************************)
THEOREM SearchIsComputed == Spec => []ComputesSearch
<1>1. IInv => ComputesSearch
  <2> SUFFICES ASSUME IInv, ~running
               PROVE  Answer = IF stopAtFirst THEN FirstBlock(used, start, stop, size)
                                              ELSE SmallestBlock(used, start, stop, size)
    BY DEF ComputesSearch
  <2> DEFINE fits   == Fitting(used, start, stop, size)
             answer == [address |-> blockAddress, size |-> blockSize]
             As(b)  == \A c \in fits : IF stopAtFirst THEN b.address <= c.address
                          ELSE b.size < c.size \/ (b.size = c.size /\ b.address <= c.address)
  <2>1. TypeOK /\ ~inBlock
    BY DEF IInv, OpenBlock
  <2>2. \A b \in fits : /\ b \in BlocksFound(used, start, stop)
                        /\ b = [address |-> b.address, size |-> b.size]
                        /\ b.address \in Int /\ b.size \in Nat
                        /\ b.address + b.size - 1 <= stop /\ b.size # 0
    BY <2>1, Numbers, BlockBounds DEF Fitting
  <2>3. address > stop => Seen = fits
    BY <2>1, <2>2, Numbers DEF Seen
  <2>4. CASE success
    <3>1. Best(answer) /\ Answer = {answer}
      BY <2>4 DEF IInv, BestSoFar, Answer
    <3>2. answer \in fits
      BY <3>1 DEF Best, Seen
    <3>3. As(answer)
      <4>1. CASE address > stop
        BY <2>3, <3>1, <4>1 DEF Best
      <4>2. CASE stopAtFirst
        <5> SUFFICES ASSUME NEW c \in fits PROVE answer.address <= c.address
          BY <4>2
        <5>1. CASE c \in Seen
          BY <3>1, <4>2, <5>1 DEF Best
        <5>2. CASE c \notin Seen
          <6>1. ~(c.address < address)
            BY <2>1, <5>2 DEF Seen
          <6>2. answer.address < address
            BY <2>1, <3>1 DEF Best, Seen
          <6>3. QED
            BY <2>1, <2>2, <3>2, <6>1, <6>2, Numbers
        <5>3. QED
          BY <5>1, <5>2
      <4>3. QED
        BY <4>1, <4>2 DEF IInv, Stopped
    <3>4. ASSUME NEW b \in fits, As(b)
          PROVE  b = answer
      <4>1. b.address = answer.address
        <5>1. /\ b.address \in Int /\ b.size \in Nat
              /\ answer.address \in Int /\ answer.size \in Nat
          BY <2>2, <3>2
        <5>2. CASE stopAtFirst
          <6>1. b.address <= answer.address /\ answer.address <= b.address
            BY <3>2, <3>3, <3>4, <5>2
          <6>2. QED
            BY <5>1, <6>1
        <5>3. CASE ~stopAtFirst
          <6>1. \/ b.size < answer.size
                \/ b.size = answer.size /\ b.address <= answer.address
            BY <3>2, <3>4, <5>3
          <6>2. \/ answer.size < b.size
                \/ answer.size = b.size /\ answer.address <= b.address
            BY <3>3, <3>4, <5>3
          <6>3. QED
            BY <5>1, <6>1, <6>2
        <5>4. QED
          BY <5>2, <5>3
      <4>2. QED
        BY <2>1, <2>2, <3>2, <4>1, Numbers, SameBeginning
    <3>5. {b \in fits : As(b)} = {answer}
      BY <3>2, <3>3, <3>4
    <3>6. CASE stopAtFirst
      BY <3>1, <3>5, <3>6 DEF FirstBlock
    <3>7. CASE ~stopAtFirst
      BY <3>1, <3>5, <3>7 DEF SmallestBlock
    <3>8. QED
      BY <3>6, <3>7
  <2>5. CASE ~success
    <3>1. Seen = {} /\ Answer = {}
      BY <2>5 DEF IInv, BestSoFar, Answer
    <3>2. fits = {}
      BY <2>3, <2>5, <3>1 DEF IInv, Stopped
    <3>3. QED
      BY <3>1, <3>2 DEF FirstBlock, SmallestBlock
  <2>6. QED
    BY <2>1, <2>4, <2>5 DEF TypeOK
<1>2. QED
  BY <1>1, Invariance, PTL
=============================================================================
