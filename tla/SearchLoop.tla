----------------------------- MODULE SearchLoop -----------------------------
(***************************************************************************)
(* The loop of _search_memory (gpcofflink.c) over the bytes of a section   *)
(* definition: one step for each address.                                  *)
(***************************************************************************)
EXTENDS MemorySearch

CONSTANTS
    LastAddress   \* addresses run from 0 to LastAddress

ASSUME LastAddressAssumption == LastAddress \in Nat

Address == 0 .. LastAddress
NoSize  == LastAddress + 2     \* stands for (unsigned int)(-1): more than any block

VARIABLES
    used, start, stop, size, stopAtFirst,   \* the arguments
    address, inBlock, currentAddress, currentSize,
    blockAddress, blockSize, success,
    running

arguments == <<used, start, stop, size, stopAtFirst>>
vars == <<arguments, address, inBlock, currentAddress, currentSize,
          blockAddress, blockSize, success, running>>

Init ==
    /\ used \in SUBSET Address
    /\ start \in Address
    /\ stop \in Address
    /\ size \in 0 .. (LastAddress + 1)
    /\ stopAtFirst \in BOOLEAN
    /\ address = start
    /\ inBlock = FALSE
    /\ currentAddress = 0
    /\ currentSize = 0
    /\ blockAddress = 0
    /\ blockSize = NoSize
    /\ success = FALSE
    /\ running = TRUE

\* Mutant of EndBlock: the last of equal blocks.
EndBlockLast(a, n) ==
    LET better == n >= size /\ (stopAtFirst \/ n <= blockSize)
    IN  /\ IF better
           THEN blockAddress' = a /\ blockSize' = n /\ success' = TRUE
           ELSE UNCHANGED <<blockAddress, blockSize, success>>
        /\ running' = ~(stopAtFirst /\ n >= size)

\* A block ends: it is the answer if it is the first, or the smallest so far,
\* that is large enough.
EndBlock(a, n) ==
    LET better == n >= size /\ (stopAtFirst \/ n < blockSize)
    IN  /\ IF better
           THEN blockAddress' = a /\ blockSize' = n /\ success' = TRUE
           ELSE UNCHANGED <<blockAddress, blockSize, success>>
        /\ running' = ~(stopAtFirst /\ n >= size)

NoBlockEnds == UNCHANGED <<blockAddress, blockSize, success, running>>

\* The end of the section definition.
AtStop ==
    /\ running /\ address = stop
    /\ IF inBlock
       THEN /\ currentSize' = currentSize + 1
            /\ EndBlock(currentAddress, currentSize + 1)
            /\ UNCHANGED currentAddress
       ELSE IF start = stop /\ stop \notin used
       THEN /\ currentAddress' = start
            /\ currentSize' = 1
            /\ EndBlock(start, 1)
       ELSE NoBlockEnds /\ UNCHANGED <<currentAddress, currentSize>>
    /\ inBlock' = FALSE
    /\ address' = address + 1
    /\ UNCHANGED arguments

\* A used byte ends a block of unused ones.
AtUsed ==
    /\ running /\ address < stop /\ address \in used
    /\ IF inBlock THEN EndBlock(currentAddress, currentSize) ELSE NoBlockEnds
    /\ inBlock' = FALSE
    /\ address' = address + 1
    /\ UNCHANGED <<arguments, currentAddress, currentSize>>

\* An unused byte starts or continues a block.
AtUnused ==
    /\ running /\ address < stop /\ address \notin used
    /\ currentAddress' = IF inBlock THEN currentAddress ELSE address
    /\ currentSize' = IF inBlock THEN currentSize + 1 ELSE 1
    /\ inBlock' = TRUE
    /\ address' = address + 1
    /\ NoBlockEnds
    /\ UNCHANGED arguments

PastStop == address > stop

Return ==
    /\ running /\ PastStop
    /\ running' = FALSE
    /\ UNCHANGED <<arguments, address, inBlock, currentAddress, currentSize,
                   blockAddress, blockSize, success>>

Next == AtStop \/ AtUsed \/ AtUnused \/ Return

Spec == Init /\ [][Next]_vars /\ WF_vars(Next)

-----------------------------------------------------------------------------
Answer == {b \in {[address |-> blockAddress, size |-> blockSize]} : success}

\* The loop answers what MemorySearch defines: the smallest of the blocks that
\* fit and the lowest of equal ones, or just the first one.
ComputesSearch ==
    ~running => Answer = IF stopAtFirst THEN FirstBlock(used, start, stop, size)
                                        ELSE SmallestBlock(used, start, stop, size)
=============================================================================
