---------------------------- MODULE MemorySearch ----------------------------
(***************************************************************************)
(* What _search_memory of gpcofflink.c answers, as a definition instead of *)
(* its loop over the bytes (SearchLoop has the loop).  "used" is the set   *)
(* of byte addresses already allocated.                                    *)
(***************************************************************************)
EXTENDS Integers

Block == [address : Nat, size : Nat]

\* The loop opens a block at an unused byte, never at the last address ...
Openings(used, start, stop) ==
    {a \in start .. (stop - 1) : a \notin used /\ (a = start \/ a - 1 \in used)}

\* ... and closes it at the next used byte, or at the last address.
Closes(used, start, stop, a, e) ==
    /\ e \in (a + 1) .. stop
    /\ e = stop \/ e \in used
    /\ \A i \in (a + 1) .. (e - 1) : i \notin used

\* The last address counts as part of an open block without a look at its use.
BlocksFound(used, start, stop) ==
    (UNION {{[address |-> a, size |-> e - a + (IF e = stop THEN 1 ELSE 0)] :
              e \in {x \in (start + 1) .. stop : Closes(used, start, stop, a, x)}} :
             a \in Openings(used, start, stop)})
    \cup {[address |-> a, size |-> 1] : a \in {x \in {start} : start = stop /\ x \notin used}}

Fitting(used, start, stop, size) ==
    {b \in BlocksFound(used, start, stop) : b.size >= size}

\* The smallest block that is large enough, the lowest of several.
SmallestBlock(used, start, stop, size) ==
    LET fits == Fitting(used, start, stop, size)
    IN  {b \in fits : \A c \in fits : \/ b.size < c.size
                                      \/ b.size = c.size /\ b.address <= c.address}

\* The first block that is large enough (the parameter Stop_at_first).
FirstBlock(used, start, stop, size) ==
    LET fits == Fitting(used, start, stop, size)
    IN  {b \in fits : \A c \in fits : b.address <= c.address}

\* What a block of memory is: a run of unused bytes.
IsFree(used, a, n) == \A i \in a .. (a + n - 1) : i \notin used
=============================================================================
