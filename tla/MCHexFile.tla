----------------------------- MODULE MCHexFile -----------------------------
(***************************************************************************)
(* Bytes of three bits, so that blocks have 64 bytes and checksums fail    *)
(* and fit by accident; lines of four bytes.  Memories use the first bytes *)
(* and those around the end of the first block.                            *)
(***************************************************************************)
EXTENDS HexFile

Memories(addresses, bytes) == UNION {[S -> bytes] : S \in SUBSET addresses}

MCImages ==
    Memories(0 .. 3, {1, 6, 7}) \cup Memories(0 .. 8, {5})
        \cup Memories({3, 62, 63, 64, 65, 130}, {1, 7})

\* Files of one and two lines, with a gap, with a second and a third block.
MCFragile == Memories({0, 1, 2}, {1, 6, 7}) \cup Memories({1, 3, 4, 5, 7}, {5}) \cup Memories({62, 63, 64, 130}, {7})
=============================================================================
