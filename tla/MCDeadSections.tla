--------------------------- MODULE MCDeadSections ---------------------------
(***************************************************************************)
(* Objects for DeadSections: all graphs of three sections with up to two   *)
(* relocations each, of four sections with one each, and some with the     *)
(* symbol that has no section.                                             *)
(***************************************************************************)
EXTENDS DeadSections, TLC

Lists(S, n) == UNION {[1 .. m -> S] : m \in 0 .. n}

Objects(n, targets, most) ==
    [sections : [1 .. n -> [keep : BOOLEAN, refs : Lists(targets, most)]], optimize : {TRUE}]

MCInput ==
    Objects(3, 1 .. 3, 2) \cup Objects(4, 1 .. 4, 1) \cup Objects(2, 0 .. 2, 2)
        \cup [sections : [1 .. 2 -> [keep : BOOLEAN, refs : Lists(0 .. 2, 1)]], optimize : {FALSE}]
=============================================================================
