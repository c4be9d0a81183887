------------------------------- MODULE MCGplib -------------------------------
(***************************************************************************)
(* Three members a, b and c for Gplib and a file "d/a" that has the name   *)
(* of the first; two symbols, one of which several files may define.       *)
(***************************************************************************)
EXTENDS Gplib, TLC

MCFiles == {"a", "b", "c", "d/a"}
MCMemberName == [f \in MCFiles |-> IF f = "d/a" THEN "a" ELSE f]
MCObjects == {{}, {"s"}, {"t"}}

MCVersions == ({"a"} \X {{"s"}, {"t"}, NoObject}) \cup ({"b"} \X {{"t"}})
                \cup ({"c"} \X {{}}) \cup ({"d/a"} \X {{"s"}})

MCArguments == {<<f>> : f \in MCFiles} \cup {<<f, g>> : f, g \in MCFiles}
                 \cup {<<"a", "b", "c">>, <<"c", "b", "a">>}
=============================================================================
