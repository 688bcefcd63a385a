--------------------------- MODULE MCCodeIndex ---------------------------
(* Small instances of CodeIndex: two projects with a file each, of which   *)
(* one at a time is configured, or both for the violation; and one project *)
(* with two files that call each other.                                    *)
EXTENDS CodeIndex

MCProjectOf == [f \in Files |-> IF f \in {"a", "aa"} THEN "A" ELSE "B"]
MCVersions == {1, 2}
MCBatches == [v \in MCVersions |-> v]
MCCalls == [f \in Files |-> {g \in Files : MCProjectOf[g] = MCProjectOf[f]}]
OneBatch == [v \in MCVersions |-> 1]
OnlyA == [f \in Files |-> IF f = "a" THEN {"a"} ELSE {}]
EitherProject == {{"A"}, {"B"}}
BothProjects == {{"A"}, {"A", "B"}}
=============================================================================
