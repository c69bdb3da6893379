------------------------- MODULE MCArtifactTransaction -------------------------
(* config.json and globs.json, written or deleted, in the metadata directory, and *)
(* the build info in another one.                                            *)
EXTENDS ArtifactTransaction

MCRequests == {w \in [1 .. 3 -> {"new", Absent}] : w[3] = "new"}
MCHome == [a \in 1 .. 3 |-> IF a = 3 THEN "out" ELSE "metadata"]
===============================================================================
