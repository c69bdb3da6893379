-------------------------- MODULE MCSolutionDrain --------------------------
(* Three projects: 2 refers to 1; 3 refers to nothing and writes where 2   *)
(* writes, or, in the second graph, refers to 2.                           *)
EXTENDS SolutionDrain

MCGraphs == {<<{}, {1}, {}>>, <<{}, {1}, {2}>>}
MCOverlaps == {{2, 3}}
=============================================================================
