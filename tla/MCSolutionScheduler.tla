----------------------- MODULE MCSolutionScheduler -----------------------
(* Five projects: 1 is a library, 2 and 3 read it, 4 reads 2 and 3, and 5 *)
(* refers to nobody but writes under 3's output and 4's.                  *)
EXTENDS SolutionScheduler

MCPredecessors == <<{}, {1}, {1}, {2, 3}, {}>>
MCOverlaps == {{3, 5}, {4, 5}}
=============================================================================
