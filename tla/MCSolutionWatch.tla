--------------------------- MODULE MCSolutionWatch ---------------------------
(* Two projects.  In MCChain the second refers to the first.                *)
EXTENDS SolutionWatch

MCApart == {<<{}, {}>>}
MCChain == {<<{}, {1}>>}
MCOverlaps == {}

\* A user who edits the sources of one project and a config of the other.
Undisturbed == (\E c \in undelivered : Callback(c)) \/ Trigger \/ Cycle
SourceNext == ChangeSource(2) \/ ChangeTsconfig(1) \/ Undisturbed
SourceSession == WatchInit /\ [][SourceNext]_watchVars

\* The session stops around the first edit, or when nothing is left to do.
StopNext ==
  /\ WatchNext
  /\ stopped' # stopped => edits <= 1 \/ Quiet
  /\ edits' # edits => ~stopped
StopSession == WatchInit /\ [][StopNext]_watchVars /\ WatchFairness
=============================================================================
