---------------------------- MODULE OrderedTasks ----------------------------
(***************************************************************************)
(* What a solution build promises about the order of its projects, with no *)
(* threads, locks or queues: in each drain a project starts only when      *)
(* every project it waits for is done, at most one build per project, and  *)
(* nothing starts after a panic stopped the schedule.  SolutionScheduler   *)
(* implements one drain of it, SolutionDrain the drains of a session.      *)
(***************************************************************************)
CONSTANT Tasks        \* the projects of the solution

VARIABLES barriers,   \* barriers[t]: the projects t waits for
          status,     \* what became of each project in this drain
          stopped     \* a panic stopped the schedule

vars == <<barriers, status, stopped>>

Status == {"waiting", "running", "done", "crashed"}

AllWaiting == [t \in Tasks |-> "waiting"]

Init ==
  /\ barriers \in [Tasks -> SUBSET Tasks]
  /\ status = AllWaiting
  /\ stopped = FALSE

MayStart(t) ==
  /\ ~stopped
  /\ status[t] = "waiting"
  /\ \A b \in barriers[t] : status[b] = "done"

Start(t) ==
  /\ MayStart(t)
  /\ status' = [status EXCEPT ![t] = "running"]
  /\ UNCHANGED <<barriers, stopped>>

Finish(t) ==
  /\ status[t] = "running"
  /\ status' = [status EXCEPT ![t] = "done"]
  /\ UNCHANGED <<barriers, stopped>>

\* A project with nothing to build is done as soon as it may start.
Pass(t) ==
  /\ MayStart(t)
  /\ status' = [status EXCEPT ![t] = "done"]
  /\ UNCHANGED <<barriers, stopped>>

Crash(t) ==
  /\ status[t] = "running"
  /\ status' = [status EXCEPT ![t] = "crashed"]
  /\ UNCHANGED <<barriers, stopped>>

Stop ==
  /\ \E t \in Tasks : status[t] = "crashed"
  /\ stopped' = TRUE
  /\ UNCHANGED <<barriers, status>>

\* Once all projects are done the next drain may begin, and until one has started
\* the projects may be given another graph.
NextDrain ==
  /\ \A t \in Tasks : status[t] = "done"
  /\ status' = AllWaiting
  /\ UNCHANGED <<barriers, stopped>>

Regraph ==
  /\ status = AllWaiting
  /\ barriers' \in [Tasks -> SUBSET Tasks]
  /\ UNCHANGED <<status, stopped>>

Next ==
  \/ \E t \in Tasks : Start(t) \/ Finish(t) \/ Pass(t) \/ Crash(t)
  \/ Stop
  \/ NextDrain
  \/ Regraph

Spec == Init /\ [][Next]_vars
=============================================================================
