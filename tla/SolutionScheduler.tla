-------------------------- MODULE SolutionScheduler --------------------------
(***************************************************************************)
(* rotor_compile's solution_scheduler.rs: a pool of worker threads runs    *)
(* the projects of one drain, each after every project it waits for.  The  *)
(* workers share one mutex (ready, remaining_barriers, remaining, aborted) *)
(* and one condition variable; a critical section is one step here, and a  *)
(* worker that waits on the condition variable is at "blocked" until some  *)
(* thread notifies all of them.                                            *)
(***************************************************************************)
EXTENDS Integers, FiniteSets

CONSTANTS N,            \* tasks, numbered in graph order
          Predecessors, \* Predecessors[t]: projects whose outputs t reads
          Overlaps,     \* pairs of tasks whose write roots overlap
          Workers,      \* min(builders, tasks) worker threads
          NoTask        \* a worker that holds no task

Tasks == 1 .. N

NoWaitOnly == [t \in Tasks |-> {}]

\* derive_wait_only_dependencies: a later project waits for every earlier one
\* whose write roots overlap its own.
WaitOnly == [t \in Tasks |-> {u \in Tasks : u < t /\ {u, t} \in Overlaps}]

\* A predecessor listed twice closes one barrier.
Barriers == [t \in Tasks |-> Predecessors[t] \cup WaitOnly[t]]

\* The graph is dependency-first: a project only refers to earlier ones.
ASSUME GraphAssumption ==
  /\ N \in Nat
  /\ Predecessors \in [Tasks -> SUBSET Tasks]
  /\ \A t \in Tasks : \A p \in Predecessors[t] : p < t
  /\ Overlaps \subseteq SUBSET Tasks

ASSUME WorkersAssumption == IsFiniteSet(Workers) /\ Workers # {} /\ NoTask \notin Tasks

VARIABLES
  ready,              \* SchedulerState::ready, a sorted list: taken from its least
  remainingBarriers,  \* SchedulerState::remaining_barriers
  remaining,          \* SchedulerState::remaining
  aborted,            \* SchedulerState::aborted
  panicked,           \* a panic's payload is kept for the caller
  pool,               \* the workers that could be spawned
  pc,                 \* where each worker is
  holding,            \* the task each worker took last, until it records it
  caller,             \* run_solution_tasks' own thread
  finished            \* history: the tasks whose completion is recorded

vars == <<ready, remainingBarriers, remaining, aborted, panicked, pool, pc,
          holding, caller, finished>>
state == <<ready, remainingBarriers, remaining, aborted>>

(***************************************************************************)
(* A spawn may fail.  When every spawn fails the caller's own thread runs  *)
(* the worker loop, which is a pool of one.                                *)
(***************************************************************************)
Init ==
  /\ ready = {t \in Tasks : Barriers[t] = {}}
  /\ remainingBarriers = [t \in Tasks |-> Cardinality(Barriers[t])]
  /\ remaining = N
  /\ aborted = FALSE
  /\ panicked = FALSE
  /\ pool \in (SUBSET Workers) \ {{}}
  /\ pc = [w \in Workers |-> "idle"]
  /\ holding = [w \in Workers |-> NoTask]
  /\ caller = "joining"
  /\ finished = {}

\* One pass of the wait loop's condition, under the mutex.
Block(w) ==
  /\ pc[w] = "idle"
  /\ ready = {} /\ remaining > 0 /\ ~aborted
  /\ pc' = [pc EXCEPT ![w] = "blocked"]
  /\ UNCHANGED <<state, panicked, pool, holding, caller, finished>>

Leave(w) ==
  /\ pc[w] = "idle"
  /\ remaining = 0 \/ aborted
  /\ pc' = [pc EXCEPT ![w] = "exited"]
  /\ UNCHANGED <<state, panicked, pool, holding, caller, finished>>

MayTake == remaining > 0 /\ ~aborted

\* Graph order goes first among the ready tasks.
Take(w) ==
  /\ pc[w] = "idle"
  /\ MayTake
  /\ \E t \in ready :
       /\ \A u \in ready : t <= u
       /\ holding' = [holding EXCEPT ![w] = t]
       /\ ready' = ready \ {t}
  /\ pc' = [pc EXCEPT ![w] = "run"]
  /\ UNCHANGED <<remainingBarriers, remaining, aborted, panicked, pool, caller, finished>>

\* The project's build returned, with or without an error.
Return(w) ==
  /\ pc[w] = "run"
  /\ pc' = [pc EXCEPT ![w] = "record"]
  /\ UNCHANGED <<state, panicked, pool, holding, caller, finished>>

\* The project's build panicked: the first payload is kept.
Panic(w) ==
  /\ pc[w] = "run"
  /\ panicked' = TRUE
  /\ pc' = [pc EXCEPT ![w] = "abort"]
  /\ UNCHANGED <<state, pool, holding, caller, finished>>

Abort(w) ==
  /\ pc[w] = "abort"
  /\ aborted' = TRUE
  /\ pc' = [pc EXCEPT ![w] = "notifyAbort"]
  /\ UNCHANGED <<ready, remainingBarriers, remaining, panicked, pool, holding, caller, finished>>

Successors(t) == {s \in Tasks : t \in Barriers[s]}

ReleasedAtFirst(t) == Successors(t)
Released(t) == {s \in Successors(t) : remainingBarriers[s] = 1}

\* The task's successors lose a barrier; those that lose their last one are ready.
Record(w) ==
  /\ pc[w] = "record"
  /\ remainingBarriers' = [t \in Tasks |->
       IF t \in Successors(holding[w]) THEN remainingBarriers[t] - 1 ELSE remainingBarriers[t]]
  /\ ready' = ready \cup Released(holding[w])
  /\ remaining' = remaining - 1
  /\ finished' = finished \cup {holding[w]}
  /\ holding' = [holding EXCEPT ![w] = NoTask]
  /\ pc' = [pc EXCEPT ![w] = "notify"]
  /\ UNCHANGED <<aborted, panicked, pool, caller>>

Blocked == {v \in Workers : pc[v] = "blocked"}

WokenNone == pc
Woken == [v \in Workers |-> IF v \in Blocked THEN "idle" ELSE pc[v]]

\* notify_all, after the mutex is released.
Notify(w) ==
  /\ \/ pc[w] = "notify" /\ pc' = [Woken EXCEPT ![w] = "idle"]
     \/ pc[w] = "notifyAbort" /\ pc' = [Woken EXCEPT ![w] = "exited"]
  /\ UNCHANGED <<state, panicked, pool, holding, caller, finished>>

\* The caller joined every worker: it re-raises the first panic or returns.
Join ==
  /\ caller = "joining"
  /\ \A w \in pool : pc[w] = "exited"
  /\ caller' = IF panicked THEN "raised" ELSE "returned"
  /\ UNCHANGED <<state, panicked, pool, pc, holding, finished>>

\* A condition variable may wake a waiter that nobody notified.
Spurious(w) ==
  /\ pc[w] = "blocked"
  /\ pc' = [pc EXCEPT ![w] = "idle"]
  /\ UNCHANGED <<state, panicked, pool, holding, caller, finished>>

Step(w) ==
  \/ Block(w) \/ Leave(w) \/ Take(w) \/ Return(w) \/ Panic(w)
  \/ Abort(w) \/ Record(w) \/ Notify(w)

Ended == caller # "joining" /\ UNCHANGED vars

Next ==
  \/ \E w \in pool : Step(w) \/ Spurious(w)
  \/ Join
  \/ Ended

Spec == Init /\ [][Next]_vars

\* The operating system runs every thread that can run, and a project's build
\* returns or panics in the end.  A spurious wakeup is never owed.
Fairness == WF_vars(Join) /\ \A w \in Workers : WF_vars(w \in pool /\ Step(w))

FairSpec == Spec /\ Fairness
-----------------------------------------------------------------------------
Status(t) ==
  IF t \in finished THEN "done"
  ELSE IF \E w \in Workers : holding[w] = t /\ pc[w] \in {"run", "record"} THEN "running"
  ELSE IF \E w \in Workers : holding[w] = t THEN "crashed"
  ELSE "waiting"

Abstract == INSTANCE OrderedTasks
              WITH barriers <- Barriers, status <- [t \in Tasks |-> Status(t)], stopped <- aborted

\* The threads, the mutex and the condition variable together do nothing the
\* plain dependency order does not allow.
ImplementsOrder == Abstract!Spec
-----------------------------------------------------------------------------
Stages == {"idle", "blocked", "run", "record", "notify", "abort", "notifyAbort", "exited"}

\* The type of every variable of the scheduler; the two counters are unsigned in
\* the code, so a barrier closed twice would underflow them.
TypeOK ==
  /\ ready \subseteq Tasks
  /\ remainingBarriers \in [Tasks -> Nat]
  /\ remaining \in Nat
  /\ aborted \in BOOLEAN
  /\ panicked \in BOOLEAN
  /\ pool \subseteq Workers
  /\ pc \in [Workers -> Stages]
  /\ holding \in [Workers -> Tasks \cup {NoTask}]
  /\ caller \in {"joining", "raised", "returned"}
  /\ finished \subseteq Tasks

Running == {holding[w] : w \in {v \in Workers : pc[v] \in {"run", "record"}}}

\* A project builds only once every project it waits for has been recorded as
\* finished (run_solution_tasks: "runs each task once after all of its barriers
\* close").
BarriersClosed == \A t \in Running : Barriers[t] \subseteq finished

\* Two projects whose write roots overlap never build at the same time.
WriteRootsExclusive ==
  \A t, u \in Running : t # u => {t, u} \notin Overlaps

\* No worker sleeps through work: while one is blocked there is nothing to take
\* and no reason to leave, or another worker is about to wake it.
NoLostWakeup ==
  (\E w \in pool : pc[w] = "blocked") =>
    \/ ready = {} /\ remaining > 0 /\ ~aborted
    \/ \E v \in pool : pc[v] \in {"notify", "notifyAbort"}

\* The caller returns only when every task ran to its end, and a panic of any
\* task is raised again by the caller.
ReturnMeansAllRan ==
  /\ caller = "returned" => finished = Tasks /\ ~panicked
  /\ caller = "raised" => panicked /\ finished # Tasks

\* After the first panic stopped the schedule no further task starts.
NoStartAfterAbort ==
  [][aborted => \A w \in Workers : holding[w] = NoTask => holding'[w] = NoTask]_vars

\* Whatever the workers, the panics and the failed spawns, run_solution_tasks
\* comes back to its caller.
Terminates == <>(caller # "joining")
=============================================================================
