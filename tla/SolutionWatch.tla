---------------------------- MODULE SolutionWatch ----------------------------
(***************************************************************************)
(* build --build --watch (rotor_cli's solution_watch.rs).  Callbacks of    *)
(* the file-system watcher record what changed and trigger the compile     *)
(* gate; one worker thread owns the coordinator of SolutionDrain and runs  *)
(* one cycle at a time: take the events, reload the graph when a config    *)
(* changed, invalidate, drain.  The main thread stops the session.         *)
(* Every watched path reports its changes here, in any order, at any time. *)
(***************************************************************************)
EXTENDS SolutionDrain

VARIABLES
  broken,      \* the tsconfigs as they are now cannot be reloaded
  undelivered, \* changes the watcher has not called back about
  recorded,    \* Shared::events: projects and configs of the next cycle
  triggering,  \* a callback recorded its events and has yet to trigger the gate
  stopped,     \* Shared::stopped
  gatePending, \* GateState::pending
  closed,      \* GateState::closed
  worker,      \* where the worker thread is; the gate's run is everything but the ends
  taken,       \* the events the running cycle took
  lost         \* history: projects whose reported change a cycle forgot

shared == <<recorded, stopped>>
gate == <<gatePending, closed>>
watch == <<broken, undelivered, shared, triggering, gate, worker, taken, lost>>
watchVars == <<vars, watch>>

Changes == [kind : {"source", "tsconfig", "rojo"}, project : Projects]
ConfigChanges == {c \in Changes : c.kind # "source"}
Nothing == [projects |-> {}, configs |-> {}]

\* The worker assembled the coordinator and opened the watches; the first cycle
\* has every project for its events.
WatchInit ==
  /\ Init
  /\ broken = FALSE
  /\ undelivered = {}
  /\ recorded = [projects |-> Projects, configs |-> {}]
  /\ triggering = FALSE
  /\ stopped = FALSE
  /\ gatePending = TRUE
  /\ closed = FALSE
  /\ worker = "waiting"
  /\ taken = Nothing
  /\ lost = {}
-----------------------------------------------------------------------------
(***************************************************************************)
(* The user's edits, which the watcher will call back about.               *)
(***************************************************************************)
Notice(kind, p) ==
  /\ undelivered' = undelivered \cup {[kind |-> kind, project |-> p]}
  /\ UNCHANGED <<shared, triggering, gate, worker, taken, lost>>

ChangeSource(p) == EditSource(p) /\ Notice("source", p) /\ UNCHANGED broken

ChangeTsconfig(p) == EditConfig(p) /\ Notice("tsconfig", p) /\ broken' \in BOOLEAN

\* A Rojo config changes what its project compiles to, never the graph.
ChangeRojo(p) ==
  EditConfig(p) /\ declared' = declared /\ Notice("rojo", p) /\ UNCHANGED broken
-----------------------------------------------------------------------------
(***************************************************************************)
(* A callback: under the lock of Shared it records; then it triggers.      *)
(***************************************************************************)
RecordedAlone(c) ==
  IF c.kind = "source" THEN [Nothing EXCEPT !.projects = {c.project}]
  ELSE [Nothing EXCEPT !.configs = {c}]

\* SolutionWatchEvents::add and add_config.
Recorded(c) ==
  IF c.kind = "source" THEN [recorded EXCEPT !.projects = @ \cup {c.project}]
  ELSE [recorded EXCEPT !.configs = @ \cup {c}]

Callback(c) ==
  /\ c \in undelivered
  /\ undelivered' = undelivered \ {c}
  /\ IF stopped THEN UNCHANGED <<recorded, triggering>>
     ELSE recorded' = Recorded(c) /\ triggering' = TRUE
  /\ UNCHANGED <<vars, broken, stopped, gate, worker, taken, lost>>

Trigger ==
  /\ triggering
  /\ triggering' = FALSE
  /\ gatePending' = TRUE
  /\ UNCHANGED <<vars, broken, undelivered, shared, closed, worker, taken, lost>>
-----------------------------------------------------------------------------
(***************************************************************************)
(* The main thread stops the session: callbacks first, then the gate.      *)
(***************************************************************************)
Stop ==
  /\ ~stopped
  /\ stopped' = TRUE
  /\ UNCHANGED <<vars, broken, undelivered, recorded, triggering, gate, worker, taken, lost>>

Close ==
  /\ stopped /\ ~closed
  /\ closed' = TRUE
  /\ UNCHANGED <<vars, broken, undelivered, shared, triggering, gatePending, worker, taken, lost>>
-----------------------------------------------------------------------------
(***************************************************************************)
(* CompileGate::serve and the cycle it runs.                               *)
(***************************************************************************)
\* The pending flag is cleared before the run, so that a trigger during the run
\* costs one more.
Serve ==
  /\ worker = "waiting"
  /\ gatePending
  /\ gatePending' = FALSE
  /\ worker' = "take"
  /\ UNCHANGED <<vars, broken, undelivered, shared, triggering, closed, taken, lost>>

LeaveOnTrigger == gatePending /\ closed
MayLeave == ~gatePending /\ closed

Leave ==
  /\ worker = "waiting"
  /\ MayLeave
  /\ worker' = "left"
  /\ UNCHANGED <<vars, broken, undelivered, shared, triggering, gate, taken, lost>>

\* A trigger that lost the race against the cycle that took its events costs an
\* empty cycle.
TakeEvents ==
  /\ worker = "take"
  /\ taken' = recorded
  /\ recorded' = Nothing
  /\ worker' = IF recorded = Nothing THEN "waiting"
               ELSE IF recorded.configs # {} THEN "reload"
               ELSE "invalidate"
  /\ UNCHANGED <<vars, broken, undelivered, stopped, triggering, gate, lost>>

Reconfigured(kind) == {c.project : c \in {d \in taken.configs : d.kind = kind}}

TouchedSources == taken.projects
\* A tsconfig names its project in the watch sets; a Rojo config names none.
Touched == taken.projects \cup Reconfigured("tsconfig")

\* The cycle returns early and its events are gone.
ReloadFails ==
  /\ worker = "reload"
  /\ broken
  /\ lost' = lost \cup Touched \cup Reconfigured("rojo")
  /\ taken' = Nothing
  /\ worker' = "waiting"
  /\ UNCHANGED <<vars, broken, undelivered, shared, triggering, gate>>

\* Every project is invalidated only when no project is touched.
ToInvalidate == IF Touched = {} THEN Projects ELSE Touched

ReloadSucceeds ==
  /\ worker = "reload"
  /\ ~broken
  /\ Reload
  /\ taken' = [projects |-> ToInvalidate, configs |-> {}]
  /\ lost' = lost \cup (Reconfigured("rojo") \ ToInvalidate)
  /\ worker' = "invalidate"
  /\ UNCHANGED <<broken, undelivered, shared, triggering, gate>>

\* One project after the other, in any order; what is invalidated is no longer
\* lost, unless a tsconfig change of it still waits for a reload.
InvalidateTaken(p) ==
  /\ worker = "invalidate"
  /\ p \in taken.projects
  /\ Invalidate({p})
  /\ taken' = [taken EXCEPT !.projects = @ \ {p}]
  /\ lost' = {q \in lost : q \notin DependantsOf({p}) \/ reconfigured[q] = "edited"}
  /\ UNCHANGED <<broken, undelivered, shared, triggering, gate, worker>>

StartDrain ==
  /\ worker = "invalidate"
  /\ taken.projects = {}
  /\ worker' = "drain"
  /\ UNCHANGED <<vars, broken, undelivered, shared, triggering, gate, taken, lost>>

DrainStep ==
  /\ worker = "drain"
  /\ \/ RefreshSucceeds \/ StartMerge \/ MergeNext \/ StartSave \/ SaveStep
     \/ \E p \in Projects : Task(p)
  /\ UNCHANGED watch

GatePendingCleared == FALSE
GatePendingKept == gatePending

\* The drain returned, with or without an error; the cycle and the run end.
DrainReturns ==
  /\ worker = "drain"
  /\ RefreshFails \/ DrainFails \/ SaveFails \/ DrainSucceeds
  /\ worker' = "waiting"
  /\ gatePending' = GatePendingKept
  /\ UNCHANGED <<broken, undelivered, shared, triggering, closed, taken, lost>>

Cycle ==
  \/ Serve \/ TakeEvents \/ ReloadFails \/ ReloadSucceeds
  \/ (\E p \in Projects : InvalidateTaken(p))
  \/ StartDrain \/ DrainStep \/ DrainReturns

Over == worker = "left" /\ UNCHANGED watchVars

WatchNext ==
  \/ \E p \in Projects : ChangeSource(p) \/ ChangeTsconfig(p) \/ ChangeRojo(p)
  \/ \E c \in undelivered : Callback(c)
  \/ Trigger
  \/ Stop \/ Close
  \/ Cycle \/ Leave
  \/ Over

WatchSpec == WatchInit /\ [][WatchNext]_watchVars

\* The watcher delivers in the end, every thread goes on, builds end.
WatchFairness ==
  /\ WF_watchVars(\E c \in undelivered : Callback(c))
  /\ WF_watchVars(Trigger)
  /\ WF_watchVars(Close)
  /\ WF_watchVars(Cycle \/ Leave)

FairWatch == WatchSpec /\ WatchFairness
-----------------------------------------------------------------------------
\* The type of every variable of the watch loop.
WatchTypeOK ==
  /\ TypeOK
  /\ broken \in BOOLEAN /\ triggering \in BOOLEAN /\ stopped \in BOOLEAN
  /\ gatePending \in BOOLEAN /\ closed \in BOOLEAN
  /\ undelivered \subseteq Changes
  /\ recorded \in [projects : SUBSET Projects, configs : SUBSET ConfigChanges]
  /\ taken \in [projects : SUBSET Projects, configs : SUBSET ConfigChanges]
  /\ worker \in {"waiting", "take", "reload", "invalidate", "drain", "left"}
  /\ lost \subseteq Projects

\* Whatever interleaving of edits, callbacks, triggers and cycles: between its
\* edit and its invalidation a change is with the watcher, recorded or in the
\* running cycle, unless a failed reload or a Rojo config forgot it.
Coming ==
  {c.project : c \in undelivered \cup recorded.configs \cup taken.configs}
    \cup recorded.projects \cup taken.projects
OnItsWay ==
  ~stopped => \A p \in Projects :
    p \in edited \/ reconfigured[p] # "no" => p \in Coming \cup lost

\* The worker never waits at the gate over recorded events: the gate is pending,
\* or the callback that recorded them is about to make it so.
NoSleepingEvents ==
  worker \in {"waiting", "left"} /\ recorded # Nothing => gatePending \/ triggering

\* The end of the story: nothing is on its way and no cycle forgot a change, so
\* what counts as up to date was built from what is on disk.
Quiet ==
  /\ worker = "waiting" /\ ~gatePending /\ ~triggering /\ ~stopped
  /\ undelivered = {}
QuietMeansFresh == Quiet /\ lost = {} => upToDate \cap behind = {}

\* "rebuilds the projects each batch of file-system events touches": once the configs
\* load again, no project is left built from sources older than a reported edit.
SourceEditsRebuilt ==
  Quiet /\ ~broken => \A p \in upToDate \cap behind : p \notin edited

\* Every edit reaches an invalidation unless a cycle forgets it or the session stops.
EditsArrive ==
  \A p \in Projects : p \in edited ~> p \notin edited \/ p \in lost \/ stopped

\* A stopped session ends, whatever runs and whatever is pending.
StopEnds == stopped ~> worker = "left"
=============================================================================
