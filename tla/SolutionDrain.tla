---------------------------- MODULE SolutionDrain ----------------------------
(***************************************************************************)
(* The solution coordinator of rotor_compile: which projects are up to     *)
(* date, what a drain builds, skips or blocks, the Flamework state each    *)
(* build publishes for its dependants, and the incremental state the drain *)
(* saves once the whole solution succeeded.  One thread owns it and calls  *)
(* Invalidate, Reload and Drain one after the other; inside a drain the    *)
(* projects build concurrently in the order SolutionScheduler guarantees.  *)
(* The source tree changes under it at any moment.                         *)
(***************************************************************************)
EXTENDS Integers, Sequences, FiniteSets, SequencesExt

CONSTANTS N,          \* emitting projects, numbered in graph order
          Graphs,     \* the reference graphs the tsconfigs may declare
          Flamework,  \* projects with native Flamework state for their dependants
          Overlaps,   \* pairs of projects whose write roots overlap
          Builders,   \* projects built at once
          Steps,      \* persistence steps one build defers
          MaxEdits,   \* bound on the edits of the source tree
          None        \* no blocker

Projects == 1 .. N

ASSUME DrainAssumption ==
  /\ N \in Nat /\ Builders \in Nat \ {0} /\ Steps \in Nat \ {0} /\ MaxEdits \in Nat
  /\ \A g \in Graphs : /\ g \in [Projects -> SUBSET Projects]
                       /\ \A p \in Projects : \A d \in g[p] : d < p
  /\ Flamework \subseteq Projects /\ Overlaps \subseteq SUBSET Projects
  /\ None \notin Projects

VARIABLES
  \* the source tree
  declared,   \* the references the tsconfigs declare now
  config,     \* version of each project's parsed config: options and root files
  edits,      \* edits so far
  \* SolutionCoordinator
  refs,       \* graph: each project's emitting references
  upToDate,   \* states: up_to_date
  blockedBy,  \* states: blocked_by
  pending,    \* pending_projects
  stale,      \* metadata_stale
  parsed,     \* metadata.infos: the config version each info was parsed from
  derived,    \* the config versions the solution metadata was derived from
  queue,      \* persist_queue.order
  steps,      \* persist_queue.persists: the steps left of each project
  \* one drain
  phase,      \* whether a drain runs its tasks, merges or saves
  outcome,    \* what became of each project in the running drain
  blocker,    \* the first failed reference of a blocked project
  merged,     \* how many outcomes are merged into the states
  \* history
  edited,     \* projects edited since the owner last invalidated them
  reconfigured, \* tsconfig edits the owner has not reloaded, or not invalidated since
  behind,     \* projects whose inputs changed since their last build read them
  unpublished, \* projects whose last build has not published its Flamework state
  unsaved,    \* projects whose last successful build has not saved its state
  dropped     \* those whose queued state a reload threw away

world == <<declared, config, edits>>
reports == <<edited, reconfigured>>
states == <<upToDate, blockedBy>>
metadata == <<pending, stale, parsed, derived>>
persists == <<queue, steps, unsaved, dropped>>
drain == <<phase, outcome, blocker, merged>>
vars == <<world, reports, refs, states, metadata, persists, drain, behind, unpublished>>

\* Every project of a coordinator that was just assembled is out of date.
Init ==
  /\ declared \in Graphs
  /\ config = [p \in Projects |-> 0]
  /\ edits = 0
  /\ edited = {}
  /\ reconfigured = [p \in Projects |-> "no"]
  /\ refs = declared
  /\ upToDate = {}
  /\ blockedBy = [p \in Projects |-> None]
  /\ pending = {}
  /\ stale = FALSE
  /\ parsed = config
  /\ derived = config
  /\ queue = <<>>
  /\ steps = [p \in Projects |-> 0]
  /\ phase = "idle"
  /\ outcome = [p \in Projects |-> "none"]
  /\ blocker = [p \in Projects |-> None]
  /\ merged = 0
  /\ behind = Projects
  /\ unpublished = Flamework
  /\ unsaved = {}
  /\ dropped = {}
-----------------------------------------------------------------------------
(***************************************************************************)
(* The source tree.                                                        *)
(***************************************************************************)
\* A source, asset or macro input of p changes; the change may add or remove a
\* root file, which its parsed config shows.
EditSource(p) ==
  /\ edits < MaxEdits
  /\ edits' = edits + 1
  /\ edited' = edited \cup {p}
  /\ behind' = behind \cup {p}
  /\ config' \in {config, [config EXCEPT ![p] = @ + 1]}
  /\ UNCHANGED <<declared, reconfigured, refs, states, metadata, persists, drain, unpublished>>

\* p's tsconfig changes, and with it, perhaps, what p refers to.
EditConfig(p) ==
  /\ edits < MaxEdits
  /\ edits' = edits + 1
  /\ reconfigured' = [reconfigured EXCEPT ![p] = "edited"]
  /\ behind' = behind \cup {p}
  /\ config' = [config EXCEPT ![p] = @ + 1]
  /\ declared' \in {g \in Graphs : \A q \in Projects \ {p} : g[q] = declared[q]}
  /\ UNCHANGED <<edited, refs, states, metadata, persists, drain, unpublished>>
-----------------------------------------------------------------------------
(***************************************************************************)
(* Invalidate and Reload.                                                  *)
(***************************************************************************)
JustThem(S) == S

\* S and every project that refers to one of them, directly or not: the least
\* set that holds S and is closed under "refers to".
DependantsOf(S) ==
  {p \in Projects : \A T \in SUBSET Projects :
     S \subseteq T /\ (\A q \in Projects : refs[q] \cap T # {} => q \in T) => p \in T}

MarkOutOfDate(S) ==
  /\ upToDate' = upToDate \ S
  /\ blockedBy' = [p \in Projects |-> IF p \in S THEN None ELSE blockedBy[p]]
  /\ pending' = pending \cup S
  /\ edited' = edited \ S
  /\ reconfigured' = [p \in Projects |->
       IF p \in S /\ reconfigured[p] = "reloaded" THEN "no" ELSE reconfigured[p]]

Invalidate(S) ==
  /\ phase = "idle"
  /\ MarkOutOfDate(DependantsOf(S))
  /\ UNCHANGED <<world, refs, stale, parsed, derived, persists, drain, behind, unpublished>>

\* The reloaded graph keeps its projects' states, takes every config as it is now
\* and starts with an empty persistence queue.  A reload that finds a broken
\* config or an invalid solution changes nothing.
Reload ==
  /\ phase = "idle"
  /\ refs' = declared
  /\ parsed' = config
  /\ derived' = config
  /\ pending' = {}
  /\ stale' = FALSE
  /\ queue' = <<>>
  /\ steps' = [p \in Projects |-> 0]
  /\ dropped' = unsaved
  /\ reconfigured' = [p \in Projects |->
       IF reconfigured[p] = "edited" THEN "reloaded" ELSE reconfigured[p]]
  /\ UNCHANGED <<world, edited, states, unsaved, drain, behind, unpublished>>
-----------------------------------------------------------------------------
(***************************************************************************)
(* A drain: refresh the metadata, run the tasks, merge, save.              *)
(***************************************************************************)
\* The pending configs parse to something else than the cached infos hold.
ParseChanged == \E p \in pending : parsed[p] # config[p]

Parse == parsed' = [p \in Projects |-> IF p \in pending THEN config[p] ELSE parsed[p]]

StaleForgotten == ParseChanged
StaleAfterParse == stale \/ ParseChanged

StartTasks ==
  /\ phase' = "tasks"
  /\ outcome' = [p \in Projects |-> "waiting"]
  /\ blocker' = [p \in Projects |-> None]
  /\ merged' = 0

\* The drain returns the refresh's error before it runs any task; the pending
\* projects stay pending, and parsed infos nothing was derived from stay stale.
RefreshFails ==
  /\ phase = "idle"
  /\ Parse
  /\ stale' = StaleAfterParse
  /\ UNCHANGED <<world, reports, refs, states, pending, derived, persists, drain, behind, unpublished>>

RefreshSucceeds ==
  /\ phase = "idle"
  /\ Parse
  /\ derived' = IF StaleAfterParse THEN parsed' ELSE derived
  /\ pending' = {}
  /\ stale' = FALSE
  /\ StartTasks
  /\ UNCHANGED <<world, reports, refs, states, persists, behind, unpublished>>

Ended == {"skipped", "built", "failed", "blocked"}
Bad == {"failed", "blocked"}

\* The scheduler's barriers: the references, and earlier projects that write
\* where p writes.
Barriers(p) == refs[p] \cup {q \in Projects : q < p /\ {p, q} \in Overlaps}

Building == {p \in Projects : outcome[p] = "building"}

ClosedBySuccess(p) == \A b \in Barriers(p) : outcome[b] \in {"built", "skipped"}
ReferencesClosed(p) == \A b \in refs[p] : outcome[b] \in Ended
BarriersClosed(p) == \A b \in Barriers(p) : outcome[b] \in Ended

CanStart(p) ==
  /\ phase = "tasks"
  /\ outcome[p] = "waiting"
  /\ BarriersClosed(p)
  /\ Cardinality(Building) < Builders

OnlyFailedRefs(p) == {d \in refs[p] : outcome[d] = "failed"}
FailedRefs(p) == {d \in refs[p] : outcome[d] \in Bad}

\* A failed reference blocks the project, up to date or not: the first in the order
\* of the tsconfig's references, which can be any of them.
BlockTask(p) ==
  /\ CanStart(p)
  /\ \E d \in FailedRefs(p) : blocker' = [blocker EXCEPT ![p] = d]
  /\ outcome' = [outcome EXCEPT ![p] = "blocked"]
  /\ UNCHANGED <<world, reports, refs, states, metadata, persists, phase, merged, behind, unpublished>>

SkipTask(p) ==
  /\ CanStart(p)
  /\ FailedRefs(p) = {} /\ p \in upToDate
  /\ outcome' = [outcome EXCEPT ![p] = "skipped"]
  /\ UNCHANGED <<world, reports, refs, states, metadata, persists, phase, blocker, merged, behind, unpublished>>

\* The build reads p's inputs as they are now.
BuildTask(p) ==
  /\ CanStart(p)
  /\ FailedRefs(p) = {} /\ p \notin upToDate
  /\ outcome' = [outcome EXCEPT ![p] = "building"]
  /\ behind' = behind \ {p}
  /\ UNCHANGED <<world, reports, refs, states, metadata, persists, phase, blocker, merged, unpublished>>

Ends(p, end) == outcome' = [outcome EXCEPT ![p] = end]

\* A build that succeeded runs its dependency_persists in its own task, whatever
\* becomes of the other projects: it publishes the Flamework state that its dependants
\* read, if it has any.
Publish(p) ==
  /\ Ends(p, "built")
  /\ unpublished' = unpublished \ {p}

\* The build fails and publishes nothing, or it succeeds and its publication fails,
\* which is the project's error too.
EndsUnpublished(p) ==
  /\ Ends(p, "failed")
  /\ unpublished' = unpublished \cup ({p} \cap Flamework)

\* p's outputs are new, so what refers to p has not read them.
EndTask(p) ==
  /\ outcome[p] = "building"
  /\ Publish(p) \/ EndsUnpublished(p)
  /\ behind' = behind \cup {q \in Projects : p \in refs[q]}
  /\ UNCHANGED <<world, reports, refs, states, metadata, persists, phase, blocker, merged>>

Task(p) == BlockTask(p) \/ SkipTask(p) \/ BuildTask(p) \/ EndTask(p)
-----------------------------------------------------------------------------
\* The scheduler returned.
StartMerge ==
  /\ phase = "tasks"
  /\ \A p \in Projects : outcome[p] \in Ended
  /\ phase' = "merge"
  /\ merged' = 0
  /\ UNCHANGED <<world, reports, refs, states, metadata, persists, outcome, blocker, behind, unpublished>>

StepsReplaced(p) == [steps EXCEPT ![p] = Steps]

\* PersistQueue::append: a project that is queued already keeps its place.
AppendPersists(p) ==
  /\ queue' = IF p \in ToSet(queue) THEN queue ELSE Append(queue, p)
  /\ steps' = StepsReplaced(p)
  /\ unsaved' = unsaved \cup {p}
  /\ dropped' = dropped \ {p}

MergeBuilt(p) ==
  /\ outcome[p] = "built"
  /\ AppendPersists(p)
  /\ upToDate' = upToDate \cup {p}
  /\ blockedBy' = [blockedBy EXCEPT ![p] = None]

\* A project that fails keeps its up_to_date flag, and with no blocker also the
\* blocker of an earlier drain.
MergeOther(p) ==
  /\ outcome[p] # "built"
  /\ blockedBy' = IF outcome[p] = "blocked" THEN [blockedBy EXCEPT ![p] = blocker[p]] ELSE blockedBy
  /\ UNCHANGED <<upToDate, persists>>

\* The outcomes are merged into the states one project after the other.
MergeNext ==
  /\ phase = "merge"
  /\ merged < N
  /\ MergeBuilt(merged + 1) \/ MergeOther(merged + 1)
  /\ merged' = merged + 1
  /\ UNCHANGED <<world, reports, refs, metadata, phase, outcome, blocker, behind, unpublished>>

EndDrain ==
  /\ phase' = "idle"
  /\ outcome' = [p \in Projects |-> "none"]
  /\ blocker' = [p \in Projects |-> None]
  /\ merged' = 0

Failing == {p \in Projects : outcome[p] \in Bad}

MaySaveAnyway == TRUE
MaySave == Failing = {}

\* The first error is the drain's result, and nothing is saved.
DrainFails ==
  /\ phase = "merge" /\ merged = N
  /\ ~MaySave
  /\ EndDrain
  /\ UNCHANGED <<world, reports, refs, states, metadata, persists, behind, unpublished>>

StartSave ==
  /\ phase = "merge" /\ merged = N
  /\ MaySave
  /\ phase' = "save"
  /\ UNCHANGED <<world, reports, refs, states, metadata, persists, outcome, blocker, merged, behind, unpublished>>

LastStep(p) == steps[p] = 1

\* PersistQueue::persist runs one step of the first queued project.
SaveStep ==
  /\ phase = "save"
  /\ queue # <<>>
  /\ LET p == Head(queue) IN
       /\ steps' = [steps EXCEPT ![p] = @ - 1]
       /\ queue' = IF LastStep(p) THEN Tail(queue) ELSE queue
       /\ unsaved' = IF steps[p] = 1 THEN unsaved \ {p} ELSE unsaved
  /\ UNCHANGED <<world, reports, refs, states, metadata, dropped, phase, outcome, blocker, merged, behind, unpublished>>

\* A step fails: it and everything after it stays queued.
SaveFails ==
  /\ phase = "save"
  /\ queue # <<>>
  /\ EndDrain
  /\ UNCHANGED <<world, reports, refs, states, metadata, persists, behind, unpublished>>

DrainSucceeds ==
  /\ phase = "save"
  /\ queue = <<>>
  /\ EndDrain
  /\ UNCHANGED <<world, reports, refs, states, metadata, persists, behind, unpublished>>

Finish == StartMerge \/ MergeNext \/ DrainFails \/ StartSave \/ SaveStep \/ SaveFails \/ DrainSucceeds

Drain == RefreshFails \/ RefreshSucceeds \/ (\E p \in Projects : Task(p)) \/ Finish

Edit == \E p \in Projects : EditSource(p) \/ EditConfig(p)

\* Any owner: it calls the coordinator in any order, whatever it heard.
Next ==
  \/ Edit
  \/ \E S \in SUBSET Projects : Invalidate(S)
  \/ Reload
  \/ Drain

Spec == Init /\ [][Next]_vars

\* The scheduler runs every task whose barriers closed, builds end, and the
\* coordinator's thread goes on.
Fairness == WF_vars(Finish) /\ \A p \in Projects : WF_vars(Task(p))

FairSpec == Spec /\ Fairness
-----------------------------------------------------------------------------
\* Every drain of a session runs its projects in the order that the scheduler
\* implements, over reloads that change what waits for what.
TaskStatus(p) ==
  IF outcome[p] \in {"none", "waiting"} THEN "waiting"
  ELSE IF outcome[p] = "building" THEN "running" ELSE "done"

Order == INSTANCE OrderedTasks WITH
  Tasks <- Projects, barriers <- [p \in Projects |-> Barriers(p)],
  status <- [p \in Projects |-> TaskStatus(p)], stopped <- FALSE

ImplementsOrder == Order!Spec
-----------------------------------------------------------------------------
\* The type of every variable of the coordinator.
TypeOK ==
  /\ declared \in Graphs /\ refs \in Graphs
  /\ config \in [Projects -> Nat] /\ parsed \in [Projects -> Nat] /\ derived \in [Projects -> Nat]
  /\ edits \in Nat
  /\ edited \subseteq Projects
  /\ reconfigured \in [Projects -> {"no", "edited", "reloaded"}]
  /\ upToDate \subseteq Projects
  /\ blockedBy \in [Projects -> Projects \cup {None}]
  /\ pending \subseteq Projects
  /\ stale \in BOOLEAN
  /\ queue \in Seq(Projects)
  /\ steps \in [Projects -> 0 .. Steps]
  /\ phase \in {"idle", "tasks", "merge", "save"} /\ merged \in 0 .. N
  /\ outcome \in [Projects -> Ended \cup {"none", "waiting", "building"}]
  /\ blocker \in [Projects -> Projects \cup {None}]
  /\ behind \subseteq Projects /\ unpublished \subseteq Flamework
  /\ unsaved \subseteq Projects /\ dropped \subseteq Projects

\* Whatever the owner reports and in whatever order, a project that counts as up
\* to date and whose inputs changed since its build is one whose own change the
\* owner has yet to report: a rebuilt dependency never leaves it behind.
Fresh == \A p \in upToDate \cap behind : p \in edited \/ reconfigured[p] # "no"

\* The tasks run on solution metadata (write roots, reference paths) derived from
\* every config as it was last reported, even after refreshes that failed midway.
MetadataCurrent ==
  phase # "idle" =>
    \A p \in Projects : derived[p] = config[p] \/ p \in edited \/ reconfigured[p] # "no"

\* No project is built or skipped on top of one that failed, however far down, or whose
\* last build, in this drain or an earlier one, has not published the Flamework state
\* that dependants read; a blocked project names a reference that did not make it.
FailureBlocks ==
  \A p \in Projects :
    /\ outcome[p] \in {"building", "built", "skipped"} =>
         /\ \A q \in Projects : p \in DependantsOf({q}) => outcome[q] \notin Bad
         /\ refs[p] \cap unpublished = {}
    /\ outcome[p] = "blocked" => blocker[p] \in refs[p] /\ outcome[blocker[p]] \in Bad

\* The state of a build is queued until it is saved: a failed drain, a failed
\* save or a later build never loses it.  Only a reload drops the queue.
QueueCovers == unsaved \ dropped = ToSet(queue) /\ \A p \in ToSet(queue) : steps[p] > 0

\* No project's deferred state (Rojo cache, copy gate, incremental manifest) is saved by
\* a drain in which any project failed.  The Flamework state is not deferred: Publish
\* writes it in the project's own task, before it is known what becomes of the others.
AllOrNothing ==
  [][\A p \in unsaved : p \notin unsaved' => \A q \in Projects : outcome[q] \notin Bad]_vars

\* Every drain ends, whatever fails in it.
DrainEnds == phase # "idle" ~> phase = "idle"
=============================================================================
