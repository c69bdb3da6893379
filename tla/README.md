# Sloptor: a verification project in TLA+

Sloptor compiles TypeScript to Luau for Roblox.  It is a Rust program (`src/crates`) with a
vendored TypeScript checker (`src/third_party/tsrs`), Node workers for user transformers
(`src/tools/sidecar`) and a JavaScript client (`src/api.js`).  Most of its lines are pure
functions over syntax trees.  What a test reaches badly is the machinery around them: threads
that build the projects of a solution, a parse cache they share, a watch loop that must not
lose an edit, a build server with callbacks in both directions, a language server that
debounces, coalesces and cancels, transformer workers that are told only what changed, builds
that compile only what changed, and files written as one transaction.  This directory models that machinery, checks it with TLC on
small instances and proves its central properties with TLAPS for every instance.

Contents: [Parts of the system](#parts-of-the-system) ·
[Modules and how they relate](#modules-and-how-they-relate) ·
[The modules and the code](#the-modules-and-the-code) · [What the runs show](#what-the-runs-show) ·
[Bounds](#bounds) · [Fairness](#fairness) · [What is proved](#what-is-proved) ·
[Disagreements found](#disagreements-found) · [What is not modelled](#what-is-not-modelled) ·
[Plan](#plan)

## Parts of the system

Paths are relative to `src/crates` unless they start with `src/`.

| Part | Code | State it keeps | Operations |
|---|---|---|---|
| Solution scheduler | `rotor_compile/src/solution_scheduler.rs` | ready list, barrier counters, remaining, aborted, panic payload | take, run, record, notify, abort, join |
| Solution coordinator and drain | `rotor_compile/src/{solution,solution_drain,crossproject}.rs` | reference graph, per project up_to_date / blocked_by / error, pending projects, stale metadata, persistence queue | invalidate, reload, drain (refresh metadata, tasks with publication, merge, save) |
| Shared parse cache | `rotor_compile/src/solution_cache.rs` | parsed sources, in-flight parses | get_source_file |
| Solution watch and compile gate | `rotor_cli/src/solution_watch.rs` | recorded events, gate pending/closed, watches | callbacks, trigger, cycle, stop |
| Watch coverage | `rotor_cli/src/solution_watch_coverage.rs`, `rotor_compile/src/{solution_watch,package_layout_watch}.rs` | open watches per key, dead watches | refresh |
| File system watcher | `rotor_cli/src/fswatch.rs` | directory watches, callbacks, pending batches | watch, coalesce, flush, unwatch |
| Single-project watch | `rotor_cli/src/{watch,watch_json,live,report}.rs` | as the solution loop, for one project | |
| Build API server | `rotor_cli/src/{buildapi,api_server}.rs` | active build, callback table, write error, count of build threads | initialize, build, callback answer, shutdown |
| Build client | `src/api.js`, `src/platform.js`, `src/bin/rotor.js` | request queue, pending promises, session | connect, build, abort, dispose |
| Language server | `rotor_lsp/src/{scheduler,server,publish}.rs`, `rotor_cli/src/lsp.rs` | open buffers, dirty/running/deadline per tsconfig, loops, published files | LSP messages, schedule, timer, run, publish, close |
| Transformer workers | `rotor_compile/src/{sidecar*,transformer_*}.rs` | the slot's session: stamps, overlays sent | open, merge, revert, scan, send, retry, warm, validate |
| Node worker | `src/tools/sidecar` | overrides, texts read from disk, plugin program | request, validate |
| Incremental manifest | `rotor_compile/src/{incremental_*,macro_inputs}.rs` | manifest and gate on disk | select, clean, prune, save |
| Satisfied projects | `rotor_compile/src/solution_satisfied.rs` | hashes of inputs and outputs | inspect |
| Output writer | `rotor_compile/src/{output*,parallelwrite,copyfilesgate}.rs` | files on disk, stamps | write, skip, remove |
| Flamework artifacts | `rotor_flamework/src/artifacts*.rs` | staged temporaries, committed files | stage, commit, roll back, clean up |
| Rojo resolver and its cache | `rotor_rojo/src` | entries in memory and on disk | resolve, load, store |
| Build admission | `rotor_cli/src/runtime.rs` | slots held as file locks | acquire, count |
| Session threads, checker binding | `rotor_tsrs/src` | thread pool, program scopes | spawn, scope |
| Compilation, passes, configuration, command line | the rest | | mostly pure functions and I/O |

How they interact: the command line, the watch loop and the API server each own one coordinator
and call it from one thread.  A drain hands its projects to the scheduler, whose workers run
the project builds; the builds share the parse cache and call transformer workers or, under the
API server, the client.  The watch loop's callbacks run on the watcher's threads and meet its
worker only in two mutexes, the shared events and the compile gate.  The language server's
message loop, timer, run loops and census thread meet in one mutex, one condition variable and
a channel.

What is hard, and what makes each part correct:

* **Scheduler**: wakeups that get lost, panics, threads that cannot be spawned, write roots that
  overlap.  Correct if every project starts after all it waits for, at most once, writers
  of one directory never meet, and the caller always gets an answer that tells the truth
  (theorem `ResultSound`: a return means that all ran, a panic is raised if and only if one happened).
* **Coordinator**: the tree changes while it is read, owners report late or in pieces, a refresh
  or a save fails half way.  Correct if nothing counts as up to date that is not (except what
  was never reported), failures spread over all dependants, nobody builds on state
  that was not published, and deferred state is saved for all projects or for none, and never forgotten.
* **Parse cache**: the file changes while several threads ask for it.  Correct if everybody
  in a drain sees one parse, nobody waits for ever, and declarations that are emitted again
  are read again.
* **Watch loop**: edits at any moment, callbacks half way, reloads that fail, stops.  Correct if
  an edit always ends in a rebuild and a stop always ends.
* **Build server**: callbacks, cancellation, shutdown and the end of the input race one another.
  Correct if each request gets one response that names the true cause, and shutdown comes last.
* **Transformer workers**: files change while they are stamped, read and sent; workers die, and
  a request is made again.  Correct if an answer is about the texts its request describes,
  and the tracker never believes a worker has a text it was not sent.
* **Incremental builds**: a build ends at any step, sources and outputs change under it.  Correct
  if its outputs are those of a full build whatever it chose to compile.
* **Artifacts**: other writers, failing calls.  Correct if all files change or none, and
  nobody else's file is overwritten unseen.
* **Language server**: edits during runs, debounces that are overtaken.  Correct if the editor
  ends up showing the latest text, one run at a time, and nothing is written after the end.

## Modules and how they relate

```
OrderedTasks            what a drain promises about the order of its projects (abstract)
   ^ refine                ^ instantiated by
SolutionScheduler       ParseCache            threads of ordered projects look files up
SolutionDrain              v refines
   ^                    SharedParses          what the cache promises a drain (abstract)
   | extends, refines
SolutionWatch           the owner `--build --watch`: gate, callbacks, cycles, stop
BuildServer             one session of the build API, any client
   v refines
BuildService            what a session promises its client (abstract)
CensusServer            the language server, any editor
TransformerSession      one transformer slot: the compiler's side, the worker, the disk
IncrementalBuild        the incremental builds of one project, one after another
ArtifactTransaction     one transaction over Flamework's artifacts, and other writers
```

* `SolutionScheduler`, the threads of one drain, implements `OrderedTasks` (`ImplementsOrder`: checked as
  a PROPERTY and proved as theorem `Refinement`).  So does `SolutionDrain`, the coordinator that any owner
  calls in any order (`ImplementsOrder` there, theorem `DrainsInOrder`): the end of a drain is `NextDrain`,
  a reload `Regraph`, and a project that is skipped or blocked `Pass`es.
* `ParseCache` composes the lookups of the threads with `OrderedTasks`, not with the scheduler:
  it needs only what the scheduler promises.  It implements `SharedParses`
  (`ImplementsSharedParses`: checked as a PROPERTY and proved as theorem `Refinement`): with no
  table, lock or thread, a file is parsed at most once in a drain, as it is on disk at that
  moment, and every answer is that parse.  The mapping lets a parse count from the moment it
  read the file (`Memo`), before any other thread can find it.
* `BuildServer` implements `BuildService` (`ImplementsBuildService`: checked as a PROPERTY and proved as
  theorem `Refinement`), in which a session has no threads, locks or tables: requests are open or
  closed, one is current, and the session is open, stopping in one of three ways, or over.
* `SolutionDrain` takes the scheduler's order as the guard `CanStart`; its `Next` lets an
  owner call the coordinator in any order.  `SolutionWatch` is one such owner: it extends the
  module, conjoins its own steps with the coordinator's, and theorem `OwnsCoordinator` shows
  that it implements `SolutionDrain!Spec`, so everything proved of the coordinator holds in it.
* `TransformerSession`, `IncrementalBuild` and `ArtifactTransaction` stand beside the rest: to a drain they
  are inside the one step that builds a project.
* Every `X_proofs` module extends `X` with its theorems; those about the coordinator
  (`SolutionDrain`) are the first part of `SolutionWatch_proofs`.  Every `MCX` gives `X` its instance.

Some operators come in pairs, such as `NotLanded` and `Landed`, `SpawnLeaks` and `SpawnFails`, or
`MarkedWhenIdle` and `Marked`.  The second is the code.  The first, which no specification uses,
is a mistake somebody could make there; putting it in the second's place breaks the property
that is about it, which shows that the property watches that line of the code.

## The modules and the code

**SolutionScheduler** (`run_solution_tasks`).  A critical section is one step.  `ready`,
`remainingBarriers`, `remaining` and `aborted` are the fields of `SchedulerState`; `pc[w]` is where
worker `w` is: waiting on the condition variable is `"blocked"`, and `notify_all` (after the mutex
is released: `Notify`) makes every blocked worker `"idle"`.  `pool` is the set of workers
whose spawn succeeded; when none did, the caller's thread runs the loop, which is a pool of
one.  `Panic` keeps the payload, `Abort` sets the flag under the mutex, as two steps, as in the
code.  Spurious wakeups are possible and never owed.  `WaitOnly` is
`derive_wait_only_dependencies`.

**SolutionDrain** (`solution.rs`, `solution_drain.rs`).  `upToDate` and `blockedBy` are the
projects' states; `pending`, `stale`, `parsed` and `derived` follow the metadata cache through
`refresh_pending_metadata`, whose failure (`RefreshFails`) keeps what it has parsed; `queue` and
`steps` are `PersistQueue`.  A drain runs in phases: tasks, merge, save.  `config[p]` is a version
number; whether two configs differ is all the code asks.  `behind` (projects whose inputs changed
since a build read them) and `edited`/`reconfigured` (changes the owner has not reported or not
reloaded) are history: they say what is stale in truth, against which `upToDate` is held.
A build reads its inputs when its task starts, which is the earliest moment and so the worst one.
A build keeps state in two ways.  Its native Flamework state, which its dependants read, is
published in its own task as soon as the project built (`output.rs:549`, `solution_drain.rs:711`):
`Publish` ends the task, `EndsUnpublished` is a build that failed or whose publication did, and
`unpublished` is history: the projects in `Flamework` whose last build has not published.  How that
publication writes its files is `ArtifactTransaction`.  The rest, Rojo cache, copy gate and incremental
manifest, is deferred to the queue and saved only by a drain in which nothing failed; `AllOrNothing` is
about this part alone.  A blocked project names any of its failed references, since their order in the
tsconfig, which decides in the code, is not modelled.

**SolutionWatch** (`solution_watch.rs`).  `recorded` is `Shared::events`, `gatePending` and
`closed` the compile gate.  A callback records under one lock (`Callback`) and then triggers
(`Trigger`).  `Serve` clears the pending flag before the run.  A cycle takes the events, reloads
if a config changed, invalidates project after project, and drains with the coordinator's own
steps.  `lost` is history: the projects whose reported change a cycle drops, at the two places
where the code does so.

**ParseCache** (`get_source_file`).  The steps of a lookup are its lock regions: the first look
(`LookupHit`, `LookupMiss`), the look under the in-flight mutex (`EnterHit`, `EnterWait`,
`EnterParse`), the parse, the insert, the removal, the notification.  Files are versions; a
parse that fails (no such file) is not cached, a parse that panics leaves its entry.

**BuildServer** (`buildapi.rs`, `run_api_build`).  The reader thread handles a message per step;
each build has a thread (`stage`), each callback its call (`call`).  The lock of `active` is held
from `Blame` to `Cancel`, which is why `ClearActive` and `Withdraw` wait for the reader to leave
`"stopping"`.  The client may do anything the protocol allows: it uses an id once, and answers a
callback once, after it got it.  `Slow` are the callbacks that may outlive their project's deadline.

**CensusServer** (`scheduler.rs`, `server.rs`, `publish.rs`, `lsp.rs`).  `pc` is the message loop,
inside `schedule` and `close` too; `timer` the debounce thread, which keeps the mutex while it
fires; `stage[l]` a run loop.  There are two loop slots per tsconfig, so that a second loop could
show.  `screen[f]` is the text whose diagnostics the editor shows.  Deadlines are
untimed: `pending` may become due at any scan.  A tsconfig in `MayFail` may fail to get a
thread or a census; `blind` is history and marks it until its next run succeeds.  A census that fails
lists no file: in census mode a compilation can fail only before it records the first of them
(`project.rs:944`), although the type that `publish.rs:31` reads would allow both.

**TransformerSession** (`sidecar.rs`, `transformer_host*.rs`, `tools/sidecar/lib/session.js`).  `stamps` and
`overlaid` are the fields of `SidecarSession`; `override`, `cached` and `configured` are what the
worker holds.  A request goes through `Open`, `Merge`, `RevertRead`, `RevertStat`, `ScanStat` and
`ScanRead`: each call on the disk is a step of its own, since the code reads a file
and stats it in two calls, and in both orders.  Those steps are where edits fall in between.
`Answer` is the worker: an override wins over what it read before, which wins over the disk.
The host is a process, which is closed whenever a round trip fails (`RoundTripFails`, with one
retry), or the client of the build API, whose worker outlives a rejected callback.  The history variable
`slipped` marks files stamped at a version the worker was not sent, and `gone` files this build
could not find; the properties except exactly these, and the code has these gaps (see below).

**IncrementalBuild** (`output*.rs`, `incremental_*.rs`, `copyfilesgate.rs`).  The state on disk is the sources,
the `output` of each kind, the `manifest` and the `gate`.  A build is a row of steps: `StartBuild` loads
the program, `Select` validates the recorded outputs and chooses the files, `Clean` removes outputs
without sources unless the gate is open, `Compile`, `Write` for each output, `Prune`, `SaveGate`,
`SaveManifest`; `Abort` cuts it off anywhere and may tear the output it was writing.  Selection is
by changed sources and missing outputs, closed under importers either as long as declarations
differ (`Narrowed`) or without looking at them (`Widened`, when a declaration cannot be printed).
What a file's Luau and declaration depend on is a parameter (`Shows`, `Spells`).
`disturbed` marks outputs changed or lost while the build ran, `unseen` sources removed
between the program and the gate's look.

**ArtifactTransaction** (`artifacts*.rs`).  `staged`, `dest`, `parent`, `temp` and `created` are the fields of
`StagedArtifact`; a file is an identity and its contents.  `Check` is the revalidation before the rename
or removal, `Replace` the call itself, `Verify` the look afterwards; `Rollback` and `Undo`
likewise.  Others may act between any two steps.  `raced` marks the window between a check and
its call, which no program without file locks can close.

## What the runs show

| Run | Question | Instance |
|---|---|---|
| `scheduler` | Do workers that share one mutex and condition variable run every project in dependency and write-root order, wake one another and return, under failed spawns, panics, spurious wakeups? Do they implement `OrderedTasks`? | 5 projects (a diamond and a project that refers to nobody and writes under the outputs of two others), 3 workers |
| `drain` | Does anything stay up to date that is not, does a failure spread, does anybody build on unpublished Flamework state, is metadata current after a failed refresh, is deferred state saved for all or none, does every drain end and keep the order of `OrderedTasks`? | 3 projects, 2 graphs the tsconfigs may switch between, 2 builders, 2 saving steps per build, 1 project with Flamework state, 1 edit at any moment, any calls |
| `watch` | Is every change between its edit and its invalidation somewhere? Is a quiet session fresh? Does every edit reach an invalidation, does a stop end? | 2 projects, the second refers to the first, 2 edits of any kind |
| `watch_source_dropped` | violated: see [Disagreements](#disagreements-found) | 2 independent projects, 3 edits |
| `parse_cache` | Do the tables, mutexes and waiting threads implement `SharedParses`, one parse for everyone? Nobody waits for ever unless a parse panicked, no old declarations, no existing file taken for missing | 3 projects, 3 threads (two of one program), 2 files, 2 versions each, 2 drains |
| `build_server` | Does it implement `BuildService`? One response per request, nothing after the last, the true cause, no busy answer to a serial client, an end | 2 requests, 2 callbacks, both of which may be slow, all faults |
| `census` | One run per tsconfig, latest text shown at rest, silence after return | 2 files of one tsconfig, 2 typed texts, all messages and faults |
| `census_live` | Is a text that stays shown, does a cancelled session return? | 1 file, 1 typed text, all messages and faults |
| `transformer_session` | Are answers about current texts, does the tracker claim only what the worker has seen, does every request end? | 2 files, 2 changes, 2 builds with one or two stages, both hosts, all faults |
| `incremental` | Are the outputs of a build those of a full one, does the manifest vouch only for such outputs, does no output outlive its source? | a library and its importer of 3 texts each, 2 changes of anything, 2 builds cut off anywhere |
| `incremental_reexport` | violated: see [Disagreements](#disagreements-found) | a library, a module that re-exports it by name, an importer |
| `artifacts` | All or none, nothing left behind, nobody else's file replaced unseen | 3 artifacts in 2 directories, every starting state and request, 1 step of others, 1 failing call |

Each property of a passing run is also run against a mistake in the code it watches (the pairs
described above), and is violated by it.

Deadlock is checked except in `parse_cache`, `transformer_session` and the two incremental runs (their
last drain or build ends and nothing follows) and in `watch_source_dropped`, whose user has no
edits left.  Elsewhere the ends of a process are explicit self-loops (`Ended`, `Over`), or the
owner can always call again.

## Bounds

* `MaxEdits`, `MaxVersion`, `MaxDrains`, `MaxCalls` bound histories; they are guards of the
  environment's actions, never of the program's.
* Scheduler: five projects are the least that hold a diamond and an overlap with two others, so
  that a barrier counter above one is closed by different workers; three workers let one
  record while one sleeps and one leaves.
* Drain: a chain of three shows transitive staleness and blocking; two saving steps
  let a save fail in the middle of a project; the project with Flamework state is the one that the others
  refer to, since its publication is what they wait for.  More edits matter only for `Fresh` and
  `MetadataCurrent`, which are proved for any number.
* Watch: two edits fall before, between and after callback, take, reload and drain; with two
  projects one can mask the other in a batch.  The graph stays a chain here: configs that
  change it are in `drain` and in the proofs.  `StopSession` lets the session stop only around its first
  edit or when it is quiet, and edits nothing after the stop, which is ignored anyway.
* Cache: three threads are a parser and two waiters; the second drain is the first that
  can meet a stale parse.
* Build server: two requests are enough to overlap, two callbacks can belong to one build or
  to both.
* Census server: two typed texts, one with diagnostics and one without, make a file change from bad
  to good while a run is in any stage.  Both files are of one tsconfig; tsconfigs that share the
  timer and the census thread are not instantiated; the proofs are for any number of them.
* Transformer session: two files, so that one is compiled and the other only imported; two changes
  fall between two calls on one file, or on both; the second build is the first that
  meets a warm session.  Three changes and three builds (4 million states) hold as well, but take too
  long to be kept.
* Incremental: three texts are a first one, one with the same API and one with another; two builds are
  one that leaves something and one that trusts it.
* Artifacts: three in two directories, so that a directory is shared and one artifact can be rolled back
  after another failed; with two artifacts, two steps of others hold as well.

## Fairness

Every liveness property states its assumption in a `FairSpec`.

* Threads that can run do run: weak fairness per thread (`SolutionScheduler`, `ParseCache`,
  `BuildServer`).  No fairness is given to spurious wakeups, panics, failures, edits,
  messages or clients: those may happen, nobody owes them.
* Builds and parses return or panic in the end; nothing else would let any caller return.
* `SolutionDrain`: the coordinator's thread goes on (`Finish`), and every task whose
  barriers closed runs, which is what the scheduler's `Terminates` and `ImplementsOrder` give.
* `SolutionWatch`: the watcher delivers in the end, the main thread closes the gate after
  it set `stopped`.
* `CensusServer`: strong fairness for the message loop and the run loops, because the timer
  thread holds and releases the mutex they need, again and again; a mutex that starved a thread
  for ever is not assumed.  The stop of a cancelled session is strongly fair, since the wake
  message comes after the messages that were there before it, and so is a scan that finds
  every deadline passed, since time passes.
* `TransformerSession`: the request's thread goes on, and a worker answers, dies or passes its deadline.
* `LookupsReturn` assumes that no parse panics: with a panic it fails, see below.
* `IncrementalBuild` and `ArtifactTransaction` claim no liveness: they are loops over finite work.

## What is proved

Eight modules hold theorems; every obligation is checked by TLAPS.  The only assumptions are the
named ones on the constants, which TLC evaluates on the instances (`GraphAssumption`,
`WorkersAssumption`, `DrainAssumption`, `ReadsAssumption`, `SessionAssumption` of two modules,
`CensusAssumption`, `TextsAssumption`, `ContentAssumption`, `NoTextAssumption`, `ArtifactAssumption`), and `DeclarationsCopy`,
which two theorems state as their hypothesis.

**`SolutionScheduler_proofs`**: for any graph, write roots and finite set of workers, `TypeOK`,
`BarriersClosed`, `WriteRootsExclusive`, `NoLostWakeup`, `ReturnMeansAllRan`, `NoStartAfterAbort`
and the refinement `ImplementsOrder`.  None of them is inductive by itself.  `IInv` adds `Counted`
(each counter is the number of its unfinished barriers: without it a ready task says nothing
about its barriers, and the counters could underflow), `Holding` and `Placed` (a task is ready,
held by one worker, or finished, and its barriers are finished in each case) and `Ends` (why
workers leave and who carries the panic: what the caller's answer rests on).  `NeverAllAsleep` is the
safety core of `Terminates`: until the last worker has left, one is awake.  A task whose
counter is zero is ready, held or finished (`Available`); if all workers slept with work left, the
unfinished task that comes first in the order (`FirstTask`, by well-founded induction over a finite
order) would have its barriers finished and be ready, which `NoLostWakeup` excludes.

**`SolutionWatch_proofs`, first part, on `SolutionDrain`**: for any number of projects and any set of graphs, `TypeOK`, `Fresh`,
`MetadataCurrent`, `FailureBlocks`, `QueueCovers`, `AllOrNothing`.  `IInv` adds `RefsKnown` (a
reference the coordinator does not know yet is one whose tsconfig edit is unreported), `UpClosed`
(what is out of date has only dependants that are out of date, or unreported: why a
rebuilt dependency cannot leave a dependant behind), `FreshNow` (`Fresh` with what the running
drain is about to build), `MetadataKept` (which configs the cached infos are older than, and
that `stale` remembers a parse nothing was derived from), `Outcomes` (what the phases say about
outcomes, and that what was built or skipped has only references that were), `Published` (a project
whose Flamework state is not out neither counts as up to date nor was built or skipped in the running drain:
why `FailureBlocks` also holds of state published drains ago) and `QueueInv` (the queue holds no project
twice).  `AllOrNothing` (theorem `SavesAllOrNothing`) is about the deferred state only.  `BuildsExclude` (projects that refer to each other or write the same
directories never build together, and no more than the builders allow), `DrainsInOrder` (the refinement of
`OrderedTasks`) and `NeverStuck` (the
safety core of `DrainEnds`: while tasks run, one builds or one can start) rest on
`TasksInOrder`: a task that was started has its barriers closed.

**`SolutionWatch_proofs`, second part**: `OwnsCoordinator` first, so that the coordinator's invariant holds
here; then `WatchTypeOK`, `OnItsWay`, `NoSleepingEvents`, `QuietMeansFresh`.  The
strengthening adds `Stages` (which events a cycle holds in which stage), `ConfigOnItsWay` (a
tsconfig change no reload has seen is itself on its way; a source change of the same project
does not carry it) and `Awake`.  `QuietMeansFresh` combines `OnItsWay` with the coordinator's `Fresh`.

**`ParseCache_proofs`**: for any projects, files, readers and threads, `TypeOK`, `SingleFlight`,
`OneSnapshot`, `FreshDeclarations`, `NeverLost`.  `IInv` adds `Listed` and `Entries` (an in-flight
entry and its thread know each other), `Unparsed` (who parses does so because there is no
parse, and what it parsed is what the cache then holds), `Shared` (every answer is what the
cache still holds), `Active` and `Ordered` (only threads of running projects look up, after
what they wait for), `Current`, `Existing` and `Waiting`.  `WaitsEnd`, the safety core of `LookupsReturn`:
a waiting thread waits for one that is at work or has panicked, never for a waiting one.
`Refinement` maps each step to one of `SharedParses`: a parse to `Parse` or `FindNothing`, a lookup that
comes back to `Answer` or `AnswerNothing`, everything else to a stutter (`HiddenStep`).  It needs one
more invariant, `NothingAnswered`: a waiter that will find no parse waited for one that failed, and that
failure has been answered already.

**`BuildServer_proofs`**: for any finite set of requests and any number of callbacks, `TypeOK`, `OneBuild`,
`AnsweredOnce`, `SerialClientServed`, `FailureNotCancellation`, `ListedAreWaitedFor`, `ShutdownLast`
and the refinement `ImplementsBuildService`.
`IInv` adds `ActiveBuild` (the active build is the one whose thread has not cleared it), `Responses`
(how many responses each stage of a build has had, and what a write error excuses), `Reader`
(nothing is cancelled while messages are read; after the wait no build is left), `Causes` (what a
failed session cancels has its cause first, which needs that `active` cannot change between
the two) and `OpenCalls` (an open call belongs to a build that is still at it, so that
no callback is written once every build has left).  `Refinement` adds `Explained` (what ends a session is known by the time
it stops, and only a failure blames a build, so that a cancelled response is one the client asked for).
Two more use invariants of their own on top of `IInv`.  `StopsReachAll`, the safety core of `SessionEnds`: once the session stops, every open call belongs
to a cancelled build, so that it comes back whatever the client does (`Stopped`).  `AnswersKnown`: the
verdict "unknown id" falls on a client that answers each callback once only if the callback was slow
or a write failed (`LateAnswers`): the disagreement about late answers below is the only such case.

**`CensusServer_proofs`**: for any files, tsconfigs, texts and numbers of messages, `TypeOK` (with at
most one loop per tsconfig), `LatestTextShown`, `SilentAfterReturn`, `NoLoopAfterJoin` and `WakeupsKept`.
That there is one loop rests on `running` holding exactly the tsconfigs whose loop is busy, which two
slots per tsconfig make a statement that could fail.  `JobsQueued` and `Closing` say what is left to
do in each stage of the end; `ScreenPublished` relates the screen to what runs published; `RunsCurrent`
and `ChangesTaken` say which text a run in each stage has seen, and `ShownOrComing` that a text not shown
is marked, pending, in a run that will publish it, or belongs to a tsconfig whose last run failed.
`NoLostWakeup` (`WakeupsKept`): neither the timer nor `close` sleeps through what it waits for.

**`TransformerSession_proofs`**: for any files and any number of edits and builds, `TypeOK`, `TrackerHonest`,
`AnswersCurrent`.  The argument: stamps, overrides and reads are never of versions the disk has not had
(`Monotone`), so that an answer's texts can be ordered; `Making` says how far a request's changed
files are gathered at each step; `Honest` is `TrackerHonest` in every state, with what the
request in the making will have sent counted as sent; `Scanning` says which files of the
program are stamped, overlaid or caught by the scan by the time the request is sent.

**`IncrementalBuild_proofs`**: for any files, texts and number of changes and builds, `TypeOK`,
`ManifestVouches` and `OutputsOfFullBuild` (both if `DeclarationsCopy`: a declaration spells out what it
exports and an importer sees no further) and `NoOrphans`.  The core is a lemma about selection,
`OutsideIsSettled`: for a manifest that records true contents, a file outside any set that holds the
changed files and is closed under importers where declarations differ, has the content it had.
Around it `Trusted` and `Recording` say what the manifest, and the record in the making, vouch for;
`Outputs` what is settled on disk at each step; `Sweeping` and `Orphans` which outputs without a
source can be left.

**`ArtifactTransaction_proofs`**: for any number of artifacts, directories, steps of others and faults,
`TypeOK`, `OthersKept`, `Transaction`.  `Guarded` (at the rename, the file is the one checked, or
the artifact raced) carries `OthersKept`.  `Phases` says what `left`, `staged` and `committed`
mean in each phase; `Courses` follows each untouched artifact through staging, commit, rollback;
`Litter` says which temporaries and directories exist at each moment.

Only model-checked: everything under fairness (`Terminates`, `DrainEnds`, `EditsArrive`,
`StopEnds`, `LookupsReturn`, `SessionEnds`, `TextsShown`, `ServeReturns`, `RequestEnds`), which the prover
does not do.  For five of them what makes them true in every state, that nobody sleeps with work left,
is proved: `NeverAllAsleep`, `NeverStuck`, `WaitsEnd`, `StopsReachAll`, `NoLostWakeup`.  That those states
do lead on is left to TLC.

Proved and not in a run of their own: `BarriersClosed`, `NoLostWakeup`, `ReturnMeansAllRan` and
`NoStartAfterAbort` (in effect parts of `ImplementsOrder` and `Terminates`), `QueueCovers`,
`NoSleepingEvents`, `WatchTypeOK`, the `TypeOK` of `ParseCache` and `SolutionDrain`,
`SingleFlight`, `OneSnapshot` and `ShutdownLast` (consequences of `ImplementsSharedParses` and of
`ImplementsBuildService`), `OneBuild`, `ListedAreWaitedFor`, `NoLoopAfterJoin`,
`BuildsApart`, and the properties that the five theorems above and `AnswersKnown` state.

## Disagreements found

With a run that shows them:

* **A source edit batched with a broken config is lost** (`watch_source_dropped`,
  `solution_watch.rs:521`).  The cycle returns from a failed reload with the events it took.
  After the config is fixed, the source's project still counts as up to date.
* **A re-export hides an API change** (`incremental_reexport`, `incremental_signature.rs:104`).  A module that says
  `export * from "./lib"` prints the same declaration whatever `lib` exports, so the files that import
  it are not selected when `lib`'s API changes, though their Luau depends on it.

Seen while modelling; the modules follow the code, and the properties except these cases by name:

* A parse that panics blocks its waiters (`solution_cache.rs:113`): the in-flight entry is removed
  only after `parse` returns, the scheduler (`solution_scheduler.rs:64`) waits for their workers, and the
  panic is never raised.  `LookupsReturn` has the premise that no parse panics.
* A late answer ends the session (`buildapi.rs:736`).  A call that passed its project's deadline is
  withdrawn; the client's answer to it is an unknown id (`AnswerUnknown`), which fails every project.
* Diagnostics of an older text stay on a file that two tsconfigs list (`publish.rs:62`): a run clears
  what its own tsconfig published, the editor keeps one list per file.  `LatestTextShown` is about files
  of one tsconfig (`Alone`).
* The Flamework state of a project that built is on disk although another project of the same drain failed
  (`solution_drain.rs:711`; `project.rs:192` means it so: "published as soon as the project built").
  `AllOrNothing` is about the deferred state.
* A transformer's tracker stamps an edit that the worker was not sent, in three places: a scan that fails at
  one file has stamped those before it and sends nothing (`sidecar.rs:1041`); the reversal of an overlay
  reads a file before it stats it (`sidecar.rs:1075`); and a tracker without stamps only stamps the
  files it finds (`!fresh`, `sidecar.rs:1033`), though the worker may have read some before, or may hold
  overrides of them from an earlier build.  These are the members of `slipped`.
* The output of a source that nobody imports and that is removed between the loading of the program and the
  gate's walk of the tree stays for as long as nothing is selected (`copyfilesgate.rs:435`).  `NoOrphans`
  excepts it (`unseen`).
* An output removed while a build runs is pruned from the manifest and never looked at again
  (`incremental_signature.rs:249`), where `building.mdx:405` says that an incomplete manifest "costs
  a wider rebuild and never a stale one".  `OutputsOfFullBuild` excepts it (`disturbed`).
* Artifacts: when the look after a rename fails, the new file stays though the transaction is rolled back
  (`artifacts_commit.rs:34`; `unverified`).  The rollback of a deletion that found nothing reports an
  error though there is nothing to undo.  A restore that cannot be written leaves its temporary
  (both are in `reported`).
* A Rojo config change in the same batch as another project's source edit is reloaded, but its
  project is not invalidated (`solution_watch.rs:540`; `lost` in `SolutionWatch` records it).
* A project that fails on its own after it was blocked keeps the old name in `blocked_by`
  (`solution_drain.rs:508`), which `solution.rs:90` describes as "the failed dependency that blocked the
  last build"; `MergeOther` follows the code.

## What is not modelled

Inside the modelled parts:

* Drain: how the graph is built from tsconfigs and validated, project selection by the API,
  satisfied projects, asset-only rebuilds, builds that defer nothing to save, and what a build
  writes.  One config stands for a project's tsconfig and what it extends.
* Watch: which paths are watched (every one is taken as watched, from before the first edit), the
  package layout inputs, asset events, reports to the terminal.  A config edited between the
  assembly of the coordinator and the opening of the watches is outside the model.
* Cache: programs read only what projects they wait for emit, which the validation of
  references ensures; which names are cacheable, and the hit and miss counters.
* Build server: framing and decoding (a message is good, bad or the end), the contents of
  results, delays in the pipes (a message exists when it is read), what a build does between its
  calls.  The wait of `wait_builds` is a guard: its condition variable is notified under no race.
* Language server: the wording, positions and counts of diagnostics, which window messages are on
  screen, refused requests, a debounce thread that cannot be spawned, buffers that no census
  lists, and disks that change without the editor.
* Transformer session: how a request is split over parallel shards (each shard has a tracker and a worker of its
  own and so is an instance of the module, except that shards share `disk_scanned`: one that is first used
  in the second stage skips the scan because others made it, `sidecar_shards.rs:153`), how plugins are found and ordered, the program a plugin sees beyond the texts of its
  files, the decoding of answers, the syntax host for React.  Two edits that leave a file with an
  equal stamp do not occur: a stamp is the version it was taken of.  The API's client handles requests
  in order; a cancelled callback ends its session.
* Incremental: copied files that are not compiled, include files, source maps, Flamework's side files
  and overlays; what enters the options' salt (one value).  A hash is the content it was taken of.
  That declarations of files which were not selected can be stale is documented (`roadmap.mdx:153`, `:255`).
* Artifacts: the resolution of paths (symlinks, `..`), nested directories (each is one), permissions, the
  pieces in which a file is written (staging is one step; its last look decides), a reused inode, and
  cleanups that fail.  The process-wide mutex leaves one transaction at a time.

Not modelled at all, and why: the transformer passes, printers, guards and macros (pure functions
over syntax trees), configuration and option parsing, the command line and its output, the
vendored compiler, thread pools and memory regions of the checker (unsafe code, whose hazards are
below this level), benchmarks, packaging and documentation.  Watch coverage, the file system watcher, the
single-project watch, the JavaScript client, satisfied projects, the Rojo resolver's cache and
build admission could be modelled and are not yet: see the plan.

## Plan

What is left, in this order; each with its run and hazards, and its theorems where they are in reach.

1. **`BuildSession`**: the JavaScript client (`src/api.js`): its queue, `#pending`, aborts at every await,
   `dispose` with its two seconds, the child's `exit` and `close`.  Properties: every promise settles; a
   build is told `BUILD_CANCELLED` only after its own abort; after `dispose` no process is left.  An abort
   between `#resolveExecutable` and `spawn` deserves a look: the build then ends with
   `SESSION_TERMINAL`.  Composed with `BuildServer`, it is the serial client of `SerialClientServed`.
2. **`WatchCoverage`**: keys, directories that appear and die, refresh after a drain, coalesced
   events; composed with `SolutionWatch` to drop the assumption that everything is watched.
3. **Satisfied projects and selection** in `SolutionDrain`, as the API server uses them.
4. **`ResolverCache`** and **`BuildSlots`**: small modules over a validated cache and file locks.
