----------------------------- MODULE CensusServer -----------------------------
(***************************************************************************)
(* rotor_lsp's scheduler.rs, server.rs and publish.rs, with the census     *)
(* thread of rotor_cli's lsp.rs: the language server that shows an editor  *)
(* the diagnostics of its unsaved buffers.  The loop handles one message   *)
(* after another; a timer thread waits out the debounces; the censuses of  *)
(* a tsconfig run in a loop on a thread of their own, and one census       *)
(* thread compiles for all of them.  The editor is any editor: a message   *)
(* exists when the loop reads it, a publication shows when it is written.  *)
(***************************************************************************)
EXTENDS Naturals, Sequences, FiniteSets

CONSTANTS Files,      \* the source files
          Configs,    \* their tsconfigs
          Owner,      \* what FindTsConfig answers for each file
          Covers,     \* the files that a census of each tsconfig lists
          MaxVersion, \* the texts typed in the session are 1 .. MaxVersion
          Bad,        \* the texts with diagnostics
          MayFail,    \* the tsconfigs whose loop may not start, or census fail
          Messages,   \* the notifications that the editor sends
          None

Versions == 0 .. MaxVersion
Texts == Versions \cup {None}

\* A tsconfig has one loop; the second slot is there for one that must not run.
Loops == Configs \X {1, 2}

ASSUME CensusAssumption ==
  /\ IsFiniteSet(Configs)
  /\ MaxVersion \in Nat /\ Bad \subseteq Versions /\ None \notin Versions
  /\ Owner \in [Files -> Configs] /\ Covers \in [Configs -> SUBSET Files]
  /\ \A f \in Files : f \in Covers[Owner[f]]
  /\ MayFail \subseteq Configs
  /\ Messages \subseteq {"didOpen", "didChange", "didSave", "didClose"}

VARIABLES
  pc,        \* where serve is, the thread that handles the messages
  request,   \* the config of the schedule call it is about to make
  initialized, \* Session::initialized
  disk,      \* the text of each file on disk
  buffer,    \* State::open, the text of each open file
  typed,     \* history: the texts typed so far
  opened,    \* history: the files that were open once
  dirty,     \* the configs whose inputs changed since their last run started
  running,   \* those with a thread looping over their runs
  pending,   \* those with a pending, the debounce that has not fired
  loops,     \* State::loops
  closed,    \* State::closed
  timer,     \* where the timer thread is
  firing,    \* what it found due and has not fired
  stage,     \* where each loop is
  snap,      \* the overlays of its run
  seen,      \* the texts its census compiled, or None when it failed
  jobs,      \* the channel of the census thread
  published, \* per config, the files last published with diagnostics
  screen,    \* the text whose diagnostics the editor shows for each file
  output,    \* the editor's end of our output
  cancelled, \* Server::cancelled
  blind      \* history: the configs whose last run had no thread or no result

serving == <<pc, request, initialized>>
texts == <<disk, buffer, typed, opened>>
scheduling == <<dirty, running, pending, loops, closed>>
waking == <<timer, firing>>
censuses == <<stage, snap, seen, jobs>>
showing == <<published, screen, output, cancelled>>
vars == <<serving, texts, scheduling, waking, censuses, showing, blind>>

NoTexts == [f \in Files |-> None]

Init ==
  /\ pc = "read" /\ request = None /\ initialized = "no"
  /\ disk = [f \in Files |-> 0] /\ buffer = NoTexts /\ typed = {} /\ opened = {}
  /\ dirty = {} /\ running = {} /\ pending = {}
  /\ loops = 0 /\ closed = "no"
  /\ timer = "scan" /\ firing = {}
  /\ stage = [l \in Loops |-> "free"]
  /\ snap = [l \in Loops |-> NoTexts] /\ seen = [l \in Loops |-> NoTexts]
  /\ jobs = <<>>
  /\ published = [c \in Configs |-> {}] /\ screen = NoTexts
  /\ output = "open" /\ cancelled = "no" /\ blind = {}

\* The mutex of the scheduler is free: the timer thread keeps it while it fires.
Unlocked == timer # "firing"

\* Condvar::notify_all, for the timer thread and for close.
TimerAsleep == timer
TimerWoken == IF timer \in {"timed", "untimed"} THEN "scan" ELSE timer
Slept == pc
CloseWoken == IF pc = "asleep" THEN "close" ELSE pc
-----------------------------------------------------------------------------
(* The messages of the editor.                                              *)

\* Any request is answered, the first initialize with what was negotiated; a failed
\* write cancels.
Answer ==
  /\ pc = "read"
  /\ initialized' \in {initialized, "yes"}
  /\ cancelled' = IF output = "closed" THEN "yes" ELSE cancelled
  /\ UNCHANGED <<pc, request, texts, scheduling, waking, censuses,
                 published, screen, output, blind>>

\* A notification about f, which is in a project, changes the buffers and is about
\* to schedule a run of f's config.
Notified(message, f, kind) ==
  /\ pc = "read" /\ initialized = "yes" /\ message \in Messages
  /\ pc' = kind /\ request' = Owner[f]
  /\ UNCHANGED <<initialized, scheduling, waking, censuses, showing, blind>>

DidOpen(f) ==
  /\ Notified("didOpen", f, "immediate") /\ buffer[f] = None
  /\ buffer' = [buffer EXCEPT ![f] = disk[f]]
  /\ opened' = opened \cup {f}
  /\ UNCHANGED <<disk, typed>>

DidChange(f, text) ==
  /\ Notified("didChange", f, "debounced") /\ buffer[f] # None
  /\ text \notin typed \cup {0}
  /\ typed' = typed \cup {text}
  /\ buffer' = [buffer EXCEPT ![f] = text]
  /\ UNCHANGED <<disk, opened>>

DidSave(f) ==
  /\ Notified("didSave", f, "immediate") /\ buffer[f] # None
  /\ disk' = [disk EXCEPT ![f] = buffer[f]]
  /\ UNCHANGED <<buffer, typed, opened>>

DidClose(f) ==
  /\ Notified("didClose", f, "immediate") /\ buffer[f] # None
  /\ buffer' = [buffer EXCEPT ![f] = None]
  /\ UNCHANGED <<disk, typed, opened>>

\* exit, the end of the input, a transport error, or the wake of a failed write.
Stop ==
  /\ pc = "read"
  /\ cancelled' = "yes" /\ pc' = "close"
  /\ UNCHANGED <<request, initialized, texts, scheduling, waking, censuses,
                 published, screen, output, blind>>
-----------------------------------------------------------------------------
(* Scheduler::schedule and close, on the thread of serve.                   *)

AlwaysIdle(c) == TRUE
Idle(c) == c \notin running

MarkedWhenIdle(c) == IF Idle(c) THEN dirty \cup {c} ELSE dirty
Marked(c) == dirty \cup {c}

\* start: the loop of c gets a session thread, or there is none to be had.
Start(c) ==
  \/ /\ running' = running \cup {c}
     /\ loops' = loops + 1
     /\ stage' = [stage EXCEPT ![IF stage[<<c, 1>>] = "free" THEN <<c, 1>> ELSE <<c, 2>>] = "top"]
     /\ UNCHANGED blind
  \/ /\ c \in MayFail
     /\ running' = running
     /\ loops' = loops
     /\ blind' = blind \cup {c}
     /\ UNCHANGED stage

Schedule ==
  /\ pc \in {"immediate", "debounced"} /\ Unlocked
  /\ request' = None
  /\ dirty' = Marked(request)
  /\ UNCHANGED <<initialized, texts, closed, waking, snap, seen, jobs, showing>>

ScheduleMore ==
  /\ Schedule /\ ~Idle(request)
  /\ pc' = "read"
  /\ UNCHANGED <<running, pending, loops, stage, blind>>

ScheduleNow ==
  /\ Schedule /\ Idle(request) /\ pc = "immediate"
  /\ pending' = pending \ {request}
  /\ Start(request)
  /\ pc' = "read"

ScheduleLater ==
  /\ Schedule /\ Idle(request) /\ pc = "debounced"
  /\ pending' = pending \cup {request}
  /\ pc' = "notify"
  /\ UNCHANGED <<running, loops, stage, blind>>

Notify ==
  /\ pc = "notify"
  /\ pc' = "read" /\ timer' = TimerWoken
  /\ UNCHANGED <<request, initialized, texts, scheduling, firing, censuses, showing, blind>>

AnyTime == TRUE
LoopsOver == loops = 0

Close ==
  /\ pc = "close" /\ Unlocked
  /\ closed' = "yes"
  /\ pending' = {}
  /\ timer' = IF closed = "no" THEN TimerWoken ELSE timer
  /\ pc' = IF LoopsOver THEN "join" ELSE "asleep"
  /\ UNCHANGED <<request, initialized, texts, dirty, running, loops, firing, censuses, showing, blind>>

Return ==
  /\ pc = "join" /\ timer = "ended"
  /\ pc' = "returned"
  /\ UNCHANGED <<request, initialized, texts, scheduling, waking, censuses, showing, blind>>

ServeStep == ScheduleMore \/ ScheduleNow \/ ScheduleLater \/ Notify \/ Close \/ Return
-----------------------------------------------------------------------------
(* The timer thread.                                                        *)

\* It takes the configs whose deadline has passed, or ends.
Scan(passed) ==
  /\ timer = "scan"
  /\ IF closed = "yes" THEN timer' = "ended" /\ firing' = {}
     ELSE timer' = "firing" /\ firing' = passed \cap pending
  /\ UNCHANGED <<serving, texts, scheduling, censuses, showing, blind>>

\* An immediate request may have overtaken the timer.
Fire(c) ==
  /\ timer = "firing" /\ c \in firing
  /\ firing' = firing \ {c}
  /\ pending' = pending \ {c}
  /\ IF Idle(c) /\ c \in dirty THEN Start(c)
                             ELSE UNCHANGED <<running, loops, stage, blind>>
  /\ UNCHANGED <<serving, texts, dirty, closed, timer, snap, seen, jobs, showing>>

UntilNext == IF pending # {} THEN "timed" ELSE "untimed"

Sleep ==
  /\ timer = "firing" /\ firing = {}
  /\ timer' = UntilNext
  /\ UNCHANGED <<serving, texts, scheduling, firing, censuses, showing, blind>>

\* The deadline it sleeps for passes.
Timeout ==
  /\ timer = "timed"
  /\ timer' = "scan"
  /\ UNCHANGED <<serving, texts, scheduling, firing, censuses, showing, blind>>

\* A condition variable may wake for no reason.
Spurious ==
  /\ \/ timer = "untimed" /\ timer' = "scan" /\ UNCHANGED pc
     \/ pc = "asleep" /\ pc' = "close" /\ UNCHANGED timer
  /\ UNCHANGED <<request, initialized, texts, scheduling, firing, censuses, showing, blind>>

TimerStep == Scan(Configs) \/ Sleep \/ Timeout \/ \E c \in Configs : Fire(c)
-----------------------------------------------------------------------------
(* The loop of a config: runs until nothing changed, or until it is closed. *)

TakeRun(l) ==
  /\ stage[l] = "top" /\ Unlocked
  /\ closed = "no" /\ l[1] \in dirty
  /\ dirty' = dirty \ {l[1]}
  /\ stage' = [stage EXCEPT ![l] = "snapshot"]
  /\ UNCHANGED <<serving, texts, running, pending, loops, closed, waking, snap, seen, jobs, showing, blind>>

EndLoop(l) ==
  /\ stage[l] = "top" /\ Unlocked
  /\ closed = "yes" \/ l[1] \notin dirty
  /\ running' = running \ {l[1]}
  /\ loops' = loops - 1
  /\ stage' = [stage EXCEPT ![l] = "ended"]
  /\ UNCHANGED <<serving, texts, dirty, pending, closed, waking, snap, seen, jobs, showing, blind>>

NotifyEnd(l) ==
  /\ stage[l] = "ended"
  /\ stage' = [stage EXCEPT ![l] = "free"]
  /\ timer' = TimerWoken /\ pc' = CloseWoken
  /\ UNCHANGED <<request, initialized, texts, scheduling, firing, snap, seen, jobs, showing, blind>>

\* run_census copies the buffers, under the lock of Server::state; those that the
\* census does not list are left out.
Snapshot(l) ==
  /\ stage[l] = "snapshot"
  /\ snap' = [snap EXCEPT ![l] = [f \in Files |-> IF f \in Covers[l[1]] THEN buffer[f] ELSE None]]
  /\ stage' = [stage EXCEPT ![l] = "overlays"]
  /\ UNCHANGED <<serving, texts, scheduling, waking, seen, jobs, showing, blind>>

SendJob(l) ==
  /\ stage[l] = "overlays"
  /\ jobs' = Append(jobs, l)
  /\ stage' = [stage EXCEPT ![l] = "queued"]
  /\ UNCHANGED <<serving, texts, scheduling, waking, snap, seen, showing, blind>>

\* The census thread compiles the buffers, and the disk for what is not open.  A
\* census that fails or panics answers with an error and lists no file: what can fail
\* comes before the files are recorded, all of them in one go, and nothing comes
\* after.  Were it to list them beside an error, it would publish as in Publish.
Compiled(l) ==
  [f \in Files |-> IF f \notin Covers[l[1]] THEN None
                  ELSE IF snap[l][f] = None THEN disk[f] ELSE snap[l][f]]

Compile ==
  /\ jobs # <<>>
  /\ LET l == Head(jobs) IN
     /\ jobs' = Tail(jobs)
     /\ stage' = [stage EXCEPT ![l] = "answered"]
     /\ snap' = [snap EXCEPT ![l] = NoTexts]
     /\ \/ seen' = [seen EXCEPT ![l] = Compiled(l)] /\ UNCHANGED blind
        \/ /\ l[1] \in MayFail
           /\ seen' = [seen EXCEPT ![l] = NoTexts] /\ blind' = blind \cup {l[1]}
  /\ UNCHANGED <<serving, texts, scheduling, waking, showing>>

DropRun(l) ==
  /\ stage[l] = "answered" /\ cancelled = "yes"
  /\ stage' = [stage EXCEPT ![l] = "top"]
  /\ seen' = [seen EXCEPT ![l] = NoTexts]
  /\ UNCHANGED <<serving, texts, scheduling, waking, snap, jobs, showing, blind>>

KeepRun(l) ==
  /\ stage[l] = "answered" /\ cancelled = "no"
  /\ stage' = [stage EXCEPT ![l] = "publish"]
  /\ UNCHANGED <<serving, texts, scheduling, waking, snap, seen, jobs, showing, blind>>

Current(l) == {f \in Covers[l[1]] : seen[l][f] \in Bad}

Clears(l) == published[l[1]] \ Current(l)

\* publish_files: diagnostics for the files that have them, an empty list for those
\* that had them before.  Problems of the whole project follow as window messages,
\* which may fail to be written too.
Publish(l) ==
  /\ stage[l] = "publish" /\ seen[l] # NoTexts
  /\ published' = [published EXCEPT ![l[1]] = Current(l)]
  /\ IF output = "open"
     THEN /\ screen' = [f \in Files |-> IF f \in Current(l) THEN seen[l][f]
                                        ELSE IF f \in Clears(l) THEN None ELSE screen[f]]
          /\ UNCHANGED cancelled
     ELSE /\ cancelled' \in {"yes"} \cup (IF Current(l) \cup Clears(l) = {} THEN {cancelled} ELSE {})
          /\ UNCHANGED screen
  /\ stage' = [stage EXCEPT ![l] = "top"]
  /\ seen' = [seen EXCEPT ![l] = NoTexts]
  /\ blind' = blind \ {l[1]}
  /\ UNCHANGED <<serving, texts, scheduling, waking, snap, jobs, output>>

\* The error of a census is a window message, unless the editor shows it already.
ShowError(l) ==
  /\ stage[l] = "publish" /\ seen[l] = NoTexts
  /\ cancelled' \in {cancelled} \cup (IF output = "open" THEN {} ELSE {"yes"})
  /\ stage' = [stage EXCEPT ![l] = "top"]
  /\ UNCHANGED <<serving, texts, scheduling, waking, snap, seen, jobs, published, screen, output, blind>>

LoopStep(l) ==
  \/ TakeRun(l) \/ EndLoop(l) \/ NotifyEnd(l) \/ Snapshot(l) \/ SendJob(l)
  \/ DropRun(l) \/ KeepRun(l) \/ Publish(l) \/ ShowError(l)
-----------------------------------------------------------------------------
EditorDies ==
  /\ output = "open" /\ output' = "closed"
  /\ UNCHANGED <<serving, texts, scheduling, waking, censuses, published, screen, cancelled, blind>>

Over == pc = "returned" /\ UNCHANGED vars

Next ==
  \/ Answer
  \/ \E f \in Files : DidOpen(f) \/ DidSave(f) \/ DidClose(f)
  \/ \E f \in Files, text \in Versions : DidChange(f, text)
  \/ Stop
  \/ ServeStep
  \/ TimerStep
  \/ \E passed \in SUBSET Configs : Scan(passed)
  \/ Spurious
  \/ \E l \in Loops : LoopStep(l)
  \/ Compile
  \/ EditorDies
  \/ Over

Spec == Init /\ [][Next]_vars

\* The operating system runs every thread that can run, a thread that waits for the
\* scheduler's mutex gets it at some time, the wake of a failed write comes after the
\* messages that were there before it, time passes and a census ends.  The editor owes
\* nothing; typing stops because the texts are bounded.
FairSpec ==
  /\ Spec
  /\ SF_vars(ServeStep) /\ SF_vars(cancelled = "yes" /\ Stop)
  /\ WF_vars(TimerStep)
  /\ SF_vars(Scan(Configs))
  /\ \A l \in Loops : SF_vars(LoopStep(l))
  /\ WF_vars(Compile)
-----------------------------------------------------------------------------
Busy == {l \in Loops : stage[l] \notin {"free", "ended"}}

Types ==
  /\ pc \in {"read", "immediate", "debounced", "notify", "close", "asleep", "join", "returned"}
  /\ request \in Configs \cup {None} /\ initialized \in {"no", "yes"}
  /\ disk \in [Files -> Versions] /\ buffer \in [Files -> Texts]
  /\ typed \subseteq Versions /\ opened \subseteq Files
  /\ dirty \subseteq Configs /\ running \subseteq Configs
  /\ pending \subseteq Configs
  /\ loops \in Nat /\ closed \in {"no", "yes"}
  /\ timer \in {"scan", "firing", "timed", "untimed", "ended"} /\ firing \subseteq Configs
  /\ stage \in [Loops -> {"free", "top", "snapshot", "overlays", "queued",
                          "answered", "publish", "ended"}]
  /\ snap \in [Loops -> [Files -> Texts]] /\ seen \in [Loops -> [Files -> Texts]]
  /\ jobs \in Seq(Loops)
  /\ published \in [Configs -> SUBSET Files] /\ screen \in [Files -> Texts]
  /\ output \in {"open", "closed"} /\ cancelled \in {"no", "yes"}
  /\ blind \subseteq Configs

\* The types of the variables, the count of the loops (close waits for exactly the
\* loops that run), and "at most one run per tsconfig at a time" (scheduler.rs): two
\* would share the published set, and show older texts after newer ones.
OneLoopPerConfig == \A c \in Configs : <<c, 1>> \notin Busy \/ <<c, 2>> \notin Busy
TypeOK == Types /\ loops = Cardinality(Busy) /\ OneLoopPerConfig

Text(f) == IF buffer[f] = None THEN disk[f] ELSE buffer[f]
Shown(f) == IF Text(f) \in Bad THEN Text(f) ELSE None
Quiet ==
  /\ pc = "read" /\ cancelled = "no" /\ output = "open"
  /\ pending = {} /\ firing = {}
  /\ \A l \in Loops : stage[l] = "free"

\* "The fewest runs that still leave the editor showing the latest text"
\* (scheduler.rs): once the server rests, a file shows what its text has, unless
\* its tsconfig could not be run or another tsconfig lists the file too.
Alone(f) == \A c \in Configs : f \in Covers[c] => c = Owner[f]
LatestTextShown ==
  Quiet => \A f \in opened : Alone(f) /\ Owner[f] \notin blind => screen[f] = Shown(f)

\* "Nothing writes to the output after serve returns" (server.rs).
SilentAfterReturn == [][pc = "returned" => UNCHANGED <<screen, published, cancelled>>]_vars

\* A text that stays in its buffer is shown at some time, unless the session ends or
\* its tsconfig cannot be run.
TextsShown ==
  \A f \in Files, text \in Versions :
    buffer[f] = text ~>
      \/ buffer[f] # text \/ screen[f] = Shown(f)
      \/ cancelled = "yes" \/ output = "closed" \/ Owner[f] \in blind

\* Once the session is cancelled, serve returns.
ServeReturns == cancelled = "yes" ~> pc = "returned"
=============================================================================
