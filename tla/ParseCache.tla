------------------------------ MODULE ParseCache ------------------------------
(***************************************************************************)
(* rotor_compile's solution_cache.rs: the parses that the programs of one  *)
(* drain share.  The projects run in the order OrderedTasks promises; each *)
(* loads its program on threads that look files up in one cache, which     *)
(* parses a file once however many threads ask for it.  A file is its      *)
(* version on disk, 0 while it does not exist; a parse is the version it   *)
(* read.  Two mutexes guard the two tables, and every step below holds at  *)
(* most one of them, except Enter, which reads sources under inflight.     *)
(***************************************************************************)
EXTENDS Naturals, FiniteSets

CONSTANTS Projects, Barriers,  \* the projects of a drain, and whom each waits for
          Files,               \* the .d.ts and .json files that projects share
          Writer,              \* Writer[f]: the project that emits f, or Nobody
          Reads,               \* Reads[p]: what p's program is made of
          Loaders, Owner,      \* the threads that load programs, and their project
          Nobody,
          MaxVersion, MaxDrains \* bounds on the history explored

\* A program reads what the projects before it emit, and never its own output.
ASSUME ReadsAssumption ==
  /\ Barriers \in [Projects -> SUBSET Projects]
  /\ Writer \in [Files -> Projects \cup {Nobody}]
  /\ Reads \in [Projects -> SUBSET Files]
  /\ \A p \in Projects : \A f \in Reads[p] : Writer[f] \in Barriers[p] \cup {Nobody}
  /\ Owner \in [Loaders -> Projects]
  /\ Nobody \notin Projects \cup Loaders
  /\ MaxVersion \in Nat \ {0}

VARIABLES
  status, stopped, \* OrderedTasks: the scheduler's view of the projects
  disk,            \* the version of each file
  sources,         \* SolutionCompileCache::sources, 0 where there is no entry
  inflight,        \* SolutionCompileCache::inflight, by the thread that parses
  pc,              \* where each thread is
  file,            \* the file each thread looks up
  parsed,          \* what each parsing thread read
  waitsFor,        \* the thread whose InFlight each waiting thread holds
  seen,            \* history: the versions the lookups of this drain returned
  missing,         \* history: the files that did not exist when the drain began
  drains           \* how many drains have begun

order == <<status, stopped>>
history == <<missing, drains>>
vars == <<order, disk, sources, inflight, pc, file, parsed, waitsFor, seen, history>>

Order == INSTANCE OrderedTasks WITH Tasks <- Projects, barriers <- Barriers

Versions == 0 .. MaxVersion
NoFile == [f \in Files |-> 0]
NoParse == [f \in Files |-> Nobody]

Init ==
  /\ Order!Init
  /\ disk \in [Files -> {0, 1}]
  /\ sources = NoFile
  /\ inflight = NoParse
  /\ pc = [l \in Loaders |-> "idle"]
  /\ file = [l \in Loaders |-> Nobody]
  /\ parsed = [l \in Loaders |-> 0]
  /\ waitsFor = [l \in Loaders |-> Nobody]
  /\ seen = [f \in Files |-> {}]
  /\ missing = {f \in Files : disk[f] = 0}
  /\ drains = 1

Goto(l, stage) == pc' = [pc EXCEPT ![l] = stage]

\* get_source_file comes back with a parse, or with nothing.
Return(l, version) ==
  /\ seen' = [seen EXCEPT ![file[l]] = @ \cup {version}]
  /\ file' = [file EXCEPT ![l] = Nobody]
  /\ parsed' = [parsed EXCEPT ![l] = 0]
  /\ waitsFor' = [waitsFor EXCEPT ![l] = Nobody]

\* The first look at sources.
LookupHit(l, f) ==
  /\ status[Owner[l]] = "running" /\ f \in Reads[Owner[l]]
  /\ pc[l] = "idle" /\ sources[f] # 0
  /\ seen' = [seen EXCEPT ![f] = @ \cup {sources[f]}]
  /\ UNCHANGED <<order, disk, sources, inflight, pc, file, parsed, waitsFor, history>>

LookupMiss(l, f) ==
  /\ status[Owner[l]] = "running" /\ f \in Reads[Owner[l]]
  /\ pc[l] = "idle" /\ sources[f] = 0
  /\ file' = [file EXCEPT ![l] = f]
  /\ Goto(l, "miss")
  /\ UNCHANGED <<order, disk, sources, inflight, parsed, waitsFor, seen, history>>

\* Under the inflight mutex, a parse may have landed since the first look, or
\* another thread may be at it.
NotLanded(f) == FALSE
Landed(f) == sources[f] # 0
Taken(f) == inflight[f] # Nobody

EnterHit(l) ==
  /\ pc[l] = "miss" /\ Landed(file[l])
  /\ Return(l, sources[file[l]])
  /\ Goto(l, "idle")
  /\ UNCHANGED <<order, disk, sources, inflight, history>>

EnterWait(l) ==
  /\ pc[l] = "miss" /\ ~Landed(file[l]) /\ Taken(file[l])
  /\ waitsFor' = [waitsFor EXCEPT ![l] = inflight[file[l]]]
  /\ Goto(l, "waiting")
  /\ UNCHANGED <<order, disk, sources, inflight, file, parsed, seen, history>>

EnterParse(l) ==
  /\ pc[l] = "miss" /\ ~Landed(file[l]) /\ ~Taken(file[l])
  /\ inflight' = [inflight EXCEPT ![file[l]] = l]
  /\ Goto(l, "parse")
  /\ UNCHANGED <<order, disk, sources, file, parsed, waitsFor, seen, history>>

ParseUnpublished(l) ==
  /\ pc[l] = "parse"
  /\ parsed' = [parsed EXCEPT ![l] = disk[file[l]]]
  /\ Goto(l, "unlist")
  /\ UNCHANGED <<order, disk, sources, inflight, file, waitsFor, seen, history>>

\* The host reads and parses the file; a file that is not there gives nothing.
Parse(l) ==
  /\ pc[l] = "parse"
  /\ parsed' = [parsed EXCEPT ![l] = disk[file[l]]]
  /\ Goto(l, "publish")
  /\ UNCHANGED <<order, disk, sources, inflight, file, waitsFor, seen, history>>

\* The parser panics: the thread unwinds out of get_source_file with its entry
\* still listed, and its project's task ends as a crash.
ParsePanics(l) ==
  /\ pc[l] = "parse"
  /\ Goto(l, "panicked")
  /\ UNCHANGED <<order, disk, sources, inflight, file, parsed, waitsFor, seen, history>>

\* A failed parse is not cached.
Publish(l) ==
  /\ pc[l] = "publish"
  /\ sources' = IF parsed[l] = 0 THEN sources ELSE [sources EXCEPT ![file[l]] = parsed[l]]
  /\ Goto(l, "unlist")
  /\ UNCHANGED <<order, disk, inflight, file, parsed, waitsFor, seen, history>>

Unlist(l) ==
  /\ pc[l] = "unlist"
  /\ inflight' = [inflight EXCEPT ![file[l]] = Nobody]
  /\ Goto(l, "land")
  /\ UNCHANGED <<order, disk, sources, file, parsed, waitsFor, seen, history>>

Waiters(l) == {w \in Loaders : pc[w] = "waiting" /\ waitsFor[w] = l}

NotifyOne(l) == IF Waiters(l) = {} THEN {} ELSE {CHOOSE w \in Waiters(l) : TRUE}
Woken(l) == Waiters(l)

\* done = true and notify_all; the lookup returns what it parsed.
Land(l) ==
  /\ pc[l] = "land"
  /\ Return(l, parsed[l])
  /\ pc' = [w \in Loaders |->
       IF w = l THEN "idle" ELSE IF w \in Woken(l) THEN "landed" ELSE pc[w]]
  /\ UNCHANGED <<order, disk, sources, inflight, history>>

\* A waiter returns what sources holds now.
Wake(l) ==
  /\ pc[l] = "landed"
  /\ Return(l, sources[file[l]])
  /\ Goto(l, "idle")
  /\ UNCHANGED <<order, disk, sources, inflight, history>>

LookupStep(l) ==
  \/ EnterHit(l) \/ EnterWait(l) \/ EnterParse(l) \/ Parse(l)
  \/ Publish(l) \/ Unlist(l) \/ Land(l) \/ Wake(l)
-----------------------------------------------------------------------------
thread == <<pc, file, parsed, waitsFor>>
cache == <<disk, sources, inflight, thread, seen, history>>
Threads(p) == {l \in Loaders : Owner[l] = p}

Start(p) == Order!Start(p) /\ UNCHANGED cache

\* A task ends when all threads of its program have come back.
Finish(p) ==
  /\ \A l \in Threads(p) : pc[l] = "idle"
  /\ Order!Finish(p)
  /\ UNCHANGED cache

Crash(p) ==
  /\ \A l \in Threads(p) : pc[l] \in {"idle", "panicked"}
  /\ \E l \in Threads(p) : pc[l] = "panicked"
  /\ Order!Crash(p)
  /\ UNCHANGED cache

Stop == ~stopped /\ Order!Stop /\ UNCHANGED cache

Bump(fs) ==
  /\ \A f \in fs : disk[f] < MaxVersion
  /\ disk' = [f \in Files |-> IF f \in fs THEN disk[f] + 1 ELSE disk[f]]
  /\ UNCHANGED <<order, sources, inflight, thread, seen, history>>

\* A project writes its declarations while it runs.
Emit(p) == status[p] = "running" /\ Bump({f \in Files : Writer[f] = p})

\* Somebody saves a file that no project writes, at any time.
Edit(f) == Writer[f] = Nobody /\ Bump({f})

KeptCache == sources
FreshCache == NoFile

\* The next drain of the session makes a cache of its own.
NextDrain ==
  /\ drains < MaxDrains
  /\ Order!NextDrain
  /\ drains' = drains + 1
  /\ sources' = FreshCache
  /\ inflight' = NoParse
  /\ seen' = [f \in Files |-> {}]
  /\ missing' = {f \in Files : disk[f] = 0}
  /\ UNCHANGED <<disk, thread>>

Next ==
  \/ \E l \in Loaders, f \in Files : LookupHit(l, f) \/ LookupMiss(l, f)
  \/ \E l \in Loaders : LookupStep(l) \/ ParsePanics(l)
  \/ \E p \in Projects : Start(p) \/ Finish(p) \/ Crash(p) \/ Emit(p)
  \/ \E f \in Files : Edit(f)
  \/ Stop
  \/ NextDrain

Spec == Init /\ [][Next]_vars

\* The operating system runs every thread that can run: a lookup goes on once it
\* has begun.  No project has to start, to read or to write anything.
FairSpec == Spec /\ \A l \in Loaders : WF_vars(LookupStep(l))
-----------------------------------------------------------------------------
\* A parse counts from the moment it read the file, before it can be found.
Publishing == {l \in Loaders : pc[l] = "publish"}
Memo == [f \in Files |-> IF sources[f] = 0 /\ inflight[f] \in Publishing THEN parsed[inflight[f]] ELSE sources[f]]

\* A file was found missing when a thread read nothing, or when nothing was answered.
Absent ==
  {f \in Files :
     \/ 0 \in seen[f]
     \/ \E l \in Loaders : file[l] = f /\ pc[l] \in {"publish", "unlist", "land"} /\ parsed[l] = 0}

Promise == INSTANCE SharedParses WITH memo <- Memo, absent <- Absent, answers <- seen

\* The two tables, their two mutexes and the waiting threads together do what one
\* parse per file and drain would: "one parse per options, however many callers ask at
\* once" (get_source_file), although the file changes on disk while programs load.
ImplementsSharedParses == Promise!Spec
-----------------------------------------------------------------------------
Stages == {"idle", "miss", "waiting", "landed", "parse", "publish", "unlist",
           "land", "panicked"}

\* The type of every variable of the cache and of the drain around it.
TypeOK ==
  /\ status \in [Projects -> Order!Status]
  /\ stopped \in BOOLEAN
  /\ disk \in [Files -> Versions]
  /\ sources \in [Files -> Versions]
  /\ inflight \in [Files -> Loaders \cup {Nobody}]
  /\ pc \in [Loaders -> Stages]
  /\ file \in [Loaders -> Files \cup {Nobody}]
  /\ parsed \in [Loaders -> Versions]
  /\ waitsFor \in [Loaders -> Loaders \cup {Nobody}]
  /\ \A l \in Loaders : pc[l] # "idle" => file[l] \in Files
  /\ \A l \in Loaders : pc[l] \in {"waiting", "landed"} => waitsFor[l] \in Loaders
  /\ seen \in [Files -> SUBSET Versions]
  /\ missing \subseteq Files
  /\ drains \in Nat

\* Nobody parses a file that another thread is parsing.
SingleFlight ==
  \A l, m \in Loaders :
    l # m /\ pc[l] \in {"parse", "publish"} /\ pc[m] \in {"parse", "publish"} => file[l] # file[m]

\* All programs of a drain are made of the same parse of a shared file, although
\* the file changes on disk while they load (get_source_file: "one parse per
\* options, however many callers ask at once").
OneSnapshot == \A f \in Files : \A v, w \in seen[f] \ {0} : v = w

\* No program reads a declaration older than what the project that emits it has
\* written by then, in this drain or in an earlier one.
FreshDeclarations ==
  \A f \in Files : Writer[f] # Nobody => seen[f] \subseteq {0, disk[f]}

\* A lookup comes back empty only for a file that was not there when the drain
\* began: no waiter is woken before the parse it waited for can be found.
NeverLost == \A f \in Files : 0 \in seen[f] => f \in missing

\* While no parse panics, every lookup that has begun comes back.
LookupsReturn ==
  [](\A l \in Loaders : pc[l] # "panicked") =>
    \A l \in Loaders : [](pc[l] # "idle" => <>(pc[l] = "idle"))
=============================================================================
