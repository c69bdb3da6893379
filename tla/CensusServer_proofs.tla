------------------------- MODULE CensusServer_proofs -------------------------
(***************************************************************************)
(* The language server, for any number of files, tsconfigs and texts: one  *)
(* loop per tsconfig, silence after the end, and the latest text shown     *)
(* once the server rests.                                                  *)
(***************************************************************************)
EXTENDS CensusServer, FiniteSetTheorems, TLAPS

USE DEF serving, texts, scheduling, waking, censuses, showing

\* The message loop is about to schedule a run of c.
Requested(c) == pc \in {"immediate", "debounced"} /\ request = c
RequestKnown == pc \in {"immediate", "debounced"} => request \in Configs

\* Scheduler::running says which tsconfigs have a loop, so that nobody starts a second.
RunningHasLoop == \A c \in Configs : c \in running <=> <<c, 1>> \in Busy \/ <<c, 2>> \in Busy
Counted == loops = Cardinality(Busy)

\* The channel holds a job of each loop that waits for one, once.
JobsQueued ==
  /\ \A i \in 1 .. Len(jobs) : stage[jobs[i]] = "queued"
  /\ \A i, j \in 1 .. Len(jobs) : jobs[i] = jobs[j] => i = j

\* close ends the timer and waits for the loops; after it nothing is started.
Closing ==
  /\ pc \in {"close", "asleep", "join", "returned"} => cancelled = "yes"
  /\ pc \in {"asleep", "join", "returned"} => closed = "yes"
  /\ pc \in {"join", "returned"} => Busy = {}
  /\ pc = "returned" => timer = "ended"
  /\ closed = "yes" => pc \in {"close", "asleep", "join", "returned"} /\ pending = {} /\ timer # "firing"
  /\ firing # {} => timer = "firing"

\* What the editor shows for a file of one tsconfig is what its runs published.
ScreenPublished ==
  /\ \A c \in Configs : published[c] \subseteq Covers[c]
  /\ output = "open" => \A f \in Files :
       Alone(f) /\ f \notin published[Owner[f]] => screen[f] = None

\* A run under way is about the text its file has, or another will follow it.
Changed(c) == Requested(c) \/ c \in dirty
RunCurrent(l, f) ==
  /\ stage[l] \in {"overlays", "queued"} => Compiled(l)[f] = Text(f) \/ Changed(l[1])
  /\ stage[l] \in {"answered", "publish"} =>
       seen[l] = NoTexts \/ seen[l][f] = Text(f) \/ Changed(l[1])
RunsCurrent == \A l \in Loops : \A f \in Files : Owner[f] = l[1] => RunCurrent(l, f)

\* A change that no run has taken has a loop to take it, or a debounce to start one.
ChangesTaken ==
  closed = "no" => \A c \in dirty : c \in running \/ c \in pending \/ c \in blind

\* A text that is not shown is on its way: its tsconfig changed, or a run will publish.
WillPublish(l) ==
  \/ stage[l] \in {"snapshot", "overlays", "queued"}
  \/ stage[l] \in {"answered", "publish"} /\ seen[l] # NoTexts
Coming(c) == Changed(c) \/ WillPublish(<<c, 1>>) \/ WillPublish(<<c, 2>>)
Watched(f) == cancelled = "no" /\ output = "open" /\ f \in opened /\ Alone(f) /\ Owner[f] \notin blind
ShownOrComing == \A f \in Files : Watched(f) => screen[f] = Shown(f) \/ Coming(Owner[f])

IInv ==
  /\ Types /\ RequestKnown /\ OneLoopPerConfig /\ RunningHasLoop /\ Counted /\ JobsQueued
  /\ Closing /\ ScreenPublished /\ RunsCurrent /\ ChangesTaken /\ ShownOrComing
-----------------------------------------------------------------------------
(***************************************************************************)
(* Types, and the loops.                                                   *)
(***************************************************************************)
LEMMA OwnersAreConfigs == \A f \in Files : Owner[f] \in Configs
BY CensusAssumption

LEMMA StartTyped ==
  ASSUME Types, NEW c \in Configs, Start(c)
  PROVE  /\ running' \in SUBSET Configs /\ loops' \in Nat /\ blind' \in SUBSET Configs
         /\ stage' \in [Loops -> {"free", "top", "snapshot", "overlays", "queued",
                                  "answered", "publish", "ended"}]
<1>. DEFINE slot == IF stage[<<c, 1>>] = "free" THEN <<c, 1>> ELSE <<c, 2>>
<1>1. slot \in Loops
  BY DEF Loops
<1>. HIDE DEF slot
<1>2. CASE /\ running' = running \cup {c} /\ loops' = loops + 1 /\ blind' = blind
           /\ stage' = [stage EXCEPT ![slot] = "top"]
  BY <1>1, <1>2 DEF Types
<1>3. CASE running' = running /\ loops' = loops /\ blind' = blind \cup {c} /\ stage' = stage
  BY <1>3 DEF Types
<1>. QED BY <1>2, <1>3 DEF Start, slot

LEMMA CompiledTyped ==
  ASSUME Types, NEW l \in Loops PROVE Compiled(l) \in [Files -> Texts]
BY DEF Types, Compiled, Texts

LEMMA BusyCounted ==
  ASSUME Types, Counted
  PROVE  /\ IsFiniteSet(Busy) /\ loops \in Nat
         /\ loops = 0 <=> Busy = {}
<1>1. IsFiniteSet({1, 2})
  <2>1. IsFiniteSet({1}) /\ {1, 2} = {1} \cup {2}
    BY FS_Singleton
  <2>2. IsFiniteSet({1} \cup {2})
    BY <2>1, FS_AddElement
  <2>. QED BY <2>1, <2>2
<1>2. IsFiniteSet(Loops)
  BY <1>1, CensusAssumption, FS_Product DEF Loops
<1>3. IsFiniteSet(Busy)
  BY <1>2, FS_Subset DEF Busy
<1>. QED BY <1>3, FS_EmptySet DEF Types, Counted

LEMMA TypesNext == IInv /\ [Next]_vars => Types' /\ RequestKnown'
<1>. SUFFICES ASSUME IInv, [Next]_vars PROVE Types' /\ RequestKnown'
  OBVIOUS
<1>. USE DEF IInv, Types, RequestKnown
<1>1. CASE Answer \/ Stop \/ Notify \/ Close \/ Return \/ Sleep \/ Timeout \/ Spurious \/ EditorDies
           \/ Over \/ UNCHANGED vars
  BY <1>1 DEF Answer, Stop, Notify, TimerWoken, Close, LoopsOver, Return, Sleep, UntilNext, Timeout,
     Spurious, EditorDies, Over, vars
<1>2. ASSUME NEW f \in Files, DidOpen(f) \/ DidSave(f) \/ DidClose(f) PROVE Types' /\ RequestKnown'
  BY <1>2, OwnersAreConfigs DEF DidOpen, DidSave, DidClose, Notified, Texts
<1>3. ASSUME NEW f \in Files, NEW text \in Versions, DidChange(f, text) PROVE Types' /\ RequestKnown'
  BY <1>3, OwnersAreConfigs DEF DidChange, Notified, Texts
<1>4. CASE ScheduleMore \/ ScheduleNow \/ ScheduleLater
  <2>1. request \in Configs /\ dirty' \in SUBSET Configs /\ request' = None /\ pc' \in {"read", "notify"}
    BY <1>4 DEF ScheduleMore, ScheduleNow, ScheduleLater, Schedule, Marked
  <2>2. CASE ScheduleNow
    BY <2>1, <2>2, StartTyped DEF ScheduleNow, Schedule
  <2>3. CASE ScheduleMore \/ ScheduleLater
    BY <2>1, <2>3 DEF ScheduleMore, ScheduleLater, Schedule
  <2>. QED BY <1>4, <2>2, <2>3
<1>5. ASSUME NEW passed \in SUBSET Configs, Scan(passed) PROVE Types' /\ RequestKnown'
  BY <1>5 DEF Scan
<1>6. ASSUME NEW c \in Configs, Fire(c) PROVE Types' /\ RequestKnown'
  BY <1>6, StartTyped DEF Fire
<1>7. ASSUME NEW l \in Loops, TakeRun(l) \/ SendJob(l) \/ KeepRun(l) \/ NotifyEnd(l)
      PROVE Types' /\ RequestKnown'
  <2>1. CASE TakeRun(l) \/ KeepRun(l)
    BY <2>1 DEF TakeRun, KeepRun
  <2>3. CASE NotifyEnd(l)
    <3>1. timer' \in {"scan", "firing", "timed", "untimed", "ended"} /\ timer' \in {timer, "scan"}
      BY <2>3 DEF NotifyEnd, TimerWoken
    <3>2. pc' \in {pc, "close"}
      BY <2>3 DEF NotifyEnd, CloseWoken
    <3>. QED BY <2>3, <3>1, <3>2 DEF NotifyEnd
  <2>2. CASE SendJob(l)
    BY <2>2 DEF SendJob
  <2>. QED BY <1>7, <2>1, <2>2, <2>3
<1>8. ASSUME NEW l \in Loops, EndLoop(l) PROVE Types' /\ RequestKnown'
  <2>1. l \in Busy
    BY <1>8 DEF EndLoop, Busy
  <2>2. loops # 0
    BY <2>1, BusyCounted
  <2>. QED BY <1>8, <2>2 DEF EndLoop
<1>9. ASSUME NEW l \in Loops, Snapshot(l) \/ DropRun(l) \/ Publish(l) \/ ShowError(l)
      PROVE Types' /\ RequestKnown'
  <2>1. NoTexts \in [Files -> Texts] /\ l[1] \in Configs
    BY DEF NoTexts, Texts, Loops
  <2>2. CASE Snapshot(l)
    <3>. DEFINE copy == [f \in Files |-> IF f \in Covers[l[1]] THEN buffer[f] ELSE None]
    <3>1. copy \in [Files -> Texts]
      BY DEF Texts
    <3>. HIDE DEF copy
    <3>2. snap' = [snap EXCEPT ![l] = copy]
      BY <2>2 DEF Snapshot, copy
    <3>. QED BY <2>2, <2>1, <3>1, <3>2 DEF Snapshot
  <2>3. CASE DropRun(l)
    BY <2>3, <2>1 DEF DropRun
  <2>5. CASE ShowError(l)
    <3>1. cancelled' \in {"no", "yes"}
      BY <2>5 DEF ShowError
    <3>. QED BY <2>5, <3>1 DEF ShowError
  <2>4. CASE Publish(l)
    <3>1. Current(l) \in SUBSET Files
      BY <2>1, CensusAssumption DEF Current
    <3>2. screen' \in [Files -> Texts]
      BY <2>4 DEF Publish, Current, Clears, Texts
    <3>. QED BY <2>4, <2>1, <3>1, <3>2 DEF Publish
  <2>. QED BY <1>9, <2>2, <2>3, <2>4, <2>5
<1>10. CASE Compile
  <2>. DEFINE l == Head(jobs)
  <2>1. l \in Loops /\ jobs' \in Seq(Loops) /\ l[1] \in Configs
    BY <1>10 DEF Compile, Loops
  <2>2. NoTexts \in [Files -> Texts] /\ Compiled(l) \in [Files -> Texts]
    BY <2>1, CompiledTyped DEF NoTexts, Texts
  <2>. QED BY <1>10, <2>1, <2>2 DEF Compile
<1>. QED BY <1>1, <1>2, <1>3, <1>4, <1>5, <1>6, <1>7, <1>8, <1>9, <1>10
         DEF Next, ServeStep, TimerStep, LoopStep

\* What a step does to the loops: nothing, or it starts one, or one ends.
LoopsKept == Busy' = Busy /\ UNCHANGED <<running, loops>>
LoopStarted ==
  /\ closed = "no" /\ closed' = "no"
  /\ \E c \in Configs \ running : \E i \in {1, 2} :
       Busy' = Busy \cup {<<c, i>>} /\ running' = running \cup {c} /\ loops' = loops + 1
LoopEnded ==
  \E l \in Busy : Busy' = Busy \ {l} /\ running' = running \ {l[1]} /\ loops' = loops - 1

LEMMA StartLoops ==
  ASSUME IInv, NEW c \in Configs \ running, Start(c), closed = "no", closed' = "no"
  PROVE  LoopsKept \/ LoopStarted
<1>1. CASE UNCHANGED <<running, loops, stage>>
  BY <1>1 DEF LoopsKept, Busy
<1>2. CASE ~UNCHANGED <<running, loops, stage>>
  <2>1. PICK i \in {1, 2} : stage' = [stage EXCEPT ![<<c, i>>] = "top"]
    BY <1>2 DEF Start
  <2>2. running' = running \cup {c} /\ loops' = loops + 1
    BY <1>2 DEF Start
  <2>3. <<c, i>> \in Loops
    BY DEF Loops
  <2>4. Busy' = Busy \cup {<<c, i>>}
    BY <2>1, <2>3 DEF Busy, IInv, Types
  <2>. QED BY <2>2, <2>4 DEF LoopStarted
<1>. QED BY <1>1, <1>2

LEMMA LoopChanges == IInv /\ [Next]_vars => LoopsKept \/ LoopStarted \/ LoopEnded
<1>. SUFFICES ASSUME IInv, [Next]_vars PROVE LoopsKept \/ LoopStarted \/ LoopEnded
  OBVIOUS
<1>1. CASE Answer \/ Stop \/ ScheduleMore \/ ScheduleLater \/ Notify \/ Close \/ Return \/ Sleep \/ Timeout
           \/ Spurious \/ EditorDies \/ Over \/ UNCHANGED vars
  <2>1. UNCHANGED <<running, loops, stage>>
    BY <1>1 DEF Answer, Stop, Schedule, ScheduleMore, ScheduleLater, Notify, Close, Return, Sleep, Timeout,
       Spurious, EditorDies, Over, vars
  <2>. QED BY <2>1 DEF LoopsKept, Busy
<1>2. ASSUME NEW f \in Files, DidOpen(f) \/ DidSave(f) \/ DidClose(f) \/ \E text \in Versions : DidChange(f, text)
      PROVE  LoopsKept
  BY <1>2 DEF DidOpen, DidSave, DidClose, DidChange, Notified, LoopsKept, Busy
<1>3. CASE ScheduleNow
  <2>1. request \in Configs \ running /\ Start(request) /\ closed = "no" /\ closed' = "no"
    BY <1>3 DEF ScheduleNow, Schedule, Idle, IInv, Types, RequestKnown, Closing
  <2>. QED BY <2>1, StartLoops
<1>4. ASSUME NEW passed \in SUBSET Configs, Scan(passed) PROVE LoopsKept
  BY <1>4 DEF Scan, LoopsKept, Busy
<1>5. ASSUME NEW c \in Configs, Fire(c) PROVE LoopsKept \/ LoopStarted
  <2>1. closed = "no" /\ closed' = "no"
    BY <1>5 DEF Fire, IInv, Types, Closing
  <2>2. CASE Idle(c) /\ c \in dirty
    BY <1>5, <2>1, <2>2, StartLoops DEF Fire, Idle
  <2>3. CASE ~(Idle(c) /\ c \in dirty)
    BY <1>5, <2>3 DEF Fire, LoopsKept, Busy
  <2>. QED BY <2>2, <2>3
<1>6. ASSUME NEW l \in Loops, TakeRun(l) \/ NotifyEnd(l) \/ Snapshot(l) \/ SendJob(l) \/ DropRun(l) \/ KeepRun(l)
                              \/ Publish(l) \/ ShowError(l)
      PROVE  LoopsKept
  <2>1. UNCHANGED <<running, loops>>
    BY <1>6 DEF TakeRun, NotifyEnd, Snapshot, SendJob, DropRun, KeepRun, Publish, ShowError
  <2>2. CASE NotifyEnd(l)
    <3>1. stage[l] = "ended" /\ stage' = [stage EXCEPT ![l] = "free"]
      BY <2>2 DEF NotifyEnd
    <3>. QED BY <2>1, <3>1 DEF LoopsKept, Busy, IInv, Types
  <2>3. CASE ~NotifyEnd(l)
    <3>1. \E s \in {"top", "snapshot", "overlays", "queued", "publish"} : stage' = [stage EXCEPT ![l] = s]
      BY <1>6, <2>3 DEF TakeRun, Snapshot, SendJob, DropRun, KeepRun, Publish, ShowError
    <3>2. l \in Busy
      BY <1>6, <2>3 DEF TakeRun, Snapshot, SendJob, DropRun, KeepRun, Publish, ShowError, Busy
    <3>3. Busy' = Busy
      BY <3>1, <3>2 DEF Busy, IInv, Types
    <3>. QED BY <2>1, <3>3 DEF LoopsKept
  <2>. QED BY <2>2, <2>3
<1>7. ASSUME NEW l \in Loops, EndLoop(l) PROVE LoopEnded
  <2>1. l \in Busy
    BY <1>7 DEF EndLoop, Busy
  <2>2. Busy' = Busy \ {l}
    BY <1>7 DEF EndLoop, Busy, IInv, Types
  <2>. QED BY <1>7, <2>1, <2>2 DEF EndLoop, LoopEnded
<1>8. CASE Compile
  <2>. DEFINE l == Head(jobs)
  <2>1. l \in Loops /\ stage[l] = "queued"
    BY <1>8 DEF Compile, IInv, Types, JobsQueued
  <2>2. stage' = [stage EXCEPT ![l] = "answered"] /\ UNCHANGED <<running, loops>>
    BY <1>8 DEF Compile
  <2>. HIDE DEF l
  <2>3. Busy' = Busy
    BY <2>1, <2>2 DEF Busy, IInv, Types
  <2>. QED BY <2>2, <2>3 DEF LoopsKept
<1>. QED BY <1>1, <1>2, <1>3, <1>4, <1>5, <1>6, <1>7, <1>8 DEF Next, ServeStep, TimerStep, LoopStep

LEMMA LoopsNext == IInv /\ [Next]_vars => OneLoopPerConfig' /\ RunningHasLoop' /\ Counted'
<1>. SUFFICES ASSUME IInv, [Next]_vars PROVE OneLoopPerConfig' /\ RunningHasLoop' /\ Counted'
  OBVIOUS
<1>0. Busy \subseteq Configs \X {1, 2} /\ IsFiniteSet(Busy) /\ Cardinality(Busy) = loops /\ loops \in Nat
  BY BusyCounted DEF Busy, Loops, IInv, Counted
<1>1. CASE LoopsKept
  BY <1>1 DEF LoopsKept, IInv, OneLoopPerConfig, RunningHasLoop, Counted
<1>2. CASE LoopStarted
  <2>1. PICK c \in Configs \ running, i \in {1, 2} :
          Busy' = Busy \cup {<<c, i>>} /\ running' = running \cup {c} /\ loops' = loops + 1
    BY <1>2 DEF LoopStarted
  <2>2. <<c, 1>> \notin Busy /\ <<c, 2>> \notin Busy
    BY DEF IInv, RunningHasLoop
  <2>3. OneLoopPerConfig' /\ RunningHasLoop'
    BY <2>1, <2>2 DEF IInv, OneLoopPerConfig, RunningHasLoop
  <2>4. Cardinality(Busy \cup {<<c, i>>}) = Cardinality(Busy) + 1
    BY <1>0, <2>2, FS_AddElement
  <2>. QED BY <1>0, <2>1, <2>3, <2>4 DEF Counted
<1>3. CASE LoopEnded
  <2>1. PICK l \in Busy : Busy' = Busy \ {l} /\ running' = running \ {l[1]} /\ loops' = loops - 1
    BY <1>3 DEF LoopEnded
  <2>2. PICK c \in Configs, i \in {1, 2} : l = <<c, i>>
    BY <1>0, <2>1
  <2>3. OneLoopPerConfig' /\ RunningHasLoop'
    BY <2>1, <2>2 DEF IInv, OneLoopPerConfig, RunningHasLoop
  <2>4. Cardinality(Busy \ {l}) = Cardinality(Busy) - 1
    BY <1>0, <2>1, FS_RemoveElement
  <2>. QED BY <1>0, <2>1, <2>3, <2>4 DEF Counted
<1>. QED BY <1>1, <1>2, <1>3, LoopChanges
-----------------------------------------------------------------------------
(***************************************************************************)
(* The channel and the end.                                                *)
(***************************************************************************)
LEMMA JobsNext == IInv /\ [Next]_vars => JobsQueued'
<1>. SUFFICES ASSUME IInv, [Next]_vars PROVE JobsQueued'
  OBVIOUS
<1>. USE DEF JobsQueued
<1>0. /\ jobs \in Seq(Loops) /\ \A i \in 1 .. Len(jobs) : jobs[i] \in Loops /\ stage[jobs[i]] = "queued"
      /\ \A i, j \in 1 .. Len(jobs) : jobs[i] = jobs[j] => i = j
  BY DEF IInv, Types
<1>1. ASSUME jobs' = jobs, \A l \in Loops : stage[l] = "queued" => stage'[l] = "queued"
      PROVE  JobsQueued'
  BY <1>0, <1>1
<1>2. CASE Answer \/ Stop \/ ScheduleMore \/ ScheduleLater \/ Notify \/ Close \/ Return \/ Sleep \/ Timeout
           \/ Spurious \/ EditorDies \/ Over \/ UNCHANGED vars
  BY <1>1, <1>2 DEF Answer, Stop, Schedule, ScheduleMore, ScheduleLater, Notify, Close, Return, Sleep, Timeout,
       Spurious, EditorDies, Over, vars
<1>3. ASSUME NEW f \in Files, DidOpen(f) \/ DidSave(f) \/ DidClose(f) \/ \E text \in Versions : DidChange(f, text)
      PROVE  JobsQueued'
  BY <1>1, <1>3 DEF DidOpen, DidSave, DidClose, DidChange, Notified
<1>4. ASSUME NEW c \in Configs \ running, Start(c), jobs' = jobs PROVE JobsQueued'
  <2>1. <<c, 1>> \in Loops /\ <<c, 2>> \in Loops /\ <<c, 1>> \notin Busy /\ <<c, 2>> \notin Busy
    BY DEF IInv, RunningHasLoop, Loops
  <2>2. stage[<<c, 1>>] # "queued" /\ stage[<<c, 2>>] # "queued"
    BY <2>1 DEF Busy
  <2>3. stage' = stage \/ \E l \in {<<c, 1>>, <<c, 2>>} : stage' = [stage EXCEPT ![l] = "top"]
    BY <1>4 DEF Start
  <2>. QED BY <1>1, <1>4, <2>2, <2>3 DEF IInv, Types
<1>5. CASE ScheduleNow
  BY <1>4, <1>5 DEF ScheduleNow, Schedule, Idle, IInv, RequestKnown
<1>6. ASSUME NEW passed \in SUBSET Configs, Scan(passed) PROVE JobsQueued'
  BY <1>1, <1>6 DEF Scan
<1>7. ASSUME NEW c \in Configs, Fire(c) PROVE JobsQueued'
  <2>1. CASE Idle(c) /\ c \in dirty
    BY <1>4, <1>7, <2>1 DEF Fire, Idle
  <2>2. CASE ~(Idle(c) /\ c \in dirty)
    BY <1>1, <1>7, <2>2 DEF Fire
  <2>. QED BY <2>1, <2>2
<1>8. ASSUME NEW l \in Loops, TakeRun(l) \/ EndLoop(l) \/ NotifyEnd(l) \/ Snapshot(l) \/ DropRun(l) \/ KeepRun(l)
                              \/ Publish(l) \/ ShowError(l)
      PROVE  JobsQueued'
  <2>1. jobs' = jobs /\ stage[l] # "queued" /\ \E s : stage' = [stage EXCEPT ![l] = s]
    BY <1>8 DEF TakeRun, EndLoop, NotifyEnd, Snapshot, DropRun, KeepRun, Publish, ShowError
  <2>. QED BY <1>1, <2>1 DEF IInv, Types
<1>9. ASSUME NEW l \in Loops, SendJob(l) PROVE JobsQueued'
  <2>1. jobs' = Append(jobs, l) /\ stage' = [stage EXCEPT ![l] = "queued"] /\ stage[l] = "overlays"
    BY <1>9 DEF SendJob
  <2>2. \A i \in 1 .. Len(jobs) : jobs[i] # l
    BY <1>0, <2>1
  <2>3. /\ Len(jobs') = Len(jobs) + 1 /\ jobs'[Len(jobs) + 1] = l
        /\ \A i \in 1 .. Len(jobs) : jobs'[i] = jobs[i]
    BY <1>0, <2>1
  <2>4. \A i \in 1 .. Len(jobs') : i \in 1 .. Len(jobs) \/ i = Len(jobs) + 1
    BY <1>0, <2>3
  <2>5. stage'[l] = "queued" /\ \A i \in 1 .. Len(jobs) : stage'[jobs[i]] = "queued"
    BY <1>0, <2>1 DEF IInv, Types
  <2>. QED BY <1>0, <2>2, <2>3, <2>4, <2>5
<1>10. CASE Compile
  <2>. DEFINE l == Head(jobs)
  <2>1. /\ jobs # <<>> /\ jobs' = Tail(jobs) /\ stage' = [stage EXCEPT ![l] = "answered"] /\ l = jobs[1]
    BY <1>10 DEF Compile
  <2>2. Len(jobs) >= 1 /\ 1 \in 1 .. Len(jobs) /\ Len(jobs') = Len(jobs) - 1
    BY <1>0, <2>1
  <2>3. \A i \in 1 .. Len(jobs') : i + 1 \in 1 .. Len(jobs) /\ jobs'[i] = jobs[i + 1] /\ i + 1 # 1
    BY <1>0, <2>1, <2>2
  <2>4. \A i \in 1 .. Len(jobs') : jobs'[i] # l /\ jobs'[i] \in Loops /\ stage[jobs'[i]] = "queued"
    BY <1>0, <2>1, <2>2, <2>3
  <2>. HIDE DEF l
  <2>5. \A i \in 1 .. Len(jobs') : stage'[jobs'[i]] = "queued"
    BY <2>1, <2>4 DEF IInv, Types
  <2>6. \A i, j \in 1 .. Len(jobs') : i \in Int /\ j \in Int /\ (i + 1 = j + 1 => i = j)
    OBVIOUS
  <2>7. \A i, j \in 1 .. Len(jobs') : jobs'[i] = jobs'[j] => i = j
    BY <1>0, <2>3, <2>6
  <2>. QED BY <2>5, <2>7
<1>. QED BY <1>2, <1>3, <1>5, <1>6, <1>7, <1>8, <1>9, <1>10 DEF Next, ServeStep, TimerStep, LoopStep

LEMMA ClosingNext == IInv /\ [Next]_vars => Closing'
<1>. SUFFICES ASSUME IInv, [Next]_vars PROVE Closing'
  OBVIOUS
<1>. USE DEF Closing
<1>1. Closing /\ Types
  BY DEF IInv
<1>2. Busy = {} /\ closed = "yes" => Busy' = {}
  BY LoopChanges DEF LoopsKept, LoopStarted, LoopEnded
<1>3. CASE Answer \/ Stop \/ Notify \/ Close \/ Return \/ Sleep \/ Timeout \/ Spurious \/ EditorDies
           \/ Over \/ UNCHANGED vars
  <2>1. Busy' = Busy
    BY <1>3 DEF Answer, Stop, Notify, Close, Return, Sleep, Timeout, Spurious, EditorDies, Over, vars, Busy
  <2>2. CASE Answer \/ Stop \/ EditorDies \/ Over \/ UNCHANGED vars
    BY <1>1, <2>1, <2>2 DEF Answer, Stop, EditorDies, Over, vars, Types
  <2>3. CASE Notify \/ Return \/ Sleep \/ Timeout \/ Spurious
    BY <1>1, <2>1, <2>3 DEF Notify, TimerWoken, Return, Sleep, UntilNext, Timeout, Spurious, Types
  <2>4. CASE Close
    <3>1. loops = 0 => Busy = {}
      BY BusyCounted DEF IInv
    <3>2. timer' \in {timer, "scan"} /\ pc' \in {"join", "asleep"} /\ (pc' = "join" => loops = 0)
      BY <2>4 DEF Close, TimerWoken, LoopsOver
    <3>. QED BY <1>1, <2>1, <2>4, <3>1, <3>2 DEF Close, Unlocked
  <2>. QED BY <1>3, <2>2, <2>3, <2>4
<1>4. ASSUME NEW f \in Files, DidOpen(f) \/ DidSave(f) \/ DidClose(f) \/ \E text \in Versions : DidChange(f, text)
      PROVE  Closing'
  <2>1. pc = "read" /\ pc' \in {"immediate", "debounced"} /\ UNCHANGED <<closed, cancelled, pending, timer, firing>>
    BY <1>4 DEF DidOpen, DidSave, DidClose, DidChange, Notified
  <2>. QED BY <1>1, <2>1
<1>5. CASE ScheduleMore \/ ScheduleNow \/ ScheduleLater
  <2>1. /\ pc \in {"immediate", "debounced"} /\ pc' \in {"read", "notify"}
        /\ UNCHANGED <<closed, cancelled, timer, firing>>
    BY <1>5 DEF Schedule, ScheduleMore, ScheduleNow, ScheduleLater
  <2>. QED BY <1>1, <2>1
<1>6. ASSUME NEW passed \in SUBSET Configs, Scan(passed) PROVE Closing'
  BY <1>1, <1>2, <1>6 DEF Scan
<1>7. ASSUME NEW c \in Configs, Fire(c) PROVE Closing'
  BY <1>1, <1>7 DEF Fire
<1>8. ASSUME NEW l \in Loops, NotifyEnd(l) PROVE Closing'
  BY <1>1, <1>2, <1>8 DEF NotifyEnd, TimerWoken, CloseWoken
<1>9. ASSUME NEW l \in Loops, TakeRun(l) \/ EndLoop(l) \/ Snapshot(l) \/ SendJob(l) \/ DropRun(l) \/ KeepRun(l)
                              \/ Publish(l) \/ ShowError(l)
      PROVE  Closing'
  <2>1. UNCHANGED <<pc, closed, pending, timer, firing>> /\ (cancelled = "yes" => cancelled' = "yes")
    BY <1>9 DEF TakeRun, EndLoop, Snapshot, SendJob, DropRun, KeepRun, Publish, ShowError
  <2>. QED BY <1>1, <1>2, <2>1
<1>10. CASE Compile
  BY <1>1, <1>2, <1>10 DEF Compile
<1>. QED BY <1>3, <1>4, <1>5, <1>6, <1>7, <1>8, <1>9, <1>10 DEF Next, ServeStep, TimerStep, LoopStep
-----------------------------------------------------------------------------
(***************************************************************************)
(* The latest text.                                                        *)
(***************************************************************************)
LEMMA ScreenNext == IInv /\ [Next]_vars => ScreenPublished'
<1>. SUFFICES ASSUME IInv, [Next]_vars PROVE ScreenPublished'
  OBVIOUS
<1>1. ASSUME UNCHANGED <<published, screen>>, output' = "open" => output = "open" PROVE ScreenPublished'
  BY <1>1 DEF ScreenPublished, Alone, IInv
<1>2. ASSUME NEW l \in Loops, Publish(l) PROVE ScreenPublished'
  <2>1. l[1] \in Configs
    BY DEF Loops
  <2>2. /\ published' = [published EXCEPT ![l[1]] = Current(l)] /\ output' = output
        /\ output = "open" => screen' = [f \in Files |-> IF f \in Current(l) THEN seen[l][f]
                                                       ELSE IF f \in Clears(l) THEN None ELSE screen[f]]
    BY <1>2 DEF Publish
  <2>3. Current(l) \subseteq Covers[l[1]]
    BY DEF Current
  <2>4. \A c \in Configs : published'[c] \subseteq Covers[c]
    BY <2>1, <2>2, <2>3 DEF IInv, Types, ScreenPublished
  <2>5. ASSUME output' = "open", NEW f \in Files, Alone(f), f \notin published'[Owner[f]]
        PROVE  screen'[f] = None
    <3>1. Owner[f] \in Configs
      BY OwnersAreConfigs
    <3>2. CASE Owner[f] = l[1]
      <4>1. f \notin Current(l)
        BY <2>1, <2>2, <2>5, <3>2 DEF IInv, Types
      <4>2. f \in published[l[1]] => f \in Clears(l)
        BY <4>1 DEF Clears
      <4>. QED BY <2>2, <2>5, <3>2, <4>1, <4>2 DEF IInv, ScreenPublished
    <3>3. CASE Owner[f] # l[1]
      <4>1. f \notin Covers[l[1]] /\ f \notin published[Owner[f]]
        BY <2>1, <2>2, <2>5, <3>1, <3>3 DEF Alone, IInv, Types
      <4>2. f \notin Current(l) /\ (f \in Clears(l) \/ screen[f] = None)
        BY <2>2, <2>3, <2>5, <4>1 DEF IInv, ScreenPublished
      <4>. QED BY <2>2, <2>5, <4>2
    <3>. QED BY <3>2, <3>3
  <2>. QED BY <2>4, <2>5 DEF ScreenPublished, Alone
<1>3. ASSUME NEW l \in Loops, LoopStep(l), ~Publish(l) PROVE ScreenPublished'
  BY <1>1, <1>3 DEF LoopStep, TakeRun, EndLoop, NotifyEnd, Snapshot, SendJob, DropRun, KeepRun, ShowError
<1>4. CASE Answer \/ Stop \/ ServeStep \/ Compile \/ EditorDies \/ Over \/ UNCHANGED vars
  BY <1>1, <1>4 DEF Answer, Stop, ServeStep, Schedule, ScheduleMore, ScheduleNow, ScheduleLater, Notify, Close,
       Return, Compile, EditorDies, Over, vars
<1>5. ASSUME NEW f \in Files, DidOpen(f) \/ DidSave(f) \/ DidClose(f) \/ \E text \in Versions : DidChange(f, text)
      PROVE  ScreenPublished'
  BY <1>1, <1>5 DEF DidOpen, DidSave, DidClose, DidChange, Notified
<1>6. CASE TimerStep \/ Spurious \/ \E passed \in SUBSET Configs : Scan(passed)
  BY <1>1, <1>6 DEF TimerStep, Scan, Fire, Sleep, Timeout, Spurious
<1>. QED BY <1>2, <1>3, <1>4, <1>5, <1>6 DEF Next

LEMMA RunKept ==
  ASSUME NEW l \in Loops, NEW f \in Files, Owner[f] = l[1], RunCurrent(l, f),
         stage'[l] \in {stage[l], "free", "top", "snapshot", "ended"},
         snap'[l] = snap[l], seen'[l] = seen[l], Changed(l[1]) => Changed(l[1])',
         UNCHANGED <<disk[f], buffer[f]>> \/ Changed(l[1])'
  PROVE  RunCurrent(l, f)'
<1>1. CASE Changed(l[1])'
  BY <1>1 DEF RunCurrent
<1>2. CASE UNCHANGED <<disk[f], buffer[f]>> /\ ~Changed(l[1])
  <2>1. Compiled(l)'[f] = Compiled(l)[f] /\ Text(f)' = Text(f)
    BY <1>2 DEF Compiled, Text
  <2>. QED BY <1>2, <2>1 DEF RunCurrent, NoTexts
<1>. QED BY <1>1, <1>2

\* A notification changes the text of one file, whose tsconfig is about to be scheduled.
LEMMA NotifiedChanges ==
  ASSUME IInv, NEW g \in Files,
         DidOpen(g) \/ DidSave(g) \/ DidClose(g) \/ \E text \in Versions : DidChange(g, text)
  PROVE  /\ \A f \in Files : f # g => UNCHANGED <<disk[f], buffer[f]>>
         /\ Requested(Owner[g])' /\ (\A c \in Configs : ~Requested(c))
         /\ opened' \subseteq opened \cup {g}
         /\ UNCHANGED <<scheduling, waking, censuses, showing, blind>>
<1>1. /\ pc = "read" /\ pc' \in {"immediate", "debounced"} /\ request' = Owner[g]
      /\ UNCHANGED <<scheduling, waking, censuses, showing, blind>>
  BY DEF DidOpen, DidSave, DidClose, DidChange, Notified
<1>2. \A f \in Files : f # g => UNCHANGED <<disk[f], buffer[f]>>
  BY DEF DidOpen, DidSave, DidClose, DidChange, IInv, Types
<1>3. opened' \subseteq opened \cup {g}
  BY DEF DidOpen, DidSave, DidClose, DidChange
<1>. QED BY <1>1, <1>2, <1>3 DEF Requested

\* Scheduling a run turns the request into a mark.
LEMMA ScheduleMarks ==
  ASSUME IInv, Schedule, pc' \in {"read", "notify"}
  PROVE  /\ request \in Configs /\ dirty' = dirty \cup {request}
         /\ \A c \in Configs : Changed(c) <=> Changed(c)'
BY DEF IInv, RequestKnown, Schedule, Marked, Changed, Requested

\* Start touches no loop that runs.
LEMMA StartStages ==
  ASSUME IInv, NEW c \in Configs \ running, Start(c)
  PROVE  /\ \A l \in Loops : stage'[l] = stage[l] \/ (stage[l] \in {"free", "ended"} /\ stage'[l] = "top")
         /\ running \subseteq running' /\ blind \subseteq blind' /\ c \in running' \cup blind'
<1>1. <<c, 1>> \in Loops /\ <<c, 2>> \in Loops
  BY DEF Loops
<1>2. stage[<<c, 1>>] \in {"free", "ended"} /\ stage[<<c, 2>>] \in {"free", "ended"}
  BY <1>1 DEF IInv, RunningHasLoop, Busy
<1>3. stage' = stage \/ \E l \in {<<c, 1>>, <<c, 2>>} : stage' = [stage EXCEPT ![l] = "top"]
  BY DEF Start
<1>4. \A l \in Loops : stage'[l] = stage[l] \/ (stage[l] \in {"free", "ended"} /\ stage'[l] = "top")
  BY <1>1, <1>2, <1>3 DEF IInv, Types
<1>. QED BY <1>4 DEF Start

LEMMA RunsNext == IInv /\ [Next]_vars => RunsCurrent'
<1>. SUFFICES ASSUME IInv, [Next]_vars, NEW k \in Loops, NEW f \in Files, Owner[f] = k[1]
              PROVE  RunCurrent(k, f)'
  BY DEF RunsCurrent
<1>0. RunCurrent(k, f) /\ k[1] \in Configs
  BY DEF IInv, RunsCurrent, Loops
<1>1. CASE Answer \/ Stop \/ Notify \/ Close \/ Return \/ Sleep \/ Timeout \/ Spurious \/ EditorDies
           \/ Over \/ UNCHANGED vars
  <2>1. /\ UNCHANGED <<disk, buffer, stage, snap, seen, dirty, request>>
        /\ pc \in {"immediate", "debounced"} => pc' = pc
    BY <1>1 DEF Answer, Stop, Notify, Close, Return, Sleep, Timeout, Spurious, EditorDies, Over, vars
  <2>. QED BY <1>0, <2>1, RunKept DEF Changed, Requested
<1>2. ASSUME NEW g \in Files, DidOpen(g) \/ DidSave(g) \/ DidClose(g) \/ \E text \in Versions : DidChange(g, text)
      PROVE  RunCurrent(k, f)'
  <2>1. Changed(k[1]) => Changed(k[1])'
    BY <1>0, <1>2, NotifiedChanges DEF Changed
  <2>2. UNCHANGED <<disk[f], buffer[f]>> \/ Changed(k[1])'
    BY <1>2, NotifiedChanges DEF Changed
  <2>. QED BY <1>0, <1>2, <2>1, <2>2, NotifiedChanges, RunKept
<1>3. CASE ScheduleMore \/ ScheduleNow \/ ScheduleLater
  <2>1. Schedule /\ pc' \in {"read", "notify"}
    BY <1>3 DEF ScheduleMore, ScheduleNow, ScheduleLater
  <2>2. UNCHANGED <<disk, buffer, snap, seen>> /\ (Changed(k[1]) <=> Changed(k[1])')
    BY <1>0, <2>1, ScheduleMarks DEF Schedule
  <2>3. stage'[k] \in {stage[k], "top"}
    BY <1>3, <2>1, StartStages, ScheduleMarks DEF ScheduleMore, ScheduleNow, ScheduleLater, Idle
  <2>. QED BY <1>0, <2>2, <2>3, RunKept
<1>4. ASSUME NEW passed \in SUBSET Configs, Scan(passed) PROVE RunCurrent(k, f)'
  BY <1>0, <1>4, RunKept DEF Scan, Changed, Requested
<1>5. ASSUME NEW c \in Configs, Fire(c) PROVE RunCurrent(k, f)'
  <2>1. UNCHANGED <<pc, request, dirty, disk, buffer, snap, seen>>
    BY <1>5 DEF Fire
  <2>2. stage'[k] \in {stage[k], "top"}
    BY <1>5, StartStages DEF Fire, Idle
  <2>. QED BY <1>0, <2>1, <2>2, RunKept DEF Changed, Requested
<1>6. ASSUME NEW l \in Loops, TakeRun(l) PROVE RunCurrent(k, f)'
  <2>1. stage[l] = "top" /\ stage' = [stage EXCEPT ![l] = "snapshot"] /\ dirty' = dirty \ {l[1]}
        /\ UNCHANGED <<pc, request, disk, buffer, snap, seen>>
    BY <1>6 DEF TakeRun
  <2>2. CASE l[1] = k[1]
    <3>1. l \in Busy /\ (k = l \/ k \notin Busy)
      BY <2>1, <2>2 DEF IInv, OneLoopPerConfig, Busy, Loops
    <3>2. stage'[k] \in {"snapshot", "free", "ended"}
      BY <2>1, <3>1 DEF Busy, IInv, Types
    <3>. QED BY <3>2 DEF RunCurrent
  <2>3. CASE l[1] # k[1]
    <3>1. stage'[k] = stage[k]
      BY <2>1, <2>3 DEF IInv, Types
    <3>. QED BY <1>0, <2>1, <2>3, <3>1, RunKept DEF Changed, Requested
  <2>. QED BY <2>2, <2>3
<1>7. ASSUME NEW l \in Loops, EndLoop(l) \/ NotifyEnd(l) PROVE RunCurrent(k, f)'
  <2>1. /\ UNCHANGED <<request, dirty, disk, buffer, snap, seen>>
        /\ pc \in {"immediate", "debounced"} => pc' = pc
    BY <1>7 DEF EndLoop, NotifyEnd, CloseWoken
  <2>2. stage'[k] \in {stage[k], "ended", "free"}
    BY <1>7 DEF EndLoop, NotifyEnd, IInv, Types
  <2>. QED BY <1>0, <2>1, <2>2, RunKept DEF Changed, Requested
<1>8. ASSUME NEW l \in Loops, Snapshot(l) \/ SendJob(l) \/ DropRun(l) \/ KeepRun(l) \/ Publish(l) \/ ShowError(l)
      PROVE  RunCurrent(k, f)'
  <2>1. UNCHANGED <<pc, request, dirty, disk, buffer>>
    BY <1>8 DEF Snapshot, SendJob, DropRun, KeepRun, Publish, ShowError
  <2>2. k # l => stage'[k] = stage[k] /\ snap'[k] = snap[k] /\ seen'[k] = seen[k]
    BY <1>8 DEF Snapshot, SendJob, DropRun, KeepRun, Publish, ShowError, IInv, Types
  <2>3. CASE k # l
    BY <1>0, <2>1, <2>2, <2>3, RunKept DEF Changed, Requested
  <2>4. CASE k = l /\ Snapshot(l)
    <3>1. stage'[k] = "overlays" /\ snap'[k] = [g \in Files |-> IF g \in Covers[l[1]] THEN buffer[g] ELSE None]
      BY <2>4 DEF Snapshot, IInv, Types
    <3>2. f \in Covers[k[1]]
      BY CensusAssumption
    <3>3. Compiled(k)'[f] = IF buffer[f] = None THEN disk[f] ELSE buffer[f]
      BY <2>1, <2>4, <3>1, <3>2 DEF Compiled
    <3>. QED BY <2>1, <3>1, <3>3 DEF RunCurrent, Text
  <2>5. CASE k = l /\ (SendJob(l) \/ KeepRun(l))
    <3>1. /\ snap'[k] = snap[k] /\ seen'[k] = seen[k]
          /\ <<stage[k], stage'[k]>> \in {<<"overlays", "queued">>, <<"answered", "publish">>}
      BY <2>5 DEF SendJob, KeepRun, IInv, Types
    <3>2. Compiled(k)'[f] = Compiled(k)[f] /\ Text(f)' = Text(f) /\ (Changed(k[1]) => Changed(k[1])')
      BY <2>1, <3>1 DEF Compiled, Text, Changed, Requested
    <3>. QED BY <1>0, <3>1, <3>2 DEF RunCurrent, NoTexts
  <2>6. CASE k = l /\ (DropRun(l) \/ Publish(l) \/ ShowError(l))
    <3>1. stage'[k] = "top"
      BY <2>6 DEF DropRun, Publish, ShowError, IInv, Types
    <3>. QED BY <3>1 DEF RunCurrent
  <2>. QED BY <1>8, <2>3, <2>4, <2>5, <2>6
<1>9. CASE Compile
  <2>. DEFINE l == Head(jobs)
  <2>1. l \in Loops /\ stage[l] = "queued"
    BY <1>9 DEF Compile, IInv, Types, JobsQueued
  <2>2. /\ UNCHANGED <<pc, request, dirty, disk, buffer>> /\ stage' = [stage EXCEPT ![l] = "answered"]
        /\ snap' = [snap EXCEPT ![l] = NoTexts]
        /\ seen' = [seen EXCEPT ![l] = Compiled(l)] \/ seen' = [seen EXCEPT ![l] = NoTexts]
    BY <1>9 DEF Compile
  <2>. HIDE DEF l
  <2>3. CASE k # l
    <3>1. stage'[k] = stage[k] /\ snap'[k] = snap[k] /\ seen'[k] = seen[k]
      BY <2>1, <2>2, <2>3 DEF IInv, Types
    <3>. QED BY <1>0, <2>2, <3>1, RunKept DEF Changed, Requested
  <2>4. CASE k = l
    <3>1. stage'[k] = "answered" /\ (seen'[k] = Compiled(k) \/ seen'[k] = NoTexts)
      BY <2>1, <2>2, <2>4 DEF IInv, Types
    <3>2. Text(f)' = Text(f) /\ (Changed(k[1]) => Changed(k[1])') /\ NoTexts' = NoTexts
      BY <2>2 DEF Text, Changed, Requested, NoTexts
    <3>. QED BY <1>0, <2>1, <2>4, <3>1, <3>2 DEF RunCurrent
  <2>. QED BY <2>3, <2>4
<1>. QED BY <1>1, <1>2, <1>3, <1>4, <1>5, <1>6, <1>7, <1>8, <1>9 DEF Next, ServeStep, TimerStep, LoopStep

LEMMA TakenNext == IInv /\ [Next]_vars => ChangesTaken'
<1>. SUFFICES ASSUME IInv, [Next]_vars PROVE ChangesTaken'
  OBVIOUS
<1>. USE DEF ChangesTaken
<1>0. ChangesTaken
  BY DEF IInv
<1>1. ASSUME closed' = "no" => closed = "no", dirty' \subseteq dirty,
             running \subseteq running', pending \subseteq pending', blind \subseteq blind'
      PROVE  ChangesTaken'
  BY <1>0, <1>1
<1>2. CASE Answer \/ Stop \/ Notify \/ Return \/ Sleep \/ Timeout \/ Spurious \/ EditorDies \/ Over \/ UNCHANGED vars
  BY <1>1, <1>2 DEF Answer, Stop, Notify, Return, Sleep, Timeout, Spurious, EditorDies, Over, vars
<1>3. CASE Close
  BY <1>3 DEF Close
<1>4. ASSUME NEW f \in Files, DidOpen(f) \/ DidSave(f) \/ DidClose(f) \/ \E text \in Versions : DidChange(f, text)
      PROVE  ChangesTaken'
  BY <1>1, <1>4, NotifiedChanges
<1>5. CASE ScheduleMore \/ ScheduleNow \/ ScheduleLater
  <2>1. Schedule /\ pc' \in {"read", "notify"} /\ closed' = closed
    BY <1>5 DEF ScheduleMore, ScheduleNow, ScheduleLater, Schedule
  <2>2. request \in Configs /\ dirty' = dirty \cup {request}
    BY <2>1, ScheduleMarks
  <2>3. CASE ScheduleMore
    BY <1>0, <2>1, <2>2, <2>3 DEF ScheduleMore, Idle
  <2>4. CASE ScheduleNow
    <3>1. running \subseteq running' /\ blind \subseteq blind' /\ request \in running' \cup blind'
      BY <2>2, <2>4, StartStages DEF ScheduleNow, Idle
    <3>. QED BY <1>0, <2>1, <2>2, <2>4, <3>1 DEF ScheduleNow
  <2>5. CASE ScheduleLater
    BY <1>0, <2>1, <2>2, <2>5 DEF ScheduleLater
  <2>. QED BY <1>5, <2>3, <2>4, <2>5
<1>6. ASSUME NEW passed \in SUBSET Configs, Scan(passed) PROVE ChangesTaken'
  BY <1>1, <1>6 DEF Scan
<1>7. ASSUME NEW c \in Configs, Fire(c) PROVE ChangesTaken'
  <2>1. dirty' = dirty /\ closed' = closed /\ pending' = pending \ {c}
    BY <1>7 DEF Fire
  <2>2. CASE Idle(c) /\ c \in dirty
    <3>1. running \subseteq running' /\ blind \subseteq blind' /\ c \in running' \cup blind'
      BY <1>7, <2>2, StartStages DEF Fire, Idle
    <3>. QED BY <1>0, <2>1, <3>1
  <2>3. CASE ~(Idle(c) /\ c \in dirty)
    BY <1>0, <1>7, <2>1, <2>3 DEF Fire, Idle
  <2>. QED BY <2>2, <2>3
<1>8. ASSUME NEW l \in Loops, TakeRun(l) \/ NotifyEnd(l) \/ Snapshot(l) \/ SendJob(l) \/ DropRun(l) \/ KeepRun(l)
                              \/ ShowError(l)
      PROVE  ChangesTaken'
  BY <1>1, <1>8 DEF TakeRun, NotifyEnd, Snapshot, SendJob, DropRun, KeepRun, ShowError
<1>9. ASSUME NEW l \in Loops, EndLoop(l) PROVE ChangesTaken'
  BY <1>0, <1>9 DEF EndLoop, IInv, Types
<1>10. ASSUME NEW l \in Loops, Publish(l) PROVE ChangesTaken'
  <2>1. l \in Busy
    BY <1>10 DEF Publish, Busy
  <2>2. PICK c \in Configs, i \in {1, 2} : l = <<c, i>>
    BY DEF Loops
  <2>3. l[1] \in running
    BY <2>1, <2>2 DEF IInv, RunningHasLoop
  <2>. QED BY <1>0, <1>10, <2>3 DEF Publish
<1>11. CASE Compile
  BY <1>1, <1>11 DEF Compile
<1>. QED BY <1>2, <1>3, <1>4, <1>5, <1>6, <1>7, <1>8, <1>9, <1>10, <1>11 DEF Next, ServeStep, TimerStep, LoopStep

LEMMA ShownKept ==
  ASSUME IInv, NEW f \in Files, UNCHANGED <<disk[f], buffer[f], screen>>, Watched(f)' => Watched(f),
         Changed(Owner[f]) => Changed(Owner[f])',
         \A l \in Loops : l[1] = Owner[f] /\ WillPublish(l) => WillPublish(l)'
  PROVE  Watched(f)' => screen'[f] = Shown(f)' \/ Coming(Owner[f])'
<1>1. Shown(f)' = Shown(f)
  BY DEF Shown, Text
<1>2. <<Owner[f], 1>> \in Loops /\ <<Owner[f], 2>> \in Loops
  BY OwnersAreConfigs DEF Loops
<1>3. Coming(Owner[f]) => Coming(Owner[f])'
  BY <1>2 DEF Coming
<1>. QED BY <1>1, <1>3 DEF IInv, ShownOrComing

LEMMA ShownNext == IInv /\ [Next]_vars => ShownOrComing'
<1>. SUFFICES ASSUME IInv, [Next]_vars, NEW f \in Files
              PROVE  Watched(f)' => screen'[f] = Shown(f)' \/ Coming(Owner[f])'
  BY DEF ShownOrComing
<1>. DEFINE c == Owner[f]
            Goal == Watched(f)' => screen'[f] = Shown(f)' \/ Coming(c)'
<1>0. c \in Configs /\ f \in Covers[c]
  BY OwnersAreConfigs, CensusAssumption
<1>1. CASE Answer \/ Stop \/ Notify \/ Close \/ Return \/ Sleep \/ Timeout \/ Spurious \/ EditorDies
           \/ Over \/ UNCHANGED vars
  <2>1. /\ UNCHANGED <<disk, buffer, opened, screen, blind, stage, seen, dirty, request>>
        /\ pc \in {"immediate", "debounced"} => pc' = pc
    BY <1>1 DEF Answer, Stop, Notify, Close, Return, Sleep, Timeout, Spurious, EditorDies, Over, vars
  <2>2. (cancelled' = "no" => cancelled = "no") /\ (output' = "open" => output = "open")
    BY <1>1 DEF Answer, Stop, Notify, Close, Return, Sleep, Timeout, Spurious, EditorDies, Over, vars, IInv, Types
  <2>. QED BY <2>1, <2>2, ShownKept DEF Watched, Alone, Changed, Requested, WillPublish, NoTexts
<1>2. ASSUME NEW g \in Files, DidOpen(g) \/ DidSave(g) \/ DidClose(g) \/ \E text \in Versions : DidChange(g, text)
      PROVE  Goal
  <2>1. /\ \A h \in Files : h # g => UNCHANGED <<disk[h], buffer[h]>>
        /\ Requested(Owner[g])' /\ (\A d \in Configs : ~Requested(d)) /\ opened' \subseteq opened \cup {g}
        /\ UNCHANGED <<scheduling, censuses, showing, blind>>
    BY <1>2, NotifiedChanges
  <2>2. CASE f = g
    BY <2>1, <2>2 DEF Coming, Changed
  <2>3. CASE f # g
    <3>1. (Watched(f)' => Watched(f)) /\ UNCHANGED <<disk[f], buffer[f], screen>>
      BY <2>1, <2>3 DEF Watched, Alone
    <3>2. Changed(c) => Changed(c)'
      BY <1>0, <2>1 DEF Changed
    <3>3. \A l \in Loops : WillPublish(l) => WillPublish(l)'
      BY <2>1 DEF WillPublish, NoTexts
    <3>. QED BY <3>1, <3>2, <3>3, ShownKept
  <2>. QED BY <2>2, <2>3
<1>3. CASE ScheduleMore \/ ScheduleNow \/ ScheduleLater
  <2>1. Schedule /\ pc' \in {"read", "notify"}
    BY <1>3 DEF ScheduleMore, ScheduleNow, ScheduleLater
  <2>2. UNCHANGED <<disk, buffer, opened, seen, showing>> /\ (Changed(c) <=> Changed(c)')
    BY <1>0, <2>1, ScheduleMarks DEF Schedule
  <2>3. /\ blind \subseteq blind'
        /\ \A l \in Loops : stage'[l] = stage[l] \/ (stage[l] \in {"free", "ended"} /\ stage'[l] = "top")
    BY <1>3, <2>1, StartStages, ScheduleMarks DEF ScheduleMore, ScheduleNow, ScheduleLater, Idle
  <2>4. \A l \in Loops : WillPublish(l) => WillPublish(l)'
    BY <2>2, <2>3 DEF WillPublish, NoTexts
  <2>. QED BY <2>2, <2>3, <2>4, ShownKept DEF Watched, Alone
<1>4. ASSUME NEW passed \in SUBSET Configs, Scan(passed) PROVE Goal
  BY <1>4, ShownKept DEF Scan, Watched, Alone, Changed, Requested, WillPublish, NoTexts
<1>5. ASSUME NEW d \in Configs, Fire(d) PROVE Goal
  <2>1. UNCHANGED <<pc, request, dirty, disk, buffer, opened, seen, showing>>
    BY <1>5 DEF Fire
  <2>2. /\ blind \subseteq blind'
        /\ \A l \in Loops : stage'[l] = stage[l] \/ (stage[l] \in {"free", "ended"} /\ stage'[l] = "top")
    BY <1>5, StartStages DEF Fire, Idle
  <2>3. \A l \in Loops : WillPublish(l) => WillPublish(l)'
    BY <2>1, <2>2 DEF WillPublish, NoTexts
  <2>. QED BY <2>1, <2>2, <2>3, ShownKept DEF Watched, Alone, Changed, Requested
<1>6. ASSUME NEW l \in Loops, TakeRun(l) PROVE Goal
  <2>1. stage[l] = "top" /\ stage' = [stage EXCEPT ![l] = "snapshot"] /\ dirty' = dirty \ {l[1]}
        /\ UNCHANGED <<pc, request, disk, buffer, opened, seen, showing, blind>>
    BY <1>6 DEF TakeRun
  <2>2. CASE l[1] = c
    <3>1. stage'[l] = "snapshot" /\ (l = <<c, 1>> \/ l = <<c, 2>>)
      BY <2>1, <2>2 DEF IInv, Types, Loops
    <3>. QED BY <3>1 DEF Coming, WillPublish
  <2>3. CASE l[1] # c
    <3>1. Changed(c) => Changed(c)'
      BY <2>1, <2>3 DEF Changed, Requested
    <3>2. \A k \in Loops : WillPublish(k) => WillPublish(k)'
      BY <2>1 DEF WillPublish, NoTexts, IInv, Types
    <3>. QED BY <2>1, <3>1, <3>2, ShownKept DEF Watched, Alone
  <2>. QED BY <2>2, <2>3
<1>7. ASSUME NEW l \in Loops, EndLoop(l) \/ NotifyEnd(l) \/ Snapshot(l) \/ SendJob(l) \/ KeepRun(l) \/ ShowError(l)
      PROVE  Goal
  <2>1. /\ UNCHANGED <<request, dirty, disk, buffer, opened, seen, screen, output, blind>>
        /\ pc \in {"immediate", "debounced"} => pc' = pc
    BY <1>7 DEF EndLoop, NotifyEnd, CloseWoken, Snapshot, SendJob, KeepRun, ShowError
  <2>2. cancelled' = "no" => cancelled = "no"
    BY <1>7 DEF EndLoop, NotifyEnd, Snapshot, SendJob, KeepRun, ShowError, IInv, Types
  <2>3. \A k \in Loops : WillPublish(k) => WillPublish(k)'
    <3>1. ASSUME NEW k \in Loops, k # l, WillPublish(k) PROVE WillPublish(k)'
      BY <1>7, <2>1, <3>1 DEF EndLoop, NotifyEnd, Snapshot, SendJob, KeepRun, ShowError, WillPublish, NoTexts, IInv, Types
    <3>2. CASE EndLoop(l) \/ NotifyEnd(l) \/ ShowError(l)
      <4>1. ~WillPublish(l)
        BY <3>2 DEF EndLoop, NotifyEnd, ShowError, WillPublish
      <4>. QED BY <3>1, <4>1
    <3>3. CASE Snapshot(l) \/ SendJob(l)
      <4>1. stage'[l] \in {"overlays", "queued"}
        BY <3>3 DEF Snapshot, SendJob, IInv, Types
      <4>. QED BY <3>1, <4>1 DEF WillPublish
    <3>4. CASE KeepRun(l)
      <4>1. stage[l] = "answered" /\ stage'[l] = "publish" /\ NoTexts' = NoTexts
        BY <3>4 DEF KeepRun, IInv, Types, NoTexts
      <4>. QED BY <2>1, <3>1, <4>1 DEF WillPublish
    <3>. QED BY <1>7, <3>2, <3>3, <3>4
  <2>. QED BY <2>1, <2>2, <2>3, ShownKept DEF Watched, Alone, Changed, Requested
<1>8. ASSUME NEW l \in Loops, DropRun(l) PROVE Goal
  BY <1>8 DEF DropRun, Watched
<1>9. ASSUME NEW l \in Loops, Publish(l) PROVE Goal
  <2>1. /\ UNCHANGED <<pc, request, dirty, disk, buffer, opened, output>> /\ blind' = blind \ {l[1]}
        /\ stage[l] = "publish" /\ stage' = [stage EXCEPT ![l] = "top"] /\ seen[l] # NoTexts
        /\ seen' = [seen EXCEPT ![l] = NoTexts]
    BY <1>9 DEF Publish
  <2>2. Shown(f)' = Shown(f) /\ (Changed(c) => Changed(c)') /\ l[1] \in Configs
    BY <2>1 DEF Shown, Text, Changed, Requested, Loops
  <2>3. SUFFICES ASSUME Watched(f)' PROVE screen'[f] = Shown(f) \/ Coming(c)'
    BY <2>2
  <2>4. /\ output = "open" /\ cancelled = "no" /\ Alone(f)
        /\ screen'[f] = IF f \in Current(l) THEN seen[l][f] ELSE IF f \in Clears(l) THEN None ELSE screen[f]
    BY <1>9, <2>3 DEF Publish, Watched, Alone, IInv, Types
  <2>5. CASE l[1] = c
    <3>1. seen[l][f] = Text(f) \/ Changed(c)
      BY <2>1, <2>5 DEF IInv, RunsCurrent, RunCurrent
    <3>2. CASE Changed(c)
      BY <2>2, <3>2 DEF Coming
    <3>3. CASE seen[l][f] = Text(f)
      <4>1. f \in Current(l) <=> Text(f) \in Bad
        BY <1>0, <2>5, <3>3 DEF Current
      <4>2. f \in Clears(l) \/ f \in Current(l) \/ screen[f] = None
        BY <2>4, <2>5 DEF Clears, IInv, ScreenPublished
      <4>. QED BY <2>4, <3>3, <4>1, <4>2 DEF Shown
    <3>. QED BY <3>1, <3>2, <3>3
  <2>6. CASE l[1] # c
    <3>1. f \notin Covers[l[1]]
      BY <2>2, <2>4, <2>6 DEF Alone
    <3>2. screen'[f] = screen[f]
      BY <2>2, <2>4, <3>1 DEF Current, Clears, IInv, ScreenPublished
    <3>3. Watched(f)
      BY <2>1, <2>3, <2>4, <2>6 DEF Watched
    <3>4. /\ stage'[<<c, 1>>] = stage[<<c, 1>>] /\ stage'[<<c, 2>>] = stage[<<c, 2>>]
          /\ seen'[<<c, 1>>] = seen[<<c, 1>>] /\ seen'[<<c, 2>>] = seen[<<c, 2>>]
      BY <1>0, <2>1, <2>6 DEF IInv, Types, Loops
    <3>5. Coming(c) => Coming(c)'
      BY <2>2, <3>4 DEF Coming, WillPublish, NoTexts
    <3>. QED BY <3>2, <3>3, <3>5 DEF IInv, ShownOrComing
  <2>. QED BY <2>5, <2>6
<1>10. CASE Compile
  <2>. DEFINE l == Head(jobs)
  <2>1. l \in Loops /\ stage[l] = "queued" /\ l[1] \in Configs
    BY <1>10 DEF Compile, IInv, Types, JobsQueued, Loops
  <2>2. /\ UNCHANGED <<pc, request, dirty, disk, buffer, opened, showing>>
        /\ stage' = [stage EXCEPT ![l] = "answered"]
        /\ \/ seen' = [seen EXCEPT ![l] = Compiled(l)] /\ blind' = blind
           \/ seen' = [seen EXCEPT ![l] = NoTexts] /\ blind' = blind \cup {l[1]}
    BY <1>10 DEF Compile
  <2>. HIDE DEF l
  <2>3. SUFFICES ASSUME Watched(f)' PROVE Goal
    OBVIOUS
  <2>4. Watched(f) /\ (Changed(c) => Changed(c)') /\ UNCHANGED <<disk[f], buffer[f], screen>>
    BY <2>2, <2>3 DEF Watched, Alone, Changed, Requested
  <2>5. ASSUME NEW k \in Loops, k[1] = c, WillPublish(k) PROVE WillPublish(k)'
    <3>1. CASE k # l
      BY <2>1, <2>2, <2>5, <3>1 DEF WillPublish, NoTexts, IInv, Types
    <3>2. CASE k = l
      <4>1. seen' = [seen EXCEPT ![l] = Compiled(l)]
        BY <2>2, <2>3, <2>5, <3>2 DEF Watched
      <4>2. disk[f] # None /\ f \in Covers[l[1]]
        BY <1>0, <2>5, <3>2, CensusAssumption DEF IInv, Types
      <4>3. Compiled(l)[f] # None /\ NoTexts[f] = None /\ NoTexts' = NoTexts
        BY <4>2 DEF Compiled, NoTexts
      <4>4. seen'[l] = Compiled(l) /\ stage'[l] = "answered"
        BY <2>1, <2>2, <4>1 DEF IInv, Types
      <4>. QED BY <3>2, <4>3, <4>4 DEF WillPublish
    <3>. QED BY <3>1, <3>2
  <2>. QED BY <2>4, <2>5, ShownKept
<1>. QED BY <1>1, <1>2, <1>3, <1>4, <1>5, <1>6, <1>7, <1>8, <1>9, <1>10 DEF Next, ServeStep, TimerStep, LoopStep
-----------------------------------------------------------------------------
LEMMA InitIInv == Init => IInv
<1>. SUFFICES ASSUME Init PROVE IInv
  OBVIOUS
<1>. USE DEF Init
<1>1. Types /\ RequestKnown
  BY CensusAssumption DEF Types, RequestKnown, NoTexts, Texts, Versions
<1>2. Busy = {}
  BY DEF Busy
<1>3. OneLoopPerConfig /\ RunningHasLoop /\ Counted
  BY <1>2, FS_EmptySet DEF OneLoopPerConfig, RunningHasLoop, Counted
<1>4. JobsQueued /\ Closing /\ ScreenPublished /\ ChangesTaken
  BY DEF JobsQueued, Closing, ScreenPublished, ChangesTaken, NoTexts
<1>5. RunsCurrent /\ ShownOrComing
  BY DEF RunsCurrent, RunCurrent, ShownOrComing, Watched
<1>. QED BY <1>1, <1>3, <1>4, <1>5 DEF IInv

LEMMA NextIInv == IInv /\ [Next]_vars => IInv'
BY TypesNext, LoopsNext, JobsNext, ClosingNext, ScreenNext, RunsNext, TakenNext, ShownNext DEF IInv

LEMMA Invariance == Spec => []IInv
BY InitIInv, NextIInv, PTL DEF Spec

\* At any time each tsconfig has at most one loop, and State::loops, which close waits
\* for, is the number of loops that run (scheduler.rs, start).
THEOREM TypeCorrect == Spec => []TypeOK
<1>1. IInv => TypeOK
  BY DEF IInv, TypeOK, Counted
<1>. QED BY <1>1, Invariance, PTL

\* Once the server rests, the editor shows what each file's text has (scheduler.rs,
\* run_census, publish_files): nothing is left to come, so what was not shown was not
\* forgotten on the way either.
THEOREM ShowsLatestText == Spec => []LatestTextShown
<1>1. IInv => LatestTextShown
  <2>. SUFFICES ASSUME IInv, Quiet, NEW f \in opened, Alone(f), Owner[f] \notin blind
                PROVE  screen[f] = Shown(f)
    BY DEF LatestTextShown
  <2>. DEFINE c == Owner[f]
  <2>1. f \in Files /\ c \in Configs /\ Watched(f)
    BY OwnersAreConfigs DEF IInv, Types, Quiet, Watched
  <2>2. stage[<<c, 1>>] = "free" /\ stage[<<c, 2>>] = "free"
    BY <2>1 DEF Quiet, Loops
  <2>3. c \notin running
    BY <2>1, <2>2 DEF IInv, RunningHasLoop, Busy
  <2>4. closed = "no"
    BY DEF Quiet, IInv, Types, Closing
  <2>5. c \notin dirty
    BY <2>1, <2>3, <2>4 DEF Quiet, IInv, ChangesTaken
  <2>6. ~Coming(c)
    BY <2>2, <2>5 DEF Quiet, Coming, Changed, Requested, WillPublish
  <2>. QED BY <2>1, <2>6 DEF IInv, ShownOrComing
<1>. QED BY <1>1, Invariance, PTL

\* After serve returned no loop runs and the timer has ended, so nobody is left who
\* could write, publish or cancel (server.rs, serve; scheduler.rs, close).
THEOREM Silence == Spec => SilentAfterReturn
<1>1. IInv /\ [Next]_vars => [pc = "returned" => UNCHANGED <<screen, published, cancelled>>]_vars
  <2>. SUFFICES ASSUME IInv, Next, pc = "returned" PROVE UNCHANGED <<screen, published, cancelled>>
    OBVIOUS
  <2>1. \A l \in Loops : l \notin Busy
    BY DEF IInv, Closing
  <2>2. ASSUME NEW l \in Loops, LoopStep(l) PROVE UNCHANGED <<screen, published, cancelled>>
    <3>1. ~DropRun(l) /\ ~Publish(l) /\ ~ShowError(l)
      BY <2>1 DEF Busy, DropRun, Publish, ShowError
    <3>. QED BY <2>2, <3>1 DEF LoopStep, TakeRun, EndLoop, NotifyEnd, Snapshot, SendJob, KeepRun
  <2>3. ASSUME NEW f \in Files, DidOpen(f) \/ DidSave(f) \/ DidClose(f) \/ \E text \in Versions : DidChange(f, text)
        PROVE  FALSE
    BY <2>3 DEF DidOpen, DidSave, DidClose, DidChange, Notified
  <2>4. ~Answer /\ ~Stop
    BY DEF Answer, Stop
  <2>5. CASE ServeStep \/ Compile \/ EditorDies \/ Over
    BY <2>5 DEF ServeStep, Schedule, ScheduleMore, ScheduleNow, ScheduleLater, Notify, Close, Return, Compile,
       EditorDies, Over, vars
  <2>6. CASE TimerStep \/ Spurious \/ \E passed \in SUBSET Configs : Scan(passed)
    BY <2>6 DEF TimerStep, Scan, Fire, Sleep, Timeout, Spurious
  <2>. QED BY <2>2, <2>3, <2>4, <2>5, <2>6 DEF Next
<1>. QED BY <1>1, Invariance, PTL DEF Spec, SilentAfterReturn

\* Once close has seen no loop left, none runs again: a debounce that was due and a
\* request that was under way start nothing (scheduler.rs, fire_due and schedule).
NoLoopAfterJoin == [](pc \in {"join", "returned"} => Busy = {} /\ jobs = <<>>)

\* Once close saw no loop left, no census starts again (scheduler.rs, close).
THEOREM NothingAfterJoin == Spec => NoLoopAfterJoin
<1>1. IInv => (pc \in {"join", "returned"} => Busy = {} /\ jobs = <<>>)
  <2>. SUFFICES ASSUME IInv, pc \in {"join", "returned"} PROVE Busy = {} /\ jobs = <<>>
    OBVIOUS
  <2>1. Busy = {}
    BY DEF IInv, Closing
  <2>2. ASSUME jobs # <<>> PROVE FALSE
    <3>1. jobs \in Seq(Loops) /\ 1 \in 1 .. Len(jobs)
      BY <2>2 DEF IInv, Types
    <3>2. jobs[1] \in Loops /\ stage[jobs[1]] = "queued"
      BY <3>1 DEF IInv, JobsQueued
    <3>. QED BY <2>1, <3>2 DEF Busy
  <2>. QED BY <2>1, <2>2
<1>. QED BY <1>1, Invariance, PTL DEF NoLoopAfterJoin

\* No wake is lost.  The timer thread sleeps without a deadline beside a debounce only
\* while the call that made it is about to notify; after close it sleeps no more; and
\* close sleeps only while a loop is left that notifies when it ends (scheduler.rs,
\* schedule, timers, start and close: none of the conditions is checked again
\* but on a wake).
WakeupsKept ==
  /\ timer = "untimed" /\ pending # {} => pc = "notify"
  /\ closed = "yes" => timer \in {"scan", "ended"}
  /\ pc = "asleep" => \E l \in Loops : stage[l] # "free"

LEMMA WakeupsNext == IInv /\ WakeupsKept /\ [Next]_vars => WakeupsKept'
<1>. SUFFICES ASSUME IInv, WakeupsKept, [Next]_vars PROVE WakeupsKept'
  OBVIOUS
<1>. USE DEF WakeupsKept
<1>1. CASE Answer \/ Stop \/ EditorDies \/ Over \/ UNCHANGED vars
  BY <1>1 DEF Answer, Stop, EditorDies, Over, vars
<1>2. ASSUME NEW f \in Files, DidOpen(f) \/ DidSave(f) \/ DidClose(f) \/ \E text \in Versions : DidChange(f, text)
      PROVE  WakeupsKept'
  BY <1>2 DEF DidOpen, DidSave, DidClose, DidChange, Notified
<1>3. CASE ScheduleMore \/ ScheduleNow
  <2>1. pc' = "read" /\ pending' \subseteq pending /\ timer' = timer /\ closed' = closed /\ pc # "notify"
    BY <1>3 DEF ScheduleMore, ScheduleNow, Schedule
  <2>. QED BY <2>1
<1>4. CASE ScheduleLater
  BY <1>4 DEF ScheduleLater, Schedule
<1>5. CASE Notify \/ Return \/ Spurious
  BY <1>5 DEF Notify, Return, Spurious, TimerWoken
<1>6. CASE Close
  <2>1. pending' = {} /\ timer' \in {"scan", "ended"}
    BY <1>6 DEF IInv, Types, Close, TimerWoken, Unlocked
  <2>2. ASSUME pc' = "asleep" PROVE \E l \in Loops : stage'[l] # "free"
    <3>1. Busy # {}
      BY <1>6, <2>2, BusyCounted DEF IInv, Close, LoopsOver
    <3>. QED BY <1>6, <3>1 DEF Close, Busy
  <2>. QED BY <2>1, <2>2
<1>7. CASE TimerStep \/ \E passed \in SUBSET Configs : Scan(passed)
  <2>1. ASSUME NEW passed \in SUBSET Configs, Scan(passed) PROVE WakeupsKept'
    BY <2>1 DEF Scan
  <2>2. CASE Sleep \/ Timeout
    BY <2>2 DEF IInv, Closing, Sleep, UntilNext, Timeout
  <2>3. ASSUME NEW c \in Configs, Fire(c) PROVE WakeupsKept'
    <3>1. timer = "firing" /\ timer' = timer /\ pc' = pc /\ closed' = closed
      BY <2>3 DEF Fire
    <3>. QED BY <3>1 DEF IInv, Closing
  <2>. QED BY <1>7, <2>1, <2>2, <2>3 DEF TimerStep
<1>8. ASSUME NEW l \in Loops, LoopStep(l) PROVE WakeupsKept'
  <2>1. CASE NotifyEnd(l)
    BY <2>1 DEF IInv, Types, Closing, NotifyEnd, TimerWoken, CloseWoken
  <2>2. CASE ~NotifyEnd(l)
    <3>1. /\ timer' = timer /\ pending' = pending /\ pc' = pc /\ closed' = closed
      BY <1>8, <2>2 DEF LoopStep, TakeRun, EndLoop, Snapshot, SendJob, DropRun, KeepRun, Publish, ShowError
    <3>2. stage'[l] # "free" /\ \A other \in Loops : other # l => stage'[other] = stage[other]
      BY <1>8, <2>2 DEF IInv, Types, LoopStep, TakeRun, EndLoop, Snapshot, SendJob, DropRun, KeepRun, Publish, ShowError
    <3>. QED BY <3>1, <3>2
  <2>. QED BY <2>1, <2>2
<1>9. CASE Compile
  <2>. DEFINE l == Head(jobs)
  <2>1. \A other \in Loops : stage'[other] \in {stage[other], "answered"}
    <3>1. stage' = [stage EXCEPT ![l] = "answered"]
      BY <1>9 DEF Compile
    <3>. HIDE DEF l
    <3>. QED BY <3>1 DEF IInv, Types
  <2>2. timer' = timer /\ pending' = pending /\ pc' = pc /\ closed' = closed
    BY <1>9 DEF Compile
  <2>. QED BY <2>1, <2>2
<1>. QED BY <1>1, <1>2, <1>3, <1>4, <1>5, <1>6, <1>7, <1>8, <1>9 DEF Next, ServeStep

\* Neither the timer thread nor close sleeps through what it waits for, for any number
\* of tsconfigs (scheduler.rs, timers and close).
THEOREM NoLostWakeup == Spec => []WakeupsKept
<1>1. Init => WakeupsKept
  BY DEF Init, WakeupsKept
<1>. QED BY <1>1, WakeupsNext, Invariance, PTL DEF Spec
=============================================================================
