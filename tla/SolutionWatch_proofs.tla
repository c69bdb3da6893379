------------------------ MODULE SolutionWatch_proofs ------------------------
(***************************************************************************)
(* What the runs of SolutionDrain check on two and three projects, proved  *)
(* for every number of projects, every set of reference graphs and every   *)
(* history of edits, reports, reloads and drains.  Then the watch loop: it *)
(* drives the coordinator only as an owner of SolutionDrain may, so all    *)
(* that holds here too; and no change is lost between its edit and its     *)
(* invalidation but where the code drops it.                               *)
(***************************************************************************)
EXTENDS SolutionWatch, FiniteSetTheorems, TLAPS

-----------------------------------------------------------------------------
(***************************************************************************)
(* The coordinator, SolutionDrain.                                         *)
(***************************************************************************)
Good == {"skipped", "built"}

\* A reference the graph does not show yet is one of a tsconfig edit not reloaded.
RefsKnown == \A p \in Projects : declared[p] # refs[p] => reconfigured[p] = "edited"

\* What an up-to-date project refers to is up to date, unless its own tsconfig
\* changed since the owner invalidated it.
UpClosed == \A p \in upToDate : reconfigured[p] # "no" \/ refs[p] \subseteq upToDate

\* Fresh, for the projects of the running drain too.
FreshNow ==
  \A p \in behind : p \in upToDate \/ outcome[p] \in {"building", "built"} =>
    p \in edited \/ reconfigured[p] # "no"

MetadataKept ==
  /\ \A p \in Projects : parsed[p] # config[p] =>
       p \in edited \/ reconfigured[p] # "no" \/ p \in pending
  /\ ~stale => parsed = derived
  /\ phase # "idle" => ~stale /\ pending = {}

Outcomes ==
  /\ phase = "idle" => \A p \in Projects : outcome[p] = "none"
  /\ phase \in {"merge", "save"} => \A p \in Projects : outcome[p] \in Ended
  /\ phase = "save" => \A p \in Projects : outcome[p] \notin Bad
  /\ \A p \in Projects :
       /\ outcome[p] = "skipped" => p \in upToDate
       /\ outcome[p] = "building" => p \notin upToDate
       /\ phase # "tasks" /\ p <= merged /\ outcome[p] = "built" => p \in upToDate
       /\ outcome[p] \in {"building"} \cup Good => \A d \in refs[p] : outcome[d] \in Good
       /\ outcome[p] = "blocked" => blocker[p] \in refs[p] /\ outcome[blocker[p]] \in Bad

QueueInv ==
  /\ \A i, j \in 1 .. Len(queue) : queue[i] = queue[j] => i = j
  /\ QueueCovers

\* What counts as up to date, or was built or skipped, has published.
Published == \A p \in unpublished : p \notin upToDate /\ outcome[p] \notin Good

IInv ==
  /\ TypeOK /\ RefsKnown /\ UpClosed /\ FreshNow /\ MetadataKept /\ Outcomes /\ Published
  /\ QueueInv

-----------------------------------------------------------------------------
(***************************************************************************)
(* Sequences and dependants.                                               *)
(***************************************************************************)
LEMMA Bounds == N \in Nat /\ 0 \in 0 .. N /\ Steps \in Nat /\ 0 \in 0 .. Steps /\ Steps \in 0 .. Steps
BY DrainAssumption

LEMMA RefsEarlier ==
  ASSUME TypeOK, NEW p \in Projects
  PROVE  /\ refs[p] \subseteq Projects /\ declared[p] \subseteq Projects
         /\ \A d \in refs[p] : d < p
         /\ refs \in [Projects -> SUBSET Projects] /\ declared \in [Projects -> SUBSET Projects]
<1>1. refs \in Graphs /\ declared \in Graphs
  BY DEF TypeOK
<1>2. refs \in [Projects -> SUBSET Projects] /\ declared \in [Projects -> SUBSET Projects]
  BY <1>1, DrainAssumption
<1>3. \A d \in refs[p] : d < p
  BY <1>1, DrainAssumption
<1>. QED BY <1>2, <1>3

\* DependantsOf(S) holds S and every project that refers into it.
LEMMA DependantsClosed ==
  ASSUME NEW S \in SUBSET Projects
  PROVE  /\ DependantsOf(S) \subseteq Projects
         /\ S \subseteq DependantsOf(S)
         /\ \A q \in Projects : refs[q] \cap DependantsOf(S) # {} => q \in DependantsOf(S)
<1>1. DependantsOf(S) \subseteq Projects /\ S \subseteq DependantsOf(S)
  BY DEF DependantsOf
<1>2. ASSUME NEW q \in Projects, NEW d \in refs[q], d \in DependantsOf(S)
      PROVE  q \in DependantsOf(S)
  <2>1. SUFFICES ASSUME NEW T \in SUBSET Projects, S \subseteq T,
                        \A r \in Projects : refs[r] \cap T # {} => r \in T
                 PROVE  q \in T
    BY DEF DependantsOf
  <2>2. d \in T
    BY <1>2, <2>1 DEF DependantsOf
  <2>. QED BY <2>1, <2>2
<1>. QED BY <1>1, <1>2

\* A queue with one more project at its end.
LEMMA Appended ==
  ASSUME NEW S, NEW s \in Seq(S), NEW e \in S
  PROVE  /\ Append(s, e) \in Seq(S)
         /\ ToSet(Append(s, e)) = ToSet(s) \cup {e}
<1>1. /\ Append(s, e) \in Seq(S) /\ Len(Append(s, e)) = Len(s) + 1
      /\ \A i \in 1 .. Len(s) : Append(s, e)[i] = s[i]
      /\ Append(s, e)[Len(s) + 1] = e
  OBVIOUS
<1>2. DOMAIN s = 1 .. Len(s) /\ DOMAIN Append(s, e) = 1 .. Len(s) + 1 /\ Len(s) \in Nat
  OBVIOUS
<1>3. ToSet(Append(s, e)) \subseteq ToSet(s) \cup {e}
  BY <1>1, <1>2 DEF ToSet
<1>4. ToSet(s) \subseteq ToSet(Append(s, e))
  BY <1>1, <1>2 DEF ToSet
<1>5. e \in ToSet(Append(s, e))
  BY <1>1, <1>2 DEF ToSet
<1>. QED BY <1>1, <1>3, <1>4, <1>5

\* A queue without its first project, when no project is in it twice.
LEMMA Dequeued ==
  ASSUME NEW S, NEW s \in Seq(S), s # <<>>,
         \A i, j \in 1 .. Len(s) : s[i] = s[j] => i = j
  PROVE  /\ Tail(s) \in Seq(S) /\ Head(s) \in ToSet(s)
         /\ ToSet(Tail(s)) = ToSet(s) \ {Head(s)}
         /\ \A i, j \in 1 .. Len(Tail(s)) : Tail(s)[i] = Tail(s)[j] => i = j
<1>1. /\ Tail(s) \in Seq(S) /\ Len(Tail(s)) = Len(s) - 1 /\ Len(s) \in Nat \ {0}
      /\ \A i \in 1 .. Len(s) - 1 : Tail(s)[i] = s[i + 1]
      /\ Head(s) = s[1]
  OBVIOUS
<1>2. DOMAIN s = 1 .. Len(s) /\ DOMAIN Tail(s) = 1 .. Len(s) - 1
  BY <1>1
<1>3. Head(s) \in ToSet(s)
  BY <1>1, <1>2 DEF ToSet
<1>4. ToSet(Tail(s)) \subseteq ToSet(s) \ {Head(s)}
  BY <1>1, <1>2 DEF ToSet
<1>5. ASSUME NEW x \in ToSet(s), x # Head(s)
      PROVE  x \in ToSet(Tail(s))
  <2>1. PICK i \in 1 .. Len(s) : x = s[i]
    BY <1>2 DEF ToSet
  <2>2. i - 1 \in 1 .. Len(s) - 1 /\ x = Tail(s)[i - 1]
    BY <1>1, <1>5, <2>1
  <2>. QED BY <1>2, <2>2 DEF ToSet
<1>6. \A i, j \in 1 .. Len(Tail(s)) : Tail(s)[i] = Tail(s)[j] => i = j
  BY <1>1
<1>. QED BY <1>1, <1>3, <1>4, <1>5, <1>6
-----------------------------------------------------------------------------
(***************************************************************************)
(* The initial states.                                                     *)
(***************************************************************************)
LEMMA InitIInv == Init => IInv
<1>. SUFFICES ASSUME Init PROVE IInv
  OBVIOUS
<1>1. TypeOK
  <2>1. config \in [Projects -> Nat] /\ steps \in [Projects -> 0 .. Steps] /\ merged \in 0 .. N
    BY Bounds DEF Init
  <2>2. queue \in Seq(Projects)
    BY DEF Init
  <2>3. /\ reconfigured \in [Projects -> {"no", "edited", "reloaded"}]
        /\ blockedBy \in [Projects -> Projects \cup {None}]
        /\ blocker \in [Projects -> Projects \cup {None}]
        /\ outcome \in [Projects -> Ended \cup {"none", "waiting", "building"}]
    BY DEF Init, Ended
  <2>. QED BY <2>1, <2>2, <2>3 DEF Init, TypeOK
<1>2. RefsKnown /\ UpClosed /\ FreshNow /\ MetadataKept
  BY DEF Init, RefsKnown, UpClosed, FreshNow, MetadataKept
<1>3. Outcomes
  BY DEF Init, Outcomes, Good, Bad
<1>4. ToSet(queue) = {} /\ Len(queue) = 0
  BY DEF Init, ToSet
<1>5. QueueInv
  BY <1>4 DEF Init, QueueInv, QueueCovers
<1>6. Published
  BY DrainAssumption DEF Init, Published, Good
<1>. QED BY <1>1, <1>2, <1>3, <1>5, <1>6 DEF IInv

(***************************************************************************)
(* The types.                                                              *)
(***************************************************************************)
LEMMA TypeNext == IInv /\ [Next]_vars => TypeOK'
<1>. SUFFICES ASSUME IInv, [Next]_vars PROVE TypeOK'
  OBVIOUS
<1>. USE DEF world, reports, states, metadata, persists, drain, Ended, Bad
<1>. TypeOK
  BY DEF IInv
<1>1. ASSUME NEW p \in Projects, EditSource(p) PROVE TypeOK'
  <2>1. config \in [Projects -> Nat] /\ config[p] + 1 \in Nat
    BY DEF TypeOK
  <2>2. [config EXCEPT ![p] = @ + 1] \in [Projects -> Nat]
    BY <2>1
  <2>3. config' \in [Projects -> Nat]
    BY <1>1, <2>1, <2>2 DEF EditSource
  <2>. QED BY <1>1, <2>3 DEF EditSource, TypeOK
<1>2. ASSUME NEW p \in Projects, EditConfig(p) PROVE TypeOK'
  BY <1>2 DEF EditConfig, TypeOK
<1>3. ASSUME NEW S \in SUBSET Projects, Invalidate(S) PROVE TypeOK'
  <2>1. DependantsOf(S) \subseteq Projects
    BY DependantsClosed
  <2>2. blockedBy' \in [Projects -> Projects \cup {None}]
    BY <1>3 DEF Invalidate, MarkOutOfDate, TypeOK
  <2>3. reconfigured' \in [Projects -> {"no", "edited", "reloaded"}]
    BY <1>3 DEF Invalidate, MarkOutOfDate, TypeOK
  <2>. QED BY <1>3, <2>1, <2>2, <2>3 DEF Invalidate, MarkOutOfDate, TypeOK
<1>4. CASE Reload
  <2>1. reconfigured' \in [Projects -> {"no", "edited", "reloaded"}]
    BY <1>4 DEF Reload, TypeOK
  <2>2. queue' \in Seq(Projects) /\ steps' \in [Projects -> 0 .. Steps]
    BY <1>4, Bounds DEF Reload
  <2>. QED BY <1>4, <2>1, <2>2 DEF Reload, TypeOK
<1>5. CASE RefreshFails
  <2>1. parsed' \in [Projects -> Nat]
    BY <1>5 DEF RefreshFails, Parse, TypeOK
  <2>2. stale' \in BOOLEAN
    BY <1>5 DEF RefreshFails, StaleAfterParse, ParseChanged, TypeOK
  <2>. QED BY <1>5, <2>1, <2>2 DEF RefreshFails, TypeOK
<1>6. CASE RefreshSucceeds
  <2>1. parsed' \in [Projects -> Nat]
    BY <1>6 DEF RefreshSucceeds, Parse, TypeOK
  <2>2. derived' \in [Projects -> Nat]
    BY <1>6, <2>1 DEF RefreshSucceeds, TypeOK
  <2>3. outcome' \in [Projects -> Ended \cup {"none", "waiting", "building"}]
        /\ blocker' \in [Projects -> Projects \cup {None}] /\ merged' \in 0 .. N
    BY <1>6, Bounds DEF RefreshSucceeds, StartTasks
  <2>. QED BY <1>6, <2>1, <2>2, <2>3 DEF RefreshSucceeds, StartTasks, TypeOK
<1>7. ASSUME NEW p \in Projects, Task(p) PROVE TypeOK'
  <2>1. CASE BlockTask(p)
    <3>1. FailedRefs(p) \subseteq Projects
      BY RefsEarlier DEF FailedRefs
    <3>. QED BY <2>1, <3>1 DEF BlockTask, TypeOK
  <2>2. CASE SkipTask(p)
    BY <2>2 DEF SkipTask, TypeOK
  <2>3. CASE BuildTask(p)
    BY <2>3 DEF BuildTask, TypeOK
  <2>4. CASE EndTask(p)
    <3>1. unpublished' \subseteq Flamework
      BY <2>4 DEF EndTask, Publish, EndsUnpublished, TypeOK
    <3>2. outcome' \in [Projects -> Ended \cup {"none", "waiting", "building"}]
      BY <2>4 DEF EndTask, Publish, EndsUnpublished, Ends, TypeOK
    <3>. QED BY <2>4, <3>1, <3>2 DEF EndTask, TypeOK
  <2>. QED BY <1>7, <2>1, <2>2, <2>3, <2>4 DEF Task
<1>8. CASE MergeNext
  <2>1. merged + 1 \in Projects /\ merged + 1 \in 0 .. N
    BY <1>8, DrainAssumption DEF Projects, MergeNext, TypeOK
  <2>2. CASE MergeBuilt(merged + 1)
    <3>1. queue' \in Seq(Projects)
      BY <2>1, <2>2, Appended DEF MergeBuilt, AppendPersists, TypeOK
    <3>2. steps' \in [Projects -> 0 .. Steps]
      BY <2>1, <2>2, Bounds DEF MergeBuilt, AppendPersists, StepsReplaced, TypeOK
    <3>. QED BY <1>8, <2>1, <2>2, <3>1, <3>2 DEF MergeNext, MergeBuilt, AppendPersists, TypeOK
  <2>3. CASE MergeOther(merged + 1)
    BY <1>8, <2>1, <2>3 DEF MergeNext, MergeOther, TypeOK
  <2>. QED BY <1>8, <2>2, <2>3 DEF MergeNext
<1>9. CASE SaveStep
  <2>1. Head(queue) \in ToSet(queue) /\ Tail(queue) \in Seq(Projects)
    BY <1>9, Dequeued DEF SaveStep, IInv, QueueInv, TypeOK
  <2>2. Head(queue) \in Projects /\ steps[Head(queue)] \in 1 .. Steps
    BY <1>9, <2>1 DEF SaveStep, IInv, QueueInv, QueueCovers, TypeOK
  <2>3. steps' \in [Projects -> 0 .. Steps]
    <3>1. steps[Head(queue)] - 1 \in 0 .. Steps
      BY <2>2, Bounds
    <3>. QED BY <1>9, <2>2, <3>1 DEF SaveStep, TypeOK
  <2>4. queue' \in Seq(Projects) /\ unsaved' \subseteq Projects
    BY <1>9, <2>1 DEF SaveStep, TypeOK
  <2>. QED BY <1>9, <2>3, <2>4 DEF SaveStep, TypeOK
<1>10. CASE StartMerge \/ StartSave
  BY <1>10, Bounds DEF StartMerge, StartSave, TypeOK
<1>11. CASE DrainFails \/ SaveFails \/ DrainSucceeds
  <2>1. outcome' \in [Projects -> Ended \cup {"none", "waiting", "building"}]
        /\ blocker' \in [Projects -> Projects \cup {None}] /\ merged' \in 0 .. N
    BY <1>11, Bounds DEF DrainFails, SaveFails, DrainSucceeds, EndDrain
  <2>. QED BY <1>11, <2>1 DEF DrainFails, SaveFails, DrainSucceeds, EndDrain, TypeOK
<1>12. CASE UNCHANGED vars
  BY <1>12 DEF vars, TypeOK
<1>. QED BY <1>1, <1>2, <1>3, <1>4, <1>5, <1>6, <1>7, <1>8, <1>9, <1>10, <1>11, <1>12
         DEF Next, Edit, Drain, Finish

(***************************************************************************)
(* What is known of the graph, and the closure of the up-to-date projects. *)
(***************************************************************************)
LEMMA RefsKnownNext == IInv /\ [Next]_vars => RefsKnown'
<1>. SUFFICES ASSUME IInv, [Next]_vars PROVE RefsKnown'
  OBVIOUS
<1>. USE DEF world, reports, states, metadata, persists, drain
<1>. TypeOK /\ RefsKnown
  BY DEF IInv
<1>1. ASSUME NEW p \in Projects, EditConfig(p) PROVE RefsKnown'
  <2>1. \A q \in Projects \ {p} : declared'[q] = declared[q]
    BY <1>1 DEF EditConfig
  <2>2. reconfigured'[p] = "edited" /\ \A q \in Projects \ {p} : reconfigured'[q] = reconfigured[q]
    BY <1>1 DEF EditConfig, TypeOK
  <2>. QED BY <1>1, <2>1, <2>2 DEF EditConfig, RefsKnown
<1>2. ASSUME NEW S \in SUBSET Projects, Invalidate(S) PROVE RefsKnown'
  BY <1>2 DEF Invalidate, MarkOutOfDate, RefsKnown
<1>3. CASE Reload
  BY <1>3 DEF Reload, RefsKnown
<1>4. CASE UNCHANGED <<declared, refs, reconfigured>>
  BY <1>4 DEF RefsKnown
<1>5. ASSUME NEW p \in Projects, EditSource(p) \/ Task(p)
      PROVE  UNCHANGED <<declared, refs, reconfigured>>
  BY <1>5 DEF EditSource, Task, BlockTask, SkipTask, BuildTask, EndTask
<1>6. RefreshFails \/ RefreshSucceeds \/ Finish => UNCHANGED <<declared, refs, reconfigured>>
  BY DEF RefreshFails, RefreshSucceeds, Finish, StartMerge, MergeNext, DrainFails, StartSave,
         SaveStep, SaveFails, DrainSucceeds
<1>. QED BY <1>1, <1>2, <1>3, <1>4, <1>5, <1>6 DEF Next, Edit, Drain, vars

LEMMA UpClosedNext == IInv /\ [Next]_vars => UpClosed'
<1>. SUFFICES ASSUME IInv, [Next]_vars PROVE UpClosed'
  OBVIOUS
<1>. USE DEF world, reports, states, metadata, persists, drain
<1>. TypeOK /\ RefsKnown /\ UpClosed /\ Outcomes
  BY DEF IInv
<1>1. ASSUME NEW p \in Projects, EditConfig(p) PROVE UpClosed'
  <2>1. reconfigured'[p] = "edited" /\ \A q \in Projects \ {p} : reconfigured'[q] = reconfigured[q]
    BY <1>1 DEF EditConfig, TypeOK
  <2>. QED BY <1>1, <2>1 DEF EditConfig, UpClosed, TypeOK
<1>2. ASSUME NEW S \in SUBSET Projects, Invalidate(S) PROVE UpClosed'
  <2>1. SUFFICES ASSUME NEW p \in upToDate \ DependantsOf(S), reconfigured'[p] = "no"
                 PROVE  refs[p] \subseteq upToDate \ DependantsOf(S)
    BY <1>2 DEF Invalidate, MarkOutOfDate, UpClosed
  <2>2. reconfigured[p] = "no"
    BY <1>2, <2>1 DEF Invalidate, MarkOutOfDate, TypeOK
  <2>3. refs[p] \cap DependantsOf(S) = {}
    BY <2>1, DependantsClosed DEF TypeOK
  <2>. QED BY <2>1, <2>2, <2>3 DEF UpClosed
<1>3. CASE Reload
  <2>1. SUFFICES ASSUME NEW p \in upToDate, reconfigured'[p] = "no"
                 PROVE  declared[p] \subseteq upToDate
    BY <1>3 DEF Reload, UpClosed
  <2>2. reconfigured[p] = "no"
    BY <1>3, <2>1 DEF Reload, TypeOK
  <2>. QED BY <2>2 DEF RefsKnown, UpClosed, TypeOK
<1>4. CASE MergeNext
  <2>1. merged + 1 \in Projects
    BY <1>4, DrainAssumption DEF MergeNext, TypeOK, Projects
  <2>2. CASE MergeBuilt(merged + 1)
    <3>1. \A d \in refs[merged + 1] : d \in upToDate
      <4>. SUFFICES ASSUME NEW d \in refs[merged + 1] PROVE d \in upToDate
        OBVIOUS
      <4>1. d \in Projects /\ d < merged + 1
        BY <2>1, RefsEarlier
      <4>2. outcome[d] \in Good
        BY <2>1, <2>2 DEF MergeBuilt, Outcomes, Good
      <4>3. d <= merged
        BY <4>1, <1>4, DrainAssumption DEF Projects, TypeOK
      <4>. QED BY <4>1, <4>2, <4>3, <1>4 DEF MergeNext, Outcomes, Good
    <3>. QED BY <1>4, <2>2, <3>1 DEF MergeNext, MergeBuilt, UpClosed
  <2>3. CASE MergeOther(merged + 1)
    BY <1>4, <2>3 DEF MergeNext, MergeOther, UpClosed
  <2>. QED BY <1>4, <2>2, <2>3 DEF MergeNext
<1>5. CASE UNCHANGED <<upToDate, refs, reconfigured>>
  BY <1>5 DEF UpClosed
<1>6. ASSUME NEW p \in Projects, EditSource(p) \/ Task(p)
      PROVE  UNCHANGED <<upToDate, refs, reconfigured>>
  BY <1>6 DEF EditSource, Task, BlockTask, SkipTask, BuildTask, EndTask
<1>7. RefreshFails \/ RefreshSucceeds \/ (Finish /\ ~MergeNext) => UNCHANGED <<upToDate, refs, reconfigured>>
  BY DEF RefreshFails, RefreshSucceeds, Finish, StartMerge, DrainFails, StartSave,
         SaveStep, SaveFails, DrainSucceeds
<1>. QED BY <1>1, <1>2, <1>3, <1>4, <1>5, <1>6, <1>7 DEF Next, Edit, Drain, vars

(***************************************************************************)
(* The freshness of what is up to date, building or built.                 *)
(***************************************************************************)
LEMMA FreshNext == IInv /\ [Next]_vars => FreshNow'
<1>. SUFFICES ASSUME IInv, [Next]_vars PROVE FreshNow'
  OBVIOUS
<1>. USE DEF world, reports, states, metadata, persists, drain
<1>. TypeOK /\ UpClosed /\ FreshNow /\ Outcomes
  BY DEF IInv
<1>1. ASSUME NEW p \in Projects, EditSource(p) PROVE FreshNow'
  BY <1>1 DEF EditSource, FreshNow
<1>2. ASSUME NEW p \in Projects, EditConfig(p) PROVE FreshNow'
  <2>1. reconfigured'[p] = "edited" /\ \A q \in Projects \ {p} : reconfigured'[q] = reconfigured[q]
    BY <1>2 DEF EditConfig, TypeOK
  <2>. QED BY <1>2, <2>1 DEF EditConfig, FreshNow, TypeOK
<1>3. ASSUME NEW S \in SUBSET Projects, Invalidate(S) PROVE FreshNow'
  <2>1. \A q \in Projects : outcome'[q] = "none"
    BY <1>3 DEF Invalidate, Outcomes
  <2>. QED BY <1>3, <2>1 DEF Invalidate, MarkOutOfDate, FreshNow, TypeOK
<1>4. CASE Reload
  BY <1>4 DEF Reload, FreshNow, TypeOK
<1>5. CASE RefreshSucceeds
  BY <1>5 DEF RefreshSucceeds, StartTasks, FreshNow, TypeOK
<1>6. ASSUME NEW p \in Projects, BlockTask(p) \/ SkipTask(p) PROVE FreshNow'
  BY <1>6 DEF BlockTask, SkipTask, FreshNow, TypeOK
<1>7. ASSUME NEW p \in Projects, BuildTask(p) PROVE FreshNow'
  BY <1>7 DEF BuildTask, FreshNow, TypeOK
<1>8. ASSUME NEW p \in Projects, EndTask(p) PROVE FreshNow'
  <2>. SUFFICES ASSUME NEW q \in behind', q \in upToDate \/ outcome'[q] \in {"building", "built"}
                PROVE  q \in edited \/ reconfigured[q] # "no"
    BY <1>8 DEF EndTask, FreshNow
  <2>1. q \in Projects
    BY <1>8 DEF EndTask, TypeOK
  <2>2. outcome[q] \in {"building", "built"} \/ q \in upToDate
    BY <1>8, <2>1 DEF EndTask, Publish, EndsUnpublished, Ends, TypeOK
  <2>3. CASE q \in behind
    BY <2>2, <2>3 DEF FreshNow
  <2>4. CASE p \in refs[q]
    <3>1. p \notin upToDate /\ outcome[p] \notin Good
      BY <1>8 DEF EndTask, Outcomes, Good
    <3>2. q \in upToDate
      BY <2>1, <2>2, <2>4, <3>1 DEF Outcomes, Good
    <3>. QED BY <2>4, <3>1, <3>2 DEF UpClosed
  <2>. QED BY <1>8, <2>3, <2>4 DEF EndTask
<1>9. CASE MergeNext
  <2>1. merged + 1 \in Projects
    BY <1>9, DrainAssumption DEF MergeNext, TypeOK, Projects
  <2>2. CASE MergeBuilt(merged + 1)
    BY <1>9, <2>2 DEF MergeNext, MergeBuilt, FreshNow
  <2>3. CASE MergeOther(merged + 1)
    BY <1>9, <2>3 DEF MergeNext, MergeOther, FreshNow
  <2>. QED BY <1>9, <2>2, <2>3 DEF MergeNext
<1>10. CASE DrainFails \/ SaveFails \/ DrainSucceeds
  BY <1>10 DEF DrainFails, SaveFails, DrainSucceeds, EndDrain, FreshNow, TypeOK
<1>11. CASE UNCHANGED <<behind, upToDate, outcome, edited, reconfigured>>
  BY <1>11 DEF FreshNow
<1>12. RefreshFails \/ StartMerge \/ StartSave \/ SaveStep
         => UNCHANGED <<behind, upToDate, outcome, edited, reconfigured>>
  BY DEF RefreshFails, StartMerge, StartSave, SaveStep
<1>. QED BY <1>1, <1>2, <1>3, <1>4, <1>5, <1>6, <1>7, <1>8, <1>9, <1>10, <1>11, <1>12
         DEF Next, Edit, Drain, Task, Finish, vars

(***************************************************************************)
(* The metadata.                                                           *)
(***************************************************************************)
LEMMA MetadataNext == IInv /\ [Next]_vars => MetadataKept'
<1>. SUFFICES ASSUME IInv, [Next]_vars PROVE MetadataKept'
  OBVIOUS
<1>. USE DEF world, reports, states, metadata, persists, drain
<1>. TypeOK /\ MetadataKept
  BY DEF IInv
<1>1. ASSUME NEW p \in Projects, EditSource(p) PROVE MetadataKept'
  <2>1. \A q \in Projects \ {p} : config'[q] = config[q]
    BY <1>1 DEF EditSource, TypeOK
  <2>. QED BY <1>1, <2>1 DEF EditSource, MetadataKept
<1>2. ASSUME NEW p \in Projects, EditConfig(p) PROVE MetadataKept'
  <2>1. /\ reconfigured'[p] = "edited"
        /\ \A q \in Projects \ {p} : reconfigured'[q] = reconfigured[q] /\ config'[q] = config[q]
    BY <1>2 DEF EditConfig, TypeOK
  <2>. QED BY <1>2, <2>1 DEF EditConfig, MetadataKept
<1>3. ASSUME NEW S \in SUBSET Projects, Invalidate(S) PROVE MetadataKept'
  BY <1>3 DEF Invalidate, MarkOutOfDate, MetadataKept, TypeOK
<1>4. CASE Reload
  BY <1>4 DEF Reload, MetadataKept, TypeOK
<1>5. CASE RefreshFails
  <2>1. \A q \in Projects : parsed'[q] # config'[q] =>
          q \in edited' \/ reconfigured'[q] # "no" \/ q \in pending'
    BY <1>5 DEF RefreshFails, Parse, MetadataKept
  <2>2. ~stale' => parsed' = derived'
    <3>. SUFFICES ASSUME ~stale' PROVE parsed' = derived'
      OBVIOUS
    <3>1. ~stale /\ ~ParseChanged
      BY <1>5 DEF RefreshFails, StaleAfterParse
    <3>2. parsed' = parsed
      BY <1>5, <3>1 DEF RefreshFails, Parse, ParseChanged, TypeOK
    <3>. QED BY <1>5, <3>1, <3>2 DEF RefreshFails, MetadataKept
  <2>. QED BY <1>5, <2>1, <2>2 DEF RefreshFails, MetadataKept
<1>6. CASE RefreshSucceeds
  <2>1. parsed' = derived'
    <3>1. CASE ~StaleAfterParse
      <4>1. parsed' = parsed
        BY <1>6, <3>1 DEF RefreshSucceeds, StaleAfterParse, Parse, ParseChanged, TypeOK
      <4>. QED BY <1>6, <3>1, <4>1 DEF RefreshSucceeds, StaleAfterParse, MetadataKept
    <3>. QED BY <1>6, <3>1 DEF RefreshSucceeds
  <2>2. \A q \in Projects : parsed'[q] # config'[q] => q \in edited' \/ reconfigured'[q] # "no"
    BY <1>6 DEF RefreshSucceeds, Parse, MetadataKept
  <2>. QED BY <1>6, <2>1, <2>2 DEF RefreshSucceeds, MetadataKept
<1>7. ASSUME NEW p \in Projects, Task(p) PROVE MetadataKept'
  BY <1>7 DEF Task, BlockTask, SkipTask, BuildTask, EndTask, CanStart, MetadataKept, Outcomes, IInv
<1>8. CASE Finish
  BY <1>8 DEF Finish, StartMerge, MergeNext, DrainFails, StartSave, SaveStep, SaveFails,
              DrainSucceeds, EndDrain, MetadataKept
<1>9. CASE UNCHANGED vars
  BY <1>9 DEF vars, MetadataKept
<1>. QED BY <1>1, <1>2, <1>3, <1>4, <1>5, <1>6, <1>7, <1>8, <1>9 DEF Next, Edit, Drain

(***************************************************************************)
(* The outcomes of a drain's tasks.                                        *)
(***************************************************************************)
\* One task ends with e, or starts: the others keep what they have, and what it
\* becomes is justified.
LEMMA OneOutcome ==
  ASSUME IInv, NEW p \in Projects, NEW e \in {"building", "skipped", "blocked", "built", "failed"},
         phase = "tasks", UNCHANGED <<phase, refs, upToDate, merged>>,
         outcome' = [outcome EXCEPT ![p] = e],
         \A q \in Projects \ {p} : blocker'[q] = blocker[q],
         outcome[p] \in {"waiting", "building"},
         e = "skipped" => p \in upToDate,
         e = "building" => p \notin upToDate,
         e \in {"building"} \cup Good => \A d \in refs[p] : outcome[d] \in Good,
         e = "blocked" => blocker'[p] \in refs[p] /\ outcome[blocker'[p]] \in Bad
  PROVE  Outcomes'
<1>. TypeOK /\ Outcomes
  BY DEF IInv
<1>1. outcome'[p] = e /\ \A q \in Projects \ {p} : outcome'[q] = outcome[q]
  BY DEF TypeOK
<1>2. \A q \in Projects : refs[q] \subseteq Projects /\ q \notin refs[q]
  BY RefsEarlier DEF Projects
<1>3. \A q \in Projects : outcome[q] \in Good \cup Bad => outcome'[q] = outcome[q]
  BY <1>1 DEF Good, Bad
<1>4. \A q \in Projects : outcome'[q] = "skipped" => q \in upToDate
  BY <1>1 DEF Outcomes
<1>5. \A q \in Projects : outcome'[q] = "building" => q \notin upToDate
  BY <1>1 DEF Outcomes
<1>6. \A q \in Projects : outcome'[q] \in {"building"} \cup Good => \A d \in refs[q] : outcome'[d] \in Good
  <2>. SUFFICES ASSUME NEW q \in Projects, outcome'[q] \in {"building"} \cup Good, NEW d \in refs[q]
                PROVE  outcome'[d] \in Good
    OBVIOUS
  <2>1. outcome[d] \in Good
    BY <1>1 DEF Outcomes
  <2>. QED BY <1>2, <1>3, <2>1
<1>7. \A q \in Projects : outcome'[q] = "blocked" => blocker'[q] \in refs[q] /\ outcome'[blocker'[q]] \in Bad
  <2>. SUFFICES ASSUME NEW q \in Projects, outcome'[q] = "blocked"
                PROVE  blocker'[q] \in refs[q] /\ outcome'[blocker'[q]] \in Bad
    OBVIOUS
  <2>1. blocker'[q] \in refs[q] /\ outcome[blocker'[q]] \in Bad
    BY <1>1 DEF Outcomes
  <2>. QED BY <1>2, <1>3, <2>1
<1>. QED BY <1>4, <1>5, <1>6, <1>7 DEF Outcomes

LEMMA OutcomesNext == IInv /\ [Next]_vars => Outcomes'
<1>. SUFFICES ASSUME IInv, [Next]_vars PROVE Outcomes'
  OBVIOUS
<1>. USE DEF world, reports, states, metadata, persists, drain
<1>. TypeOK /\ Outcomes
  BY DEF IInv
<1>1. ASSUME NEW S \in SUBSET Projects, Invalidate(S) PROVE Outcomes'
  BY <1>1 DEF Invalidate, Outcomes, Good, Ended, Bad
<1>2. CASE Reload
  BY <1>2 DEF Reload, Outcomes, Good, Ended, Bad
<1>3. CASE RefreshSucceeds
  BY <1>3 DEF RefreshSucceeds, StartTasks, Outcomes, Good, Bad
<1>4. ASSUME NEW p \in Projects, CanStart(p), FailedRefs(p) = {}
      PROVE  \A d \in refs[p] : outcome[d] \in Good
  BY <1>4 DEF CanStart, BarriersClosed, Barriers, FailedRefs, Ended, Good, Bad
<1>5. ASSUME NEW p \in Projects, BlockTask(p) PROVE Outcomes'
  <2>1. PICK d \in FailedRefs(p) : blocker' = [blocker EXCEPT ![p] = d]
    BY <1>5 DEF BlockTask
  <2>2. d \in refs[p] /\ outcome[d] \in Bad /\ blocker'[p] = d
    BY <2>1 DEF FailedRefs, TypeOK
  <2>3. \A q \in Projects \ {p} : blocker'[q] = blocker[q]
    BY <2>1 DEF TypeOK
  <2>. QED BY <1>5, <2>2, <2>3, OneOutcome DEF BlockTask, CanStart, Good
<1>6. ASSUME NEW p \in Projects, SkipTask(p) PROVE Outcomes'
  BY <1>4, <1>6, OneOutcome DEF SkipTask, CanStart, Good
<1>7. ASSUME NEW p \in Projects, BuildTask(p) PROVE Outcomes'
  BY <1>4, <1>7, OneOutcome DEF BuildTask, CanStart, Good
<1>8. ASSUME NEW p \in Projects, EndTask(p) PROVE Outcomes'
  <2>1. PICK end \in {"built", "failed"} : outcome' = [outcome EXCEPT ![p] = end]
    BY <1>8 DEF EndTask, Publish, EndsUnpublished, Ends
  <2>2. phase = "tasks"
    BY <1>8 DEF EndTask, Outcomes, Ended, TypeOK
  <2>3. \A d \in refs[p] : outcome[d] \in Good
    BY <1>8 DEF EndTask, Outcomes
  <2>. QED BY <1>8, <2>1, <2>2, <2>3, OneOutcome DEF EndTask
<1>9. CASE StartMerge
  <2>1. \A p \in Projects : ~(p <= 0)
    BY DEF Projects
  <2>. QED BY <1>9, <2>1 DEF StartMerge, Outcomes
<1>10. CASE MergeNext
  <2>1. merged + 1 \in Projects /\ \A p \in Projects : p <= merged + 1 => p <= merged \/ p = merged + 1
    BY <1>10, DrainAssumption DEF MergeNext, TypeOK, Projects
  <2>2. upToDate' = IF outcome[merged + 1] = "built" THEN upToDate \cup {merged + 1} ELSE upToDate
    BY <1>10 DEF MergeNext, MergeBuilt, MergeOther
  <2>3. \A p \in Projects : outcome[p] # "building"
    BY <1>10 DEF MergeNext, Outcomes, Ended
  <2>. QED BY <1>10, <2>1, <2>2, <2>3 DEF MergeNext, Outcomes
<1>11. CASE StartSave
  BY <1>11 DEF StartSave, MaySave, Failing, Outcomes
<1>12. CASE DrainFails \/ SaveFails \/ DrainSucceeds
  BY <1>12 DEF DrainFails, SaveFails, DrainSucceeds, EndDrain, Outcomes, Good, Bad
<1>13. CASE UNCHANGED <<phase, outcome, upToDate, refs, blocker, merged>>
  BY <1>13 DEF Outcomes
<1>14. ASSUME NEW p \in Projects, EditSource(p) \/ EditConfig(p)
       PROVE  UNCHANGED <<phase, outcome, upToDate, refs, blocker, merged>>
  BY <1>14 DEF EditSource, EditConfig
<1>15. RefreshFails \/ SaveStep => UNCHANGED <<phase, outcome, upToDate, refs, blocker, merged>>
  BY DEF RefreshFails, SaveStep
<1>. QED BY <1>1, <1>2, <1>3, <1>5, <1>6, <1>7, <1>8, <1>9, <1>10, <1>11, <1>12, <1>13, <1>14, <1>15
         DEF Next, Edit, Drain, Task, Finish, vars

(***************************************************************************)
(* The Flamework state of the projects that others build on.               *)
(***************************************************************************)
LEMMA PublishedNext == IInv /\ [Next]_vars => Published'
<1>. SUFFICES ASSUME IInv, [Next]_vars PROVE Published'
  OBVIOUS
<1>. USE DEF world, reports, states, metadata, persists, drain
<1>. TypeOK /\ Published /\ unpublished \subseteq Projects
  BY DrainAssumption DEF IInv, TypeOK
<1>1. ASSUME NEW S \in SUBSET Projects, Invalidate(S) PROVE Published'
  BY <1>1 DEF Invalidate, MarkOutOfDate, Published
<1>2. CASE RefreshSucceeds
  BY <1>2 DEF RefreshSucceeds, StartTasks, Published, Good
<1>3. ASSUME NEW p \in Projects, BlockTask(p) \/ BuildTask(p) PROVE Published'
  <2>1. PICK e \in {"blocked", "building"} : outcome' = [outcome EXCEPT ![p] = e]
    BY <1>3 DEF BlockTask, BuildTask
  <2>. QED BY <1>3, <2>1 DEF BlockTask, BuildTask, Published, Good, TypeOK
<1>4. ASSUME NEW p \in Projects, SkipTask(p) PROVE Published'
  BY <1>4 DEF SkipTask, Published, TypeOK
<1>5. ASSUME NEW p \in Projects, EndTask(p) PROVE Published'
  <2>1. p \notin upToDate /\ upToDate' = upToDate
    BY <1>5 DEF EndTask, IInv, Outcomes
  <2>2. CASE Publish(p)
    BY <2>1, <2>2 DEF Publish, Ends, Published, TypeOK
  <2>3. CASE EndsUnpublished(p)
    BY <2>1, <2>3 DEF EndsUnpublished, Ends, Published, Good, TypeOK
  <2>. QED BY <1>5, <2>2, <2>3 DEF EndTask
<1>6. CASE MergeNext
  <2>1. CASE MergeBuilt(merged + 1)
    BY <1>6, <2>1 DEF MergeNext, MergeBuilt, Published, Good
  <2>2. CASE MergeOther(merged + 1)
    BY <1>6, <2>2 DEF MergeNext, MergeOther, Published
  <2>. QED BY <1>6, <2>1, <2>2 DEF MergeNext
<1>7. CASE DrainFails \/ SaveFails \/ DrainSucceeds
  BY <1>7 DEF DrainFails, SaveFails, DrainSucceeds, EndDrain, Published, Good
<1>8. CASE UNCHANGED <<unpublished, upToDate, outcome>>
  BY <1>8 DEF Published
<1>9. ASSUME NEW p \in Projects, EditSource(p) \/ EditConfig(p)
      PROVE  UNCHANGED <<unpublished, upToDate, outcome>>
  BY <1>9 DEF EditSource, EditConfig
<1>10. Reload \/ RefreshFails \/ StartMerge \/ StartSave \/ SaveStep
         => UNCHANGED <<unpublished, upToDate, outcome>>
  BY DEF Reload, RefreshFails, StartMerge, StartSave, SaveStep
<1>. QED BY <1>1, <1>2, <1>3, <1>4, <1>5, <1>6, <1>7, <1>8, <1>9, <1>10
         DEF Next, Edit, Drain, Task, Finish, vars

(***************************************************************************)
(* The persistence queue.                                                  *)
(***************************************************************************)
LEMMA QueueNext == IInv /\ [Next]_vars => QueueInv'
<1>. SUFFICES ASSUME IInv, [Next]_vars PROVE QueueInv'
  OBVIOUS
<1>. USE DEF world, reports, states, metadata, persists, drain
<1>. TypeOK /\ QueueInv
  BY DEF IInv
<1>1. CASE Reload
  <2>1. Len(queue') = 0 /\ ToSet(queue') = {}
    BY <1>1 DEF Reload, ToSet
  <2>. QED BY <1>1, <2>1 DEF Reload, QueueInv, QueueCovers
<1>2. CASE MergeNext
  <2>1. merged + 1 \in Projects
    BY <1>2, DrainAssumption DEF MergeNext, TypeOK, Projects
  <2>. DEFINE p == merged + 1
  <2>2. CASE MergeBuilt(p)
    <3>1. ToSet(queue') = ToSet(queue) \cup {p}
      BY <2>1, <2>2, Appended DEF MergeBuilt, AppendPersists, TypeOK
    <3>2. \A i, j \in 1 .. Len(queue') : queue'[i] = queue'[j] => i = j
      <4>1. CASE p \in ToSet(queue)
        BY <2>2, <4>1 DEF MergeBuilt, AppendPersists, QueueInv
      <4>2. CASE p \notin ToSet(queue)
        <5>1. queue' = Append(queue, p)
          BY <2>2, <4>2 DEF MergeBuilt, AppendPersists
        <5>2. \A i \in 1 .. Len(queue) : queue[i] # p
          BY <4>2 DEF ToSet, TypeOK
        <5>3. /\ Len(queue') = Len(queue) + 1 /\ Len(queue) \in Nat /\ queue'[Len(queue) + 1] = p
              /\ \A i \in 1 .. Len(queue) : queue'[i] = queue[i]
          BY <2>1, <5>1 DEF TypeOK
        <5>. QED BY <5>2, <5>3 DEF QueueInv
      <4>. QED BY <4>1, <4>2
    <3>3. steps'[p] > 0 /\ \A q \in Projects \ {p} : steps'[q] = steps[q]
      BY <2>1, <2>2, DrainAssumption DEF MergeBuilt, AppendPersists, StepsReplaced, TypeOK
    <3>4. ToSet(queue) \subseteq Projects
      BY DEF ToSet, TypeOK
    <3>5. unsaved' \ dropped' = (unsaved \ dropped) \cup {p}
      BY <2>2 DEF MergeBuilt, AppendPersists
    <3>6. QueueCovers'
      BY <3>1, <3>3, <3>4, <3>5 DEF QueueInv, QueueCovers
    <3>. QED BY <3>2, <3>6 DEF QueueInv
  <2>3. CASE MergeOther(p)
    BY <1>2, <2>3 DEF MergeNext, MergeOther, QueueInv, QueueCovers
  <2>. QED BY <1>2, <2>2, <2>3 DEF MergeNext
<1>3. CASE SaveStep
  <2>. DEFINE p == Head(queue)
  <2>1. /\ p \in ToSet(queue) /\ ToSet(Tail(queue)) = ToSet(queue) \ {p}
        /\ \A i, j \in 1 .. Len(Tail(queue)) : Tail(queue)[i] = Tail(queue)[j] => i = j
    BY <1>3, Dequeued DEF SaveStep, QueueInv, TypeOK
  <2>2. p \in Projects /\ ToSet(queue) \subseteq Projects
    BY <2>1 DEF ToSet, TypeOK
  <2>3. steps'[p] = steps[p] - 1 /\ \A q \in Projects \ {p} : steps'[q] = steps[q]
    BY <1>3, <2>2 DEF SaveStep, TypeOK
  <2>4. steps[p] \in 1 .. Steps
    BY <2>1, <2>2 DEF QueueInv, QueueCovers, TypeOK
  <2>5. CASE steps[p] = 1
    <3>1. queue' = Tail(queue) /\ unsaved' = unsaved \ {p} /\ dropped' = dropped
      BY <1>3, <2>5 DEF SaveStep, LastStep
    <3>. QED BY <2>1, <2>2, <2>3, <3>1 DEF QueueInv, QueueCovers
  <2>6. CASE steps[p] # 1
    <3>1. queue' = queue /\ unsaved' = unsaved /\ dropped' = dropped
      BY <1>3, <2>6 DEF SaveStep, LastStep
    <3>2. steps'[p] > 0
      BY <2>3, <2>4, <2>6, Bounds
    <3>. QED BY <2>1, <2>2, <2>3, <3>1, <3>2 DEF QueueInv, QueueCovers
  <2>. QED BY <2>5, <2>6
<1>4. CASE UNCHANGED <<queue, steps, unsaved, dropped>>
  BY <1>4 DEF QueueInv, QueueCovers
<1>5. ASSUME NEW p \in Projects, EditSource(p) \/ EditConfig(p) \/ Task(p)
      PROVE  UNCHANGED <<queue, steps, unsaved, dropped>>
  BY <1>5 DEF EditSource, EditConfig, Task, BlockTask, SkipTask, BuildTask, EndTask
<1>6. ASSUME NEW S \in SUBSET Projects, Invalidate(S)
      PROVE  UNCHANGED <<queue, steps, unsaved, dropped>>
  BY <1>6 DEF Invalidate
<1>7. RefreshFails \/ RefreshSucceeds \/ (Finish /\ ~MergeNext /\ ~SaveStep)
        => UNCHANGED <<queue, steps, unsaved, dropped>>
  BY DEF RefreshFails, RefreshSucceeds, Finish, StartMerge, DrainFails, StartSave, SaveFails, DrainSucceeds
<1>. QED BY <1>1, <1>2, <1>3, <1>4, <1>5, <1>6, <1>7 DEF Next, Edit, Drain, vars
-----------------------------------------------------------------------------
(***************************************************************************)
(* The invariant and what follows from it.                                 *)
(***************************************************************************)
LEMMA NextIInv == IInv /\ [Next]_vars => IInv'
BY TypeNext, RefsKnownNext, UpClosedNext, FreshNext, MetadataNext, OutcomesNext, PublishedNext, QueueNext DEF IInv

LEMMA Invariance == Spec => []IInv
BY InitIInv, NextIInv, PTL DEF Spec

\* Every variable of the coordinator keeps its type, the steps a project has
\* left to save stay within what one build defers.
THEOREM TypeCorrect == Spec => []TypeOK
<1>. IInv => TypeOK
  BY DEF IInv
<1>. QED BY Invariance, PTL

\* An up-to-date project whose inputs changed is one whose change the owner has
\* still to report, for every graph, every change of the graph and every order of
\* invalidations, reloads and drains.
THEOREM StaysFresh == Spec => []Fresh
<1>. IInv => Fresh
  BY DEF IInv, FreshNow, Fresh
<1>. QED BY Invariance, PTL

\* Every drain runs on metadata derived from the configs as last reported.
THEOREM MetadataFollows == Spec => []MetadataCurrent
<1>. IInv => MetadataCurrent
  BY DEF IInv, MetadataKept, MetadataCurrent
<1>. QED BY Invariance, PTL

\* What was built or skipped rests, through all its references, on projects that
\* did not fail, and that published.
LEMMA BlocksFromOutcomes == IInv => FailureBlocks
<1>. SUFFICES ASSUME IInv, NEW p \in Projects
              PROVE  /\ outcome[p] \in {"building", "built", "skipped"} =>
                          /\ \A q \in Projects : p \in DependantsOf({q}) => outcome[q] \notin Bad
                          /\ refs[p] \cap unpublished = {}
                     /\ outcome[p] = "blocked" => blocker[p] \in refs[p] /\ outcome[blocker[p]] \in Bad
  BY DEF FailureBlocks
<1>. TypeOK /\ Outcomes /\ Published
  BY DEF IInv
<1>1. ASSUME outcome[p] \in {"building", "built", "skipped"},
             NEW q \in Projects, p \in DependantsOf({q}), outcome[q] \in Bad
      PROVE  FALSE
  <2>1. PICK T \in SUBSET Projects : T = {r \in Projects : outcome[r] \notin {"building", "built", "skipped"}}
    OBVIOUS
  <2>2. {q} \subseteq T
    BY <1>1, <2>1 DEF Bad
  <2>3. ASSUME NEW r \in Projects, refs[r] \cap T # {} PROVE r \in T
    <3>1. PICK d \in refs[r] : outcome[d] \notin {"building", "built", "skipped"}
      BY <2>1, <2>3
    <3>. QED BY <2>1, <3>1 DEF Outcomes, Good
  <2>4. p \in T
    BY <1>1, <2>2, <2>3 DEF DependantsOf
  <2>. QED BY <1>1, <2>1, <2>4
<1>2. outcome[p] \in {"building", "built", "skipped"} => refs[p] \cap unpublished = {}
  BY DEF Outcomes, Good, Published
<1>. QED BY <1>1, <1>2 DEF Outcomes

\* Nothing is built or skipped on top of a failure, however far down the references, or
\* on a reference whose last build has not published its Flamework state (drain_task).
THEOREM FailuresBlock == Spec => []FailureBlocks
BY Invariance, BlocksFromOutcomes, PTL

\* The state of every build is queued until it is saved or a reload drops it.
THEOREM QueueKeeps == Spec => []QueueCovers
<1>. IInv => QueueCovers
  BY DEF IInv, QueueInv
<1>. QED BY Invariance, PTL

\* A drain in which a project failed saves no project's deferred state: the queue of
\* drain_inner, not the Flamework state that a built project's own task publishes.
THEOREM SavesAllOrNothing == Spec => AllOrNothing
<1>1. IInv /\ [Next]_vars =>
        [\A p \in unsaved : p \notin unsaved' => \A q \in Projects : outcome[q] \notin Bad]_vars
  <2>. SUFFICES ASSUME IInv, [Next]_vars, NEW p \in unsaved, p \notin unsaved'
                PROVE  \A q \in Projects : outcome[q] \notin Bad
    OBVIOUS
  <2>. USE DEF world, reports, states, metadata, persists, drain
  <2>1. ~UNCHANGED vars /\ ~Reload /\ ~RefreshFails /\ ~RefreshSucceeds
    BY DEF vars, Reload, RefreshFails, RefreshSucceeds
  <2>2. ASSUME NEW q \in Projects PROVE ~EditSource(q) /\ ~EditConfig(q) /\ ~Task(q)
    BY DEF EditSource, EditConfig, Task, BlockTask, SkipTask, BuildTask, EndTask
  <2>3. ASSUME NEW S \in SUBSET Projects PROVE ~Invalidate(S)
    BY DEF Invalidate
  <2>4. ~StartMerge /\ ~MergeNext /\ ~DrainFails /\ ~StartSave /\ ~SaveFails /\ ~DrainSucceeds
    BY DEF StartMerge, MergeNext, MergeBuilt, MergeOther, AppendPersists, DrainFails, StartSave,
           SaveFails, DrainSucceeds
  <2>5. SaveStep
    BY <2>1, <2>2, <2>3, <2>4 DEF Next, Edit, Drain, Finish
  <2>. QED BY <2>5 DEF SaveStep, IInv, Outcomes
<1>. QED BY <1>1, Invariance, PTL DEF Spec, AllOrNothing

(***************************************************************************)
(* The tasks of a drain go on.                                             *)
(***************************************************************************)
\* A task that has begun began after every project it waits for had ended.
TasksInOrder ==
  /\ phase # "idle" => \A p \in Projects : outcome[p] # "none"
  /\ \A p \in Projects : outcome[p] \notin {"none", "waiting"} => BarriersClosed(p)
  /\ Cardinality(Building) <= Builders

LEMMA ProjectsFinite == \A T \in SUBSET Projects : IsFiniteSet(T)
<1>1. 1 \in Int /\ N \in Int
  BY DrainAssumption
<1>2. IsFiniteSet(Projects)
  BY <1>1, FS_Interval DEF Projects
<1>. QED BY <1>2, FS_Subset

LEMMA BuildingFinite ==
  ASSUME TypeOK
  PROVE  IsFiniteSet(Building) /\ Cardinality(Building) \in Nat
<1>1. Building \subseteq Projects
  BY DEF Building
<1>. QED BY <1>1, ProjectsFinite, FS_CardinalityType

\* One outcome changes: no barrier that was closed opens again.
LEMMA OrderKept ==
  ASSUME IInv, TasksInOrder, NEW p \in Projects, NEW e \in Ended \cup {"building"},
         phase' = phase, refs' = refs, outcome' = [outcome EXCEPT ![p] = e],
         outcome[p] \notin Ended,
         outcome[p] \notin {"none", "waiting"} \/ BarriersClosed(p),
         e = "building" => Cardinality(Building) < Builders
  PROVE  TasksInOrder'
<1>. TypeOK
  BY DEF IInv
<1>1. outcome'[p] = e /\ \A q \in Projects \ {p} : outcome'[q] = outcome[q]
  BY DEF TypeOK
<1>2. \A q \in Projects : Barriers(q) \subseteq Projects /\ Barriers(q)' = Barriers(q)
  BY RefsEarlier DEF Barriers
<1>3. \A q \in Projects : BarriersClosed(q) => BarriersClosed(q)'
  BY <1>1, <1>2 DEF BarriersClosed
<1>4. \A q \in Projects : outcome'[q] \notin {"none", "waiting"} => BarriersClosed(q)'
  BY <1>1, <1>3 DEF TasksInOrder
<1>5. Cardinality(Building') <= Builders
  <2>1. Building' = IF e = "building" THEN Building \cup {p} ELSE Building \ {p}
    BY <1>1 DEF Building, Ended
  <2>2. Cardinality(Building \cup {p}) \in {Cardinality(Building), Cardinality(Building) + 1}
    BY BuildingFinite, FS_AddElement
  <2>3. Cardinality(Building \ {p}) \in {Cardinality(Building), Cardinality(Building) - 1}
    BY BuildingFinite, FS_RemoveElement
  <2>. QED BY <2>1, <2>2, <2>3, BuildingFinite, DrainAssumption DEF TasksInOrder
<1>6. phase' # "idle" => \A q \in Projects : outcome'[q] # "none"
  BY <1>1 DEF TasksInOrder, Ended
<1>. QED BY <1>4, <1>5, <1>6 DEF TasksInOrder

LEMMA TasksInOrderNext == IInv /\ TasksInOrder /\ [Next]_vars => TasksInOrder'
<1>. SUFFICES ASSUME IInv, TasksInOrder, [Next]_vars PROVE TasksInOrder'
  OBVIOUS
<1>. USE DEF world, reports, states, metadata, persists, drain
<1>. TypeOK
  BY DEF IInv
<1>1. ASSUME NEW p \in Projects, BlockTask(p) \/ SkipTask(p) \/ BuildTask(p) PROVE TasksInOrder'
  <2>1. PICK e \in {"blocked", "skipped", "building"} : outcome' = [outcome EXCEPT ![p] = e]
    BY <1>1 DEF BlockTask, SkipTask, BuildTask
  <2>2. CanStart(p) /\ phase' = phase /\ refs' = refs
    BY <1>1 DEF BlockTask, SkipTask, BuildTask
  <2>. QED BY <2>1, <2>2, OrderKept DEF CanStart, Ended
<1>2. ASSUME NEW p \in Projects, EndTask(p) PROVE TasksInOrder'
  <2>1. PICK e \in {"built", "failed"} : outcome' = [outcome EXCEPT ![p] = e]
    BY <1>2 DEF EndTask, Publish, EndsUnpublished, Ends
  <2>. QED BY <1>2, <2>1, OrderKept DEF EndTask, Ended
<1>3. ASSUME \A p \in Projects : outcome'[p] \in {"none", "waiting"},
             phase' # "idle" => \A p \in Projects : outcome'[p] # "none"
      PROVE  TasksInOrder'
  <2>1. Building' = {}
    BY <1>3 DEF Building
  <2>2. Cardinality(Building') = 0
    BY <2>1, FS_EmptySet
  <2>. QED BY <1>3, <2>2, DrainAssumption DEF TasksInOrder
<1>4. CASE RefreshSucceeds \/ DrainFails \/ SaveFails \/ DrainSucceeds
  <2>1. \/ phase' = "tasks" /\ outcome' = [p \in Projects |-> "waiting"]
        \/ phase' = "idle" /\ outcome' = [p \in Projects |-> "none"]
    BY <1>4 DEF RefreshSucceeds, StartTasks, DrainFails, SaveFails, DrainSucceeds, EndDrain
  <2>. QED BY <1>3, <2>1
<1>5. ASSUME UNCHANGED <<outcome, refs>>, phase' = phase \/ phase # "idle" PROVE TasksInOrder'
  <2>1. Building' = Building /\ \A p \in Projects : BarriersClosed(p)' = BarriersClosed(p)
    BY <1>5 DEF Building, BarriersClosed, Barriers
  <2>. QED BY <1>5, <2>1 DEF TasksInOrder
<1>6. CASE Reload
  BY <1>3, <1>6 DEF Reload, IInv, Outcomes
<1>7. ASSUME NEW p \in Projects, EditSource(p) \/ EditConfig(p) PROVE TasksInOrder'
  BY <1>5, <1>7 DEF EditSource, EditConfig
<1>8. ASSUME NEW S \in SUBSET Projects, Invalidate(S) PROVE TasksInOrder'
  BY <1>5, <1>8 DEF Invalidate
<1>9. CASE RefreshFails \/ StartMerge \/ StartSave \/ SaveStep \/ MergeNext
  BY <1>5, <1>9 DEF RefreshFails, StartMerge, StartSave, SaveStep, MergeNext
<1>10. CASE UNCHANGED vars
  BY <1>5, <1>10 DEF vars
<1>. QED BY <1>1, <1>2, <1>4, <1>6, <1>7, <1>8, <1>9, <1>10 DEF Next, Edit, Drain, Task, Finish

\* Of any projects one comes first in graph order: of the intervals that they end, one
\* contains no other.
LEMMA FirstProject ==
  ASSUME NEW S \in SUBSET Projects, S # {}
  PROVE  \E p \in S : \A q \in S : ~ (q < p)
<1>. DEFINE Upto == {1 .. p : p \in S}
<1>1. Upto \subseteq FiniteSubsetsOf(Projects) /\ Upto # {}
  <2>1. \A p \in S : 1 .. p \in SUBSET Projects
    BY DrainAssumption DEF Projects
  <2>. QED BY <2>1, ProjectsFinite DEF FiniteSubsetsOf
<1>2. PICK T \in Upto : \A U \in Upto : <<U, T>> \notin StrictSubsetOrdering(Projects)
  BY <1>1, FS_StrictSubsetOrderingWellFounded, WFMin
<1>3. PICK p \in S : T = 1 .. p
  OBVIOUS
<1>4. ASSUME NEW q \in S, q < p PROVE FALSE
  <2>1. 1 .. q \subseteq 1 .. p /\ p \in 1 .. p /\ p \notin 1 .. q /\ 1 .. p \subseteq Projects
    BY <1>4, DrainAssumption DEF Projects
  <2>2. <<1 .. q, 1 .. p>> \in StrictSubsetOrdering(Projects)
    BY <2>1 DEF StrictSubsetOrdering
  <2>. QED BY <1>2, <1>3, <2>2
<1>. QED BY <1>4

\* A drain is never stuck in its tasks, whatever the references, the write roots and
\* the failures: until every project has an outcome one builds, or one may start
\* (drain_inner): the first project that waits has its barriers closed.
DrainMoves ==
  phase = "tasks" =>
    \/ \A p \in Projects : outcome[p] \in Ended
    \/ \E p \in Projects : outcome[p] = "building" \/ CanStart(p)

LEMMA OrderInvariance == Spec => []TasksInOrder
<1>1. Init => TasksInOrder
  <2>. SUFFICES ASSUME Init PROVE TasksInOrder
    OBVIOUS
  <2>1. Building = {}
    BY DEF Init, Building
  <2>2. Cardinality(Building) = 0
    BY <2>1, FS_EmptySet
  <2>. QED BY <2>2, DrainAssumption DEF Init, TasksInOrder
<1>. QED BY <1>1, TasksInOrderNext, Invariance, PTL DEF Spec

\* Any drain can go on until all its projects have an outcome (drain_inner).
THEOREM NeverStuck == Spec => []DrainMoves
<1>1. IInv /\ TasksInOrder => DrainMoves
  <2>. SUFFICES ASSUME IInv, TasksInOrder, phase = "tasks", Building = {},
                       NEW w \in Projects, outcome[w] \notin Ended
                PROVE  \E p \in Projects : CanStart(p)
    BY DEF DrainMoves, Building
  <2>. DEFINE Waiting == {p \in Projects : outcome[p] \notin Ended}
  <2>1. PICK p \in Waiting : \A q \in Waiting : ~ (q < p)
    <3>1. Waiting \subseteq Projects /\ Waiting # {}
      OBVIOUS
    <3>. HIDE DEF Waiting
    <3>. QED BY <3>1, FirstProject
  <2>2. outcome[p] = "waiting"
    BY DEF IInv, TypeOK, TasksInOrder, Building
  <2>3. BarriersClosed(p)
    <3>1. \A q \in Barriers(p) : q \in Projects /\ q < p
      BY RefsEarlier DEF IInv, Barriers
    <3>. QED BY <2>1, <3>1 DEF BarriersClosed
  <2>4. Cardinality(Building) < Builders
    BY FS_EmptySet, DrainAssumption
  <2>. QED BY <2>2, <2>3, <2>4 DEF CanStart
<1>. QED BY <1>1, Invariance, OrderInvariance, PTL

\* In a drain two projects whose write roots overlap never build at the same time, and
\* a project never builds while one that it refers to does, nor do more than the
\* builders allow (solution_scheduler.rs, derive_wait_only_dependencies).
BuildsApart ==
  /\ \A p, q \in Building : p # q => {p, q} \notin Overlaps /\ q \notin refs[p]
  /\ Cardinality(Building) <= Builders

\* Builds that run together share no write root and no reference, whatever the graph
\* (drain_inner, derive_wait_only_dependencies).
THEOREM BuildsExclude == Spec => []BuildsApart
<1>1. IInv /\ TasksInOrder => BuildsApart
  <2>. SUFFICES ASSUME IInv, TasksInOrder, NEW p \in Building, NEW q \in Building, p # q
                PROVE  {p, q} \notin Overlaps /\ q \notin refs[p]
    BY DEF BuildsApart, TasksInOrder
  <2>1. /\ p \in Projects /\ q \in Projects /\ BarriersClosed(p) /\ BarriersClosed(q)
        /\ outcome[p] \notin Ended /\ outcome[q] \notin Ended
    BY DEF Building, TasksInOrder, Ended
  <2>2. p < q \/ q < p
    BY <2>1 DEF Projects
  <2>3. {p, q} = {q, p}
    OBVIOUS
  <2>. QED BY <2>1, <2>2, <2>3 DEF BarriersClosed, Barriers
<1>. QED BY <1>1, Invariance, OrderInvariance, PTL

(***************************************************************************)
(* The refinement of OrderedTasks.                                         *)
(***************************************************************************)
Waits == [p \in Projects |-> Barriers(p)]
Statuses == [p \in Projects |-> TaskStatus(p)]

LEMMA WaitsTyped == refs \in Graphs => Waits \in [Projects -> SUBSET Projects]
BY DrainAssumption DEF Waits, Barriers

\* A step of one task.
LEMMA TaskMaps == ASSUME TypeOK, NEW p \in Projects, Task(p) PROVE Order!Next
<1>. USE DEF TypeOK
<1>1. refs' = refs /\ Waits' = Waits
  BY DEF Task, BlockTask, SkipTask, BuildTask, EndTask, Waits, Barriers
<1>2. ASSUME NEW e \in Ended \cup {"building"}, outcome' = [outcome EXCEPT ![p] = e]
      PROVE  Statuses' = [Statuses EXCEPT ![p] = IF e = "building" THEN "running" ELSE "done"]
  BY <1>2 DEF Statuses, TaskStatus, Ended
<1>3. CanStart(p) => Order!MayStart(p)
  <2>. SUFFICES ASSUME CanStart(p) PROVE Order!MayStart(p)
    OBVIOUS
  <2>1. TaskStatus(p) = "waiting" /\ \A b \in Barriers(p) : outcome[b] \in Ended
    BY DEF CanStart, BarriersClosed, TaskStatus
  <2>2. \A b \in Barriers(p) : TaskStatus(b) = "done"
    BY <2>1 DEF TaskStatus, Ended
  <2>3. Waits[p] = Barriers(p) /\ Waits[p] \subseteq Projects
    BY WaitsTyped DEF Waits
  <2>. QED BY <2>1, <2>2, <2>3 DEF Order!MayStart, Waits
<1>4. CASE BlockTask(p) \/ SkipTask(p)
  <2>1. PICK e \in {"blocked", "skipped"} : outcome' = [outcome EXCEPT ![p] = e]
    BY <1>4 DEF BlockTask, SkipTask
  <2>2. Statuses' = [Statuses EXCEPT ![p] = "done"] /\ Order!MayStart(p)
    BY <1>2, <1>3, <1>4, <2>1 DEF BlockTask, SkipTask, Ended
  <2>3. Order!Pass(p)
    BY <1>1, <2>2 DEF Order!Pass, Waits, Statuses
  <2>. QED BY <2>3 DEF Order!Next
<1>5. CASE BuildTask(p)
  <2>1. Statuses' = [Statuses EXCEPT ![p] = "running"] /\ Order!MayStart(p)
    BY <1>2, <1>3, <1>5 DEF BuildTask
  <2>2. Order!Start(p)
    BY <1>1, <2>1 DEF Order!Start, Waits, Statuses
  <2>. QED BY <2>2 DEF Order!Next
<1>6. CASE EndTask(p)
  <2>1. PICK e \in {"built", "failed"} : outcome' = [outcome EXCEPT ![p] = e]
    BY <1>6 DEF EndTask, Publish, EndsUnpublished, Ends
  <2>2. Statuses' = [Statuses EXCEPT ![p] = "done"] /\ TaskStatus(p) = "running"
    BY <1>2, <1>6, <2>1 DEF EndTask, Ended, TaskStatus
  <2>3. Order!Finish(p)
    BY <1>1, <2>2 DEF Order!Finish, Waits, Statuses
  <2>. QED BY <2>3 DEF Order!Next
<1>. QED BY <1>4, <1>5, <1>6 DEF Task

\* A drain that ends makes the next one possible, and a reload comes between drains.
LEMMA BetweenDrains ==
  ASSUME IInv, TypeOK', [Next]_vars, \A p \in Projects : ~Task(p)
  PROVE  Order!Next \/ UNCHANGED <<Waits, Statuses>>
<1>. USE DEF IInv, TypeOK, world, reports, states, metadata, persists, drain
<1>1. CASE DrainFails \/ SaveFails \/ DrainSucceeds
  <2>1. /\ refs' = refs /\ phase \in {"merge", "save"}
        /\ outcome' = [p \in Projects |-> "none"]
    BY <1>1 DEF DrainFails, SaveFails, DrainSucceeds, EndDrain
  <2>2. /\ \A p \in Projects : TaskStatus(p) = "done"
        /\ Statuses' = [p \in Projects |-> "waiting"] /\ Waits' = Waits
    BY <2>1 DEF Outcomes, TaskStatus, Ended, Statuses, Waits, Barriers
  <2>3. Order!NextDrain
    BY <2>2 DEF Order!NextDrain, Order!AllWaiting, Waits, Statuses
  <2>. QED BY <2>3 DEF Order!Next
<1>2. CASE Reload
  <2>1. Statuses = [p \in Projects |-> "waiting"] /\ Statuses' = Statuses
    BY <1>2 DEF Reload, Outcomes, Statuses, TaskStatus
  <2>2. Waits' \in [Projects -> SUBSET Projects]
    BY DrainAssumption DEF Waits, Barriers
  <2>3. Order!Regraph
    BY <2>1, <2>2 DEF Order!Regraph, Order!AllWaiting, Waits, Statuses
  <2>. QED BY <2>3 DEF Order!Next
<1>3. CASE RefreshSucceeds
  BY <1>3 DEF RefreshSucceeds, StartTasks, Outcomes, Statuses, TaskStatus, Waits, Barriers
<1>4. CASE UNCHANGED <<outcome, refs>>
  BY <1>4 DEF Statuses, TaskStatus, Waits, Barriers
<1>5. CASE RefreshFails \/ StartMerge \/ StartSave \/ SaveStep \/ MergeNext \/ UNCHANGED vars
  BY <1>4, <1>5 DEF RefreshFails, StartMerge, StartSave, SaveStep, MergeNext, vars
<1>6. CASE Edit \/ \E S \in SUBSET Projects : Invalidate(S)
  BY <1>4, <1>6 DEF Edit, EditSource, EditConfig, Invalidate
<1>. QED BY <1>1, <1>2, <1>3, <1>5, <1>6 DEF Next, Drain, Finish

\* For any graphs and any history of reloads and drains the coordinator runs the
\* projects in the plain order that the scheduler implements and that the parse cache
\* relies on (drain_inner, with its tasks' predecessors and wait_only).
THEOREM DrainsInOrder == Spec => ImplementsOrder
<1>1. Init => Order!Init
  <2>. SUFFICES ASSUME Init PROVE Order!Init
    OBVIOUS
  <2>1. refs \in Graphs /\ \A p \in Projects : TaskStatus(p) = "waiting"
    BY DEF Init, TaskStatus
  <2>. QED BY <2>1, WaitsTyped DEF Order!Init, Order!AllWaiting, Waits
<1>2. IInv /\ IInv' /\ [Next]_vars => [Order!Next]_(Order!vars)
  <2>. SUFFICES ASSUME IInv, IInv', [Next]_vars PROVE Order!Next \/ UNCHANGED <<Waits, Statuses>>
    BY DEF Order!vars, Waits, Statuses
  <2>1. TypeOK /\ TypeOK'
    BY DEF IInv
  <2>. QED BY <2>1, TaskMaps, BetweenDrains
<1>. QED BY <1>1, <1>2, Invariance, PTL DEF Spec, ImplementsOrder, Order!Spec

-----------------------------------------------------------------------------
(***************************************************************************)
(* The watch loop, SolutionWatch.                                          *)
(***************************************************************************)
USE DEF shared, gate, watch

Stages ==
  /\ worker \in {"waiting", "take", "left", "drain"} => taken = Nothing
  /\ worker = "invalidate" => taken.configs = {}

WatchTypes ==
  /\ stopped \in BOOLEAN
  /\ undelivered \subseteq Changes
  /\ recorded \in [projects : SUBSET Projects, configs : SUBSET ConfigChanges]
  /\ taken \in [projects : SUBSET Projects, configs : SUBSET ConfigChanges]
  /\ lost \subseteq Projects
  /\ broken \in BOOLEAN /\ triggering \in BOOLEAN /\ gatePending \in BOOLEAN /\ closed \in BOOLEAN
  /\ worker \in {"waiting", "take", "reload", "invalidate", "drain", "left"}

\* A tsconfig change that no reload has seen is itself on its way: a source change of
\* the same project does not carry it.
ConfigsComing ==
  {c.project : c \in {d \in undelivered \cup recorded.configs \cup taken.configs : d.kind # "source"}}
ConfigOnItsWay ==
  ~stopped => \A p \in Projects : reconfigured[p] = "edited" => p \in ConfigsComing \cup lost

\* NoSleepingEvents in every stage but the one that is about to take the events.
Awake == worker # "take" /\ recorded # Nothing => gatePending \/ triggering

WInv == WatchTypes /\ Stages /\ ConfigOnItsWay /\ OnItsWay /\ Awake
-----------------------------------------------------------------------------
(***************************************************************************)
(* The coordinator's part of every step.                                   *)
(***************************************************************************)
LEMMA StepIsDrainStep == [WatchNext]_watchVars => [Next]_vars
<1>. SUFFICES ASSUME [WatchNext]_watchVars PROVE [Next]_vars
  OBVIOUS
<1>1. ASSUME NEW p \in Projects, ChangeSource(p) \/ ChangeTsconfig(p) \/ ChangeRojo(p) PROVE Next
  BY <1>1 DEF ChangeSource, ChangeTsconfig, ChangeRojo, Next, Edit
<1>2. ASSUME NEW p \in Projects, InvalidateTaken(p) PROVE Next
  <2>1. {p} \in SUBSET Projects /\ Invalidate({p})
    BY <1>2 DEF InvalidateTaken
  <2>. QED BY <2>1 DEF Next
<1>3. CASE ReloadSucceeds
  BY <1>3 DEF ReloadSucceeds, Next
<1>4. CASE DrainStep \/ DrainReturns
  BY <1>4 DEF DrainStep, DrainReturns, Next, Drain, Finish
<1>5. ASSUME NEW c \in undelivered, Callback(c) PROVE UNCHANGED vars
  BY <1>5 DEF Callback
<1>6. Trigger \/ Stop \/ Close \/ Serve \/ TakeEvents \/ ReloadFails \/ StartDrain \/ Leave \/ Over
        => UNCHANGED vars
  BY DEF Trigger, Stop, Close, Serve, TakeEvents, ReloadFails, StartDrain, Leave, Over, watchVars
<1>7. UNCHANGED watchVars => UNCHANGED vars
  BY DEF watchVars
<1>. QED BY <1>1, <1>2, <1>3, <1>4, <1>5, <1>6, <1>7 DEF WatchNext, Cycle

\* The watch loop is one of the owners SolutionDrain allows: every theorem about
\* the coordinator holds of the watched coordinator.
THEOREM OwnsCoordinator == WatchSpec => Spec
<1>1. WatchInit => Init
  BY DEF WatchInit
<1>. QED BY <1>1, StepIsDrainStep, PTL DEF WatchSpec, Spec

LEMMA Coordinator == WatchSpec => []IInv
BY OwnsCoordinator, Invariance, PTL
-----------------------------------------------------------------------------
(***************************************************************************)
(* The watch loop's own invariant.                                         *)
(***************************************************************************)
LEMMA NothingTyped == Nothing \in [projects : SUBSET Projects, configs : SUBSET ConfigChanges]
                      /\ Nothing.projects = {} /\ Nothing.configs = {}
BY DEF Nothing

LEMMA WatchInitInv == WatchInit => WInv
<1>. SUFFICES ASSUME WatchInit PROVE WInv
  OBVIOUS
<1>1. WatchTypes
  BY NothingTyped DEF WatchInit, WatchTypes
<1>2. Stages
  BY DEF WatchInit, Stages
<1>3. ConfigOnItsWay /\ OnItsWay
  BY DEF WatchInit, Init, ConfigOnItsWay, OnItsWay
<1>4. Awake
  BY DEF WatchInit, Awake
<1>. QED BY <1>1, <1>2, <1>3, <1>4 DEF WInv

LEMMA ChangeTyped ==
  ASSUME NEW p \in Projects, NEW kind \in {"source", "tsconfig", "rojo"}
  PROVE  [kind |-> kind, project |-> p] \in Changes
BY DEF Changes

LEMMA RecordedTyped ==
  ASSUME WatchTypes, NEW c \in undelivered
  PROVE  /\ Recorded(c) \in [projects : SUBSET Projects, configs : SUBSET ConfigChanges]
         /\ recorded.projects \subseteq Recorded(c).projects
         /\ recorded.configs \subseteq Recorded(c).configs
         /\ c.kind = "source" => c.project \in Recorded(c).projects
         /\ c.kind # "source" => c \in Recorded(c).configs
<1>1. c \in Changes /\ c.project \in Projects /\ (c.kind # "source" => c \in ConfigChanges)
  BY DEF WatchTypes, Changes, ConfigChanges
<1>2. recorded = [projects |-> recorded.projects, configs |-> recorded.configs]
      /\ recorded.projects \in SUBSET Projects /\ recorded.configs \in SUBSET ConfigChanges
  BY DEF WatchTypes
<1>3. CASE c.kind = "source"
  <2>1. Recorded(c) = [projects |-> recorded.projects \cup {c.project}, configs |-> recorded.configs]
    BY <1>2, <1>3 DEF Recorded
  <2>. QED BY <1>1, <1>2, <1>3, <2>1
<1>4. CASE c.kind # "source"
  <2>1. Recorded(c) = [projects |-> recorded.projects, configs |-> recorded.configs \cup {c}]
    BY <1>2, <1>4 DEF Recorded
  <2>. QED BY <1>1, <1>2, <1>4, <2>1
<1>. QED BY <1>3, <1>4

LEMMA TouchedTyped ==
  ASSUME WatchTypes
  PROVE  /\ Touched \subseteq Projects /\ Reconfigured("rojo") \subseteq Projects
         /\ ToInvalidate \subseteq Projects /\ Touched \subseteq ToInvalidate
         /\ \A c \in taken.configs : c.project \in Touched \cup Reconfigured("rojo")
BY DEF WatchTypes, Touched, Reconfigured, ToInvalidate, Changes, ConfigChanges

LEMMA TakenWithout ==
  ASSUME WatchTypes, NEW p \in Projects, taken' = [taken EXCEPT !.projects = @ \ {p}]
  PROVE  /\ taken' \in [projects : SUBSET Projects, configs : SUBSET ConfigChanges]
         /\ taken'.projects = taken.projects \ {p} /\ taken'.configs = taken.configs
BY DEF WatchTypes

LEMMA WatchTypesNext == WInv /\ [WatchNext]_watchVars => WatchTypes'
<1>. SUFFICES ASSUME WInv, [WatchNext]_watchVars PROVE WatchTypes'
  OBVIOUS
<1>. WatchTypes
  BY DEF WInv
<1>1. ASSUME NEW p \in Projects, ChangeSource(p) \/ ChangeTsconfig(p) \/ ChangeRojo(p) PROVE WatchTypes'
  BY <1>1, ChangeTyped DEF ChangeSource, ChangeTsconfig, ChangeRojo, Notice, WatchTypes
<1>2. ASSUME NEW c \in undelivered, Callback(c) PROVE WatchTypes'
  BY <1>2, RecordedTyped DEF Callback, WatchTypes
<1>3. CASE Trigger \/ Stop \/ Close \/ Serve \/ Leave
  BY <1>3 DEF Trigger, Stop, Close, Serve, Leave, WatchTypes
<1>4. CASE TakeEvents
  BY <1>4, NothingTyped DEF TakeEvents, WatchTypes
<1>5. CASE ReloadFails
  BY <1>5, NothingTyped, TouchedTyped DEF ReloadFails, WatchTypes
<1>6. CASE ReloadSucceeds
  <2>1. taken' \in [projects : SUBSET Projects, configs : SUBSET ConfigChanges]
    BY <1>6, TouchedTyped DEF ReloadSucceeds
  <2>. QED BY <1>6, <2>1, TouchedTyped DEF ReloadSucceeds, WatchTypes
<1>7. ASSUME NEW p \in Projects, InvalidateTaken(p) PROVE WatchTypes'
  BY <1>7, TakenWithout DEF InvalidateTaken, WatchTypes
<1>8. CASE StartDrain
  BY <1>8 DEF StartDrain, WatchTypes
<1>9. CASE DrainStep
  BY <1>9 DEF DrainStep, WatchTypes
<1>10. CASE DrainReturns
  BY <1>10 DEF DrainReturns, GatePendingKept, WatchTypes
<1>11. CASE UNCHANGED watchVars
  BY <1>11 DEF watchVars, WatchTypes
<1>. QED BY <1>1, <1>2, <1>3, <1>4, <1>5, <1>6, <1>7, <1>8, <1>9, <1>10, <1>11
         DEF WatchNext, Cycle, Over

LEMMA StagesNext == WInv /\ [WatchNext]_watchVars => Stages'
<1>. SUFFICES ASSUME WInv, [WatchNext]_watchVars PROVE Stages'
  OBVIOUS
<1>. WatchTypes /\ Stages
  BY DEF WInv
<1>1. CASE UNCHANGED <<worker, taken>>
  BY <1>1 DEF Stages
<1>2. ASSUME NEW p \in Projects, ChangeSource(p) \/ ChangeTsconfig(p) \/ ChangeRojo(p)
      PROVE  UNCHANGED <<worker, taken>>
  BY <1>2 DEF ChangeSource, ChangeTsconfig, ChangeRojo, Notice
<1>3. ASSUME NEW c \in undelivered, Callback(c) PROVE UNCHANGED <<worker, taken>>
  BY <1>3 DEF Callback
<1>4. Trigger \/ Stop \/ Close \/ DrainStep => UNCHANGED <<worker, taken>>
  BY DEF Trigger, Stop, Close, DrainStep
<1>5. CASE Serve \/ Leave \/ DrainReturns
  BY <1>5 DEF Serve, Leave, DrainReturns, Stages
<1>6. CASE TakeEvents
  BY <1>6, NothingTyped DEF TakeEvents, Stages
<1>7. CASE ReloadFails
  BY <1>7 DEF ReloadFails, Stages
<1>8. CASE ReloadSucceeds
  BY <1>8 DEF ReloadSucceeds, Stages
<1>9. ASSUME NEW p \in Projects, InvalidateTaken(p) PROVE Stages'
  BY <1>9, TakenWithout DEF InvalidateTaken, Stages
<1>10. CASE StartDrain
  <2>1. taken = Nothing
    BY <1>10 DEF StartDrain, Stages, WatchTypes, Nothing
  <2>. QED BY <1>10, <2>1 DEF StartDrain, Stages
<1>11. UNCHANGED watchVars => UNCHANGED <<worker, taken>>
  BY DEF watchVars
<1>. QED BY <1>1, <1>2, <1>3, <1>4, <1>5, <1>6, <1>7, <1>8, <1>9, <1>10, <1>11
         DEF WatchNext, Cycle, Over

LEMMA AwakeNext == WInv /\ [WatchNext]_watchVars => Awake'
<1>. SUFFICES ASSUME WInv, [WatchNext]_watchVars PROVE Awake'
  OBVIOUS
<1>. WatchTypes /\ Awake
  BY DEF WInv
<1>1. ASSUME NEW p \in Projects, ChangeSource(p) \/ ChangeTsconfig(p) \/ ChangeRojo(p) PROVE Awake'
  BY <1>1 DEF ChangeSource, ChangeTsconfig, ChangeRojo, Notice, Awake
<1>2. ASSUME NEW c \in undelivered, Callback(c) PROVE Awake'
  BY <1>2 DEF Callback, Awake
<1>3. CASE Trigger \/ Stop \/ Close \/ Leave
  BY <1>3 DEF Trigger, Stop, Close, Leave, Awake
<1>4. CASE Serve \/ TakeEvents
  BY <1>4 DEF Serve, TakeEvents, Awake
<1>5. CASE ReloadFails \/ ReloadSucceeds \/ StartDrain
  BY <1>5 DEF ReloadFails, ReloadSucceeds, StartDrain, Awake
<1>6. ASSUME NEW p \in Projects, InvalidateTaken(p) PROVE Awake'
  BY <1>6 DEF InvalidateTaken, Awake
<1>7. CASE DrainStep \/ DrainReturns
  BY <1>7 DEF DrainStep, DrainReturns, GatePendingKept, Awake
<1>8. CASE UNCHANGED watchVars
  BY <1>8 DEF watchVars, Awake
<1>. QED BY <1>1, <1>2, <1>3, <1>4, <1>5, <1>6, <1>7, <1>8 DEF WatchNext, Cycle, Over
-----------------------------------------------------------------------------
(***************************************************************************)
(* No change is lost on its way.                                           *)
(***************************************************************************)
\* What was on its way still is, or a cycle forgot it, or it is invalidated now.
Carried(P) ==
  /\ Coming \subseteq Coming' \cup lost' \cup P
  /\ ConfigsComing \subseteq ConfigsComing' \cup lost'
  /\ lost \subseteq lost' \cup P

LEMMA CarriedOn ==
  ASSUME IInv, WatchTypes, ConfigOnItsWay, OnItsWay, Carried({}), stopped' \/ ~stopped,
         UNCHANGED reports
  PROVE  ConfigOnItsWay' /\ OnItsWay'
BY DEF ConfigOnItsWay, OnItsWay, Carried, reports

LEMMA MovesCarry ==
  ASSUME WatchTypes, Stages, [WatchNext]_watchVars, ~stopped'
  PROVE  \/ Carried({}) /\ UNCHANGED reports
         \/ \E p \in Projects : ChangeSource(p) \/ ChangeTsconfig(p) \/ ChangeRojo(p)
         \/ \E p \in Projects : InvalidateTaken(p)
         \/ ReloadSucceeds
<1>. USE DEF vars, reports
<1>1. CASE UNCHANGED <<undelivered, recorded, taken, lost, edited, reconfigured>>
  BY <1>1 DEF Carried, Coming, ConfigsComing
<1>2. ASSUME NEW c \in undelivered, Callback(c) PROVE Carried({}) /\ UNCHANGED reports
  <2>1. /\ undelivered' = undelivered \ {c} /\ recorded' = Recorded(c)
        /\ UNCHANGED <<taken, lost, edited, reconfigured>>
    BY <1>2 DEF Callback
  <2>2. c.project \in Coming' /\ (c.kind # "source" => c.project \in ConfigsComing')
    BY <2>1, RecordedTyped DEF Coming, ConfigsComing
  <2>3. Coming \subseteq Coming'
    BY <2>1, <2>2, RecordedTyped DEF Coming
  <2>4. ConfigsComing \subseteq ConfigsComing'
    BY <2>1, <2>2, RecordedTyped DEF ConfigsComing
  <2>. QED BY <2>1, <2>3, <2>4 DEF Carried
<1>3. Trigger \/ Stop \/ Close \/ Serve \/ Leave \/ StartDrain
        => UNCHANGED <<undelivered, recorded, taken, lost, edited, reconfigured>>
  BY DEF Trigger, Stop, Close, Serve, Leave, StartDrain
<1>4. CASE TakeEvents
  <2>1. /\ taken = Nothing /\ taken' = recorded
        /\ UNCHANGED <<undelivered, lost, edited, reconfigured>>
    BY <1>4 DEF TakeEvents, Stages
  <2>2. Coming \subseteq Coming' /\ ConfigsComing \subseteq ConfigsComing'
    BY <2>1, NothingTyped DEF Coming, ConfigsComing
  <2>. QED BY <2>1, <2>2 DEF Carried
<1>5. CASE ReloadFails
  <2>1. /\ lost' = lost \cup Touched \cup Reconfigured("rojo")
        /\ UNCHANGED <<undelivered, recorded, edited, reconfigured>>
    BY <1>5 DEF ReloadFails
  <2>2. taken.projects \subseteq lost' /\ \A c \in taken.configs : c.project \in lost'
    BY <2>1, TouchedTyped DEF Touched
  <2>. QED BY <2>1, <2>2 DEF Carried, Coming, ConfigsComing
<1>6. DrainStep => UNCHANGED <<undelivered, recorded, taken, lost, edited, reconfigured>>
  BY DEF DrainStep, RefreshSucceeds, StartMerge, MergeNext, StartSave, SaveStep,
         Task, BlockTask, SkipTask, BuildTask, EndTask
<1>7. DrainReturns => UNCHANGED <<undelivered, recorded, taken, lost, edited, reconfigured>>
  BY DEF DrainReturns, RefreshFails, DrainFails, SaveFails, DrainSucceeds
<1>8. UNCHANGED watchVars => UNCHANGED <<undelivered, recorded, taken, lost, edited, reconfigured>>
  BY DEF watchVars
<1>. QED BY <1>1, <1>2, <1>3, <1>4, <1>5, <1>6, <1>7, <1>8 DEF WatchNext, Cycle, Over

LEMMA OnItsWayNext == IInv /\ WInv /\ [WatchNext]_watchVars => ConfigOnItsWay' /\ OnItsWay'
<1>. SUFFICES ASSUME IInv, WInv, [WatchNext]_watchVars PROVE ConfigOnItsWay' /\ OnItsWay'
  OBVIOUS
<1>. WatchTypes /\ Stages /\ ConfigOnItsWay /\ OnItsWay /\ TypeOK
  BY DEF WInv, IInv
<1>. SUFFICES ASSUME ~stopped' PROVE ConfigOnItsWay' /\ OnItsWay'
  BY DEF ConfigOnItsWay, OnItsWay
<1>0. ~stopped
  BY DEF WatchTypes, WatchNext, ChangeSource, ChangeTsconfig, ChangeRojo, Notice, Callback, Trigger,
         Stop, Close, Cycle, Serve, TakeEvents, ReloadFails, ReloadSucceeds, InvalidateTaken,
         StartDrain, DrainStep, DrainReturns, Leave, Over, watchVars
<1>1. CASE Carried({}) /\ UNCHANGED reports
  BY <1>0, <1>1, CarriedOn
<1>2. ASSUME NEW p \in Projects, ChangeSource(p) \/ ChangeTsconfig(p) \/ ChangeRojo(p)
      PROVE  ConfigOnItsWay' /\ OnItsWay'
  <2>1. UNCHANGED <<recorded, taken, lost>> /\ undelivered \subseteq undelivered'
    BY <1>2 DEF ChangeSource, ChangeTsconfig, ChangeRojo, Notice
  <2>2. Coming \subseteq Coming' /\ ConfigsComing \subseteq ConfigsComing'
    BY <2>1 DEF Coming, ConfigsComing
  <2>3. p \in Coming'
    <3>1. \E kind \in {"source", "tsconfig", "rojo"} : [kind |-> kind, project |-> p] \in undelivered'
      BY <1>2 DEF ChangeSource, ChangeTsconfig, ChangeRojo, Notice
    <3>. QED BY <3>1 DEF Coming
  <2>4. reconfigured' # reconfigured => p \in ConfigsComing'
    <3>1. SUFFICES ASSUME ChangeTsconfig(p) \/ ChangeRojo(p) PROVE p \in ConfigsComing'
      BY <1>2 DEF ChangeSource, EditSource
    <3>2. \E kind \in {"tsconfig", "rojo"} : [kind |-> kind, project |-> p] \in undelivered'
      BY <3>1 DEF ChangeTsconfig, ChangeRojo, Notice
    <3>. QED BY <3>2 DEF ConfigsComing
  <2>5. \A q \in Projects \ {p} : reconfigured'[q] = reconfigured[q] /\ (q \in edited' => q \in edited)
    BY <1>2 DEF ChangeSource, ChangeTsconfig, ChangeRojo, EditSource, EditConfig, TypeOK
  <2>. QED BY <1>0, <2>1, <2>2, <2>3, <2>4, <2>5 DEF ConfigOnItsWay, OnItsWay
<1>3. ASSUME NEW p \in Projects, InvalidateTaken(p) PROVE ConfigOnItsWay' /\ OnItsWay'
  <2>. DEFINE D == DependantsOf({p})
  <2>1. p \in D /\ D \subseteq Projects
    BY DependantsClosed
  <2>2. /\ edited' = edited \ D
        /\ reconfigured' = [q \in Projects |-> IF q \in D /\ reconfigured[q] = "reloaded" THEN "no" ELSE reconfigured[q]]
        /\ lost' = {q \in lost : q \notin D \/ reconfigured[q] = "edited"}
        /\ UNCHANGED <<undelivered, recorded>>
    BY <1>3 DEF InvalidateTaken, Invalidate, MarkOutOfDate, reports
  <2>3. taken'.projects = taken.projects \ {p} /\ taken'.configs = taken.configs
    BY <1>3, TakenWithout DEF InvalidateTaken
  <2>4. Coming \subseteq Coming' \cup {p} /\ ConfigsComing \subseteq Coming' /\ ConfigsComing' = ConfigsComing
    BY <2>2, <2>3 DEF Coming, ConfigsComing
  <2>5. \A q \in Projects : reconfigured'[q] = "edited" => reconfigured[q] = "edited" /\ (q \in lost => q \in lost')
    BY <2>2 DEF TypeOK
  <2>6. ConfigOnItsWay'
    BY <1>0, <2>4, <2>5 DEF ConfigOnItsWay
  <2>7. ASSUME NEW q \in Projects, q \in edited' \/ reconfigured'[q] # "no" PROVE q \in Coming' \cup lost'
    <3>1. CASE reconfigured'[q] = "edited"
      BY <1>0, <2>4, <2>6, <3>1, <2>5 DEF ConfigOnItsWay
    <3>2. CASE reconfigured'[q] # "edited"
      <4>1. q \notin D
        BY <2>2, <2>7, <3>2 DEF TypeOK
      <4>2. q \in Coming \cup lost
        BY <1>0, <2>2, <2>7, <4>1 DEF OnItsWay
      <4>. QED BY <2>1, <2>2, <2>4, <4>1, <4>2
    <3>. QED BY <3>1, <3>2
  <2>. QED BY <2>6, <2>7 DEF OnItsWay
<1>4. CASE ReloadSucceeds
  <2>1. /\ taken' = [projects |-> ToInvalidate, configs |-> {}]
        /\ lost' = lost \cup (Reconfigured("rojo") \ ToInvalidate)
        /\ edited' = edited
        /\ reconfigured' = [q \in Projects |-> IF reconfigured[q] = "edited" THEN "reloaded" ELSE reconfigured[q]]
        /\ UNCHANGED <<undelivered, recorded>>
    BY <1>4 DEF ReloadSucceeds, Reload
  <2>2. taken.projects \subseteq ToInvalidate
        /\ \A c \in taken.configs : c.project \in ToInvalidate \cup Reconfigured("rojo")
    BY TouchedTyped DEF Touched
  <2>3. Coming \subseteq Coming' \cup lost'
    BY <2>1, <2>2 DEF Coming
  <2>4. \A q \in Projects : reconfigured'[q] # "edited" /\ (reconfigured'[q] # "no" => reconfigured[q] # "no")
    BY <2>1 DEF TypeOK
  <2>. QED BY <1>0, <2>1, <2>3, <2>4 DEF ConfigOnItsWay, OnItsWay
<1>. QED BY <1>1, <1>2, <1>3, <1>4, MovesCarry

LEMMA WatchInvariance == WatchSpec => []WInv
<1>1. IInv /\ WInv /\ [WatchNext]_watchVars => WInv'
  BY WatchTypesNext, StagesNext, AwakeNext, OnItsWayNext DEF WInv
<1>. QED BY <1>1, WatchInitInv, Coordinator, PTL DEF WatchSpec
-----------------------------------------------------------------------------
\* Every variable of the watch loop keeps its type.
THEOREM WatchTypeCorrect == WatchSpec => []WatchTypeOK
<1>. IInv /\ WInv => WatchTypeOK
  BY DEF IInv, WInv, WatchTypes, WatchTypeOK
<1>. QED BY Coordinator, WatchInvariance, PTL

\* No change is lost between its edit and its invalidation but where the code
\* drops it, for every number of projects and every interleaving.
THEOREM NothingLostOnItsWay == WatchSpec => []OnItsWay
<1>. WInv => OnItsWay
  BY DEF WInv
<1>. QED BY WatchInvariance, PTL

\* The gate never lets the worker wait over events.
THEOREM NeverAsleep == WatchSpec => []NoSleepingEvents
<1>. WInv => NoSleepingEvents
  BY DEF WInv, Awake, NoSleepingEvents
<1>. QED BY WatchInvariance, PTL

\* A quiet session in which no cycle forgot a change is fresh: the coordinator's
\* freshness and the watch loop's delivery together.
THEOREM QuietSessionFresh == WatchSpec => []QuietMeansFresh
<1>1. IInv => Fresh
  BY DEF IInv, FreshNow, Fresh
<1>2. IInv => TypeOK
  BY DEF IInv
<1>3. TypeOK /\ Fresh /\ WInv => QuietMeansFresh
  <2>. SUFFICES ASSUME TypeOK, Fresh, WInv, Quiet, lost = {}, NEW p \in upToDate \cap behind PROVE FALSE
    BY DEF QuietMeansFresh
  <2>1. p \in Projects /\ (p \in edited \/ reconfigured[p] # "no")
    BY DEF TypeOK, Fresh
  <2>2. p \in Coming
    BY <2>1 DEF WInv, OnItsWay, Quiet
  <2>3. undelivered = {} /\ recorded = Nothing /\ taken = Nothing
    BY DEF Quiet, WInv, Awake, Stages
  <2>. QED BY <2>2, <2>3, NothingTyped DEF Coming
<1>. QED BY <1>1, <1>2, <1>3, Coordinator, WatchInvariance, PTL
=============================================================================
