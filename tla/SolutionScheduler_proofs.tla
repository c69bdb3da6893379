----------------------- MODULE SolutionScheduler_proofs -----------------------
(***************************************************************************)
(* The scheduler's safety for every task graph and every pool: the type    *)
(* invariant, that barriers are closed before a build starts, that         *)
(* overlapping write roots exclude each other, that no wakeup is lost,     *)
(* what the caller's result means, and the refinement of OrderedTasks.     *)
(***************************************************************************)
EXTENDS SolutionScheduler, FiniteSetTheorems, TLAPS

\* The counters count what is not finished.
Counted ==
  /\ \A t \in Tasks : remainingBarriers[t] = Cardinality(Barriers[t] \ finished)
  /\ remaining = Cardinality(Tasks \ finished)

\* A worker holds a task exactly while it builds or records it, or panicked on it.
Holding ==
  \A w \in Workers :
    /\ pc[w] \in {"run", "record", "abort", "notifyAbort"} => holding[w] # NoTask
    /\ pc[w] \in {"idle", "blocked", "notify"} => holding[w] = NoTask

\* Nothing is ready, held or finished before its barriers are closed, and a task
\* is in one of these places, held by one worker.
Placed ==
  /\ \A t \in ready \cup finished : Barriers[t] \subseteq finished
  /\ ready \cap finished = {}
  /\ \A w \in Workers : holding[w] # NoTask =>
       /\ holding[w] \notin ready \cup finished
       /\ Barriers[holding[w]] \subseteq finished
       /\ \A v \in Workers : holding[v] = holding[w] => v = w

\* What the end of the schedule rests on: who exited, and why.
Ends ==
  /\ pool # {}
  /\ \A w \in Workers : pc[w] = "exited" => remaining = 0 \/ aborted
  /\ aborted => panicked
  /\ \A w \in Workers : pc[w] \in {"abort", "notifyAbort"} => panicked
  /\ \A w \in Workers : pc[w] = "notifyAbort" => aborted
  /\ panicked => \E w \in Workers :
       holding[w] # NoTask /\ pc[w] \in {"abort", "notifyAbort", "exited"}

IInv == /\ TypeOK
        /\ Counted
        /\ Holding
        /\ Placed
        /\ Ends
        /\ NoLostWakeup
        /\ ReturnMeansAllRan

-----------------------------------------------------------------------------
\* The task sets are finite and every barrier is an earlier task.
LEMMA Finite ==
  /\ IsFiniteSet(Tasks)
  /\ Cardinality(Tasks) = N
  /\ Barriers \in [Tasks -> SUBSET Tasks]
  /\ \A t \in Tasks : IsFiniteSet(Barriers[t])
  /\ \A t \in Tasks : t \notin Barriers[t]
<1>1. IsFiniteSet(Tasks) /\ Cardinality(Tasks) = N
  BY FS_Interval, GraphAssumption DEF Tasks
<1>2. Barriers \in [Tasks -> SUBSET Tasks]
  BY GraphAssumption DEF Barriers, WaitOnly
<1>3. \A t \in Tasks : IsFiniteSet(Barriers[t])
  BY <1>1, <1>2, FS_Subset
<1>4. \A t \in Tasks : t \notin Barriers[t]
  BY GraphAssumption DEF Barriers, WaitOnly, Tasks
<1> QED
  BY <1>1, <1>2, <1>3, <1>4

\* Closing the barrier of one finished task lowers a count by one.
LEMMA CloseOne ==
  ASSUME NEW S, IsFiniteSet(S), NEW F, NEW x, x \notin F
  PROVE  /\ Cardinality(S \ F) \in Nat
         /\ x \in S => Cardinality(S \ F) > 0
         /\ x \in S => Cardinality(S \ (F \cup {x})) = Cardinality(S \ F) - 1
         /\ x \notin S => Cardinality(S \ (F \cup {x})) = Cardinality(S \ F)
         /\ x \in S /\ Cardinality(S \ F) = 1 => S \subseteq F \cup {x}
<1> DEFINE R == S \ F
<1>1. IsFiniteSet(R) /\ IsFiniteSet(R \ {x}) /\ Cardinality(R) \in Nat /\ Cardinality(R \ {x}) \in Nat
  BY FS_Subset, FS_CardinalityType
<1>2. S \ (F \cup {x}) = R \ {x}
  OBVIOUS
<1>3. x \in R => Cardinality(R \ {x}) = Cardinality(R) - 1
  BY <1>1, FS_RemoveElement
<1>4. x \notin S => R \ {x} = R
  OBVIOUS
<1>5. Cardinality(R \ {x}) = 0 => R \ {x} = {}
  BY <1>1, FS_EmptySet
<1>6. x \in S => Cardinality(R) > 0
  BY <1>1, <1>3
<1>7. ASSUME x \in S, Cardinality(R) = 1 PROVE S \subseteq F \cup {x}
  <2>1. R \ {x} = {}
    BY <1>1, <1>3, <1>5, <1>7
  <2> QED
    BY <2>1
<1> QED
  BY <1>1, <1>2, <1>3, <1>4, <1>6, <1>7

\* With no barrier left nothing is unfinished.
LEMMA NothingLeft ==
  ASSUME NEW S, IsFiniteSet(S), NEW F
  PROVE  Cardinality(S \ F) = 0 => S \subseteq F
<1>1. IsFiniteSet(S \ F)
  BY FS_Subset
<1> QED
  BY <1>1, FS_EmptySet

-----------------------------------------------------------------------------
\* The initial state satisfies the inductive invariant.
LEMMA InitIInv == Init => IInv
<1> SUFFICES ASSUME Init PROVE IInv
  OBVIOUS
<1> USE Finite, GraphAssumption, WorkersAssumption
<1>1. \A t \in Tasks : Barriers[t] \ {} = Barriers[t] /\ Cardinality(Barriers[t]) \in Nat
  BY FS_CardinalityType
<1>2. TypeOK
  BY <1>1 DEF Init, TypeOK, Stages
<1>3. Counted
  <2>1. Tasks \ {} = Tasks
    OBVIOUS
  <2> QED
    BY <1>1, <2>1 DEF Init, Counted
<1>4. Holding /\ Placed /\ Ends
  BY DEF Init, Holding, Placed, Ends
<1>5. NoLostWakeup /\ ReturnMeansAllRan
  BY DEF Init, NoLostWakeup, ReturnMeansAllRan
<1> QED
  BY <1>2, <1>3, <1>4, <1>5 DEF IInv

\* A worker that takes a task keeps the invariant.
LEMMA TakeIInv ==
  ASSUME IInv, NEW w \in Workers, Take(w)
  PROVE  IInv'
<1> USE DEF IInv
<1>1. PICK t \in ready : /\ holding' = [holding EXCEPT ![w] = t]
                         /\ ready' = ready \ {t}
  BY DEF Take
<1>2. t \in Tasks /\ t # NoTask
  BY WorkersAssumption DEF TypeOK
<1>3. TypeOK'
  BY <1>1, <1>2 DEF Take, TypeOK, Stages
<1>4. Counted'
  BY DEF Take, Counted
<1>5. Holding'
  BY <1>1, <1>2 DEF Take, TypeOK, Holding
<1>6. Placed'
  <2>1. holding[w] = NoTask
    BY DEF Take, Holding
  <2>2. \A v \in Workers : holding[v] # t
    BY <1>1, <1>2 DEF Placed
  <2> QED
    BY <1>1, <1>2, <2>1, <2>2 DEF Take, TypeOK, Placed
<1>7. Ends'
  BY <1>1, <1>2 DEF Take, MayTake, TypeOK, Ends
<1>8. NoLostWakeup'
  BY <1>1 DEF Take, TypeOK, NoLostWakeup
<1>9. ReturnMeansAllRan'
  BY DEF Take, ReturnMeansAllRan
<1> QED
  BY <1>3, <1>4, <1>5, <1>6, <1>7, <1>8, <1>9

\* Recording a finished task keeps the invariant: this is where barriers close.
LEMMA RecordIInv ==
  ASSUME IInv, NEW w \in Workers, w \in pool, Record(w)
  PROVE  IInv'
<1> USE DEF IInv
<1> DEFINE t == holding[w]
<1>1. t \in Tasks /\ t # NoTask /\ t \notin finished /\ t \notin ready /\ Barriers[t] \subseteq finished
  BY DEF Record, Holding, Placed, TypeOK
<1>2. /\ pc' = [pc EXCEPT ![w] = "notify"]
      /\ holding' = [holding EXCEPT ![w] = NoTask]
      /\ finished' = finished \cup {t}
      /\ remaining' = remaining - 1
      /\ ready' = ready \cup Released(t)
      /\ UNCHANGED <<aborted, panicked, pool, caller>>
  BY DEF Record
<1>3. \A s \in Tasks :
        remainingBarriers'[s] = IF t \in Barriers[s] THEN remainingBarriers[s] - 1
                                                      ELSE remainingBarriers[s]
  BY DEF Record, Successors
<1>4. \A s \in Tasks : remainingBarriers'[s] = Cardinality(Barriers[s] \ (finished \cup {t}))
  <2> TAKE s \in Tasks
  <2>1. IsFiniteSet(Barriers[s])
    BY Finite
  <2>2. remainingBarriers[s] = Cardinality(Barriers[s] \ finished)
    BY DEF Counted
  <2> HIDE DEF t
  <2> QED
    BY <1>1, <1>3, <2>1, <2>2, CloseOne
<1>5. remaining' = Cardinality(Tasks \ (finished \cup {t}))
  <2>1. remaining = Cardinality(Tasks \ finished)
    BY DEF Counted
  <2> HIDE DEF t
  <2> QED
    BY <1>1, <1>2, <2>1, Finite, CloseOne
<1>6. Counted'
  BY <1>2, <1>4, <1>5 DEF Counted
<1>7. TypeOK'
  <2>1. IsFiniteSet(Tasks) /\ \A s \in Tasks : IsFiniteSet(Barriers[s])
    BY Finite
  <2>2. remaining' \in Nat
    BY <1>5, <2>1, FS_Subset, FS_CardinalityType
  <2>3. \A s \in Tasks : remainingBarriers'[s] \in Nat
    <3> TAKE s \in Tasks
    <3>1. IsFiniteSet(Barriers[s] \ (finished \cup {t}))
      BY <2>1, FS_Subset
    <3> QED
      BY <1>4, <3>1, FS_CardinalityType
  <2>4. remainingBarriers' \in [Tasks -> Nat]
    BY <2>3 DEF Record
  <2>5. ready' \subseteq Tasks
    BY <1>2 DEF TypeOK, Released, Successors
  <2> QED
    BY <1>1, <1>2, <2>2, <2>4, <2>5 DEF TypeOK, Stages
<1>8. \A s \in Released(t) : /\ s \in Tasks
                             /\ t \in Barriers[s]
                             /\ Barriers[s] \subseteq finished \cup {t}
                             /\ ~(Barriers[s] \subseteq finished)
  <2> SUFFICES ASSUME NEW s \in Released(t)
               PROVE  /\ s \in Tasks
                      /\ t \in Barriers[s]
                      /\ Barriers[s] \subseteq finished \cup {t}
                      /\ ~(Barriers[s] \subseteq finished)
    OBVIOUS
  <2>1. s \in Tasks /\ t \in Barriers[s] /\ remainingBarriers[s] = 1
    BY DEF Released, Successors
  <2>2. IsFiniteSet(Barriers[s]) /\ Cardinality(Barriers[s] \ finished) = 1
    BY <2>1, Finite DEF Counted
  <2> HIDE DEF t
  <2> QED
    BY <1>1, <2>1, <2>2, CloseOne
<1>9. Holding'
  BY <1>2 DEF Record, TypeOK, Holding
<1>10. Placed'
  <2>1. \A s \in ready' \cup finished' : Barriers[s] \subseteq finished'
    BY <1>1, <1>2, <1>8 DEF Placed
  <2>2. ready' \cap finished' = {}
    BY <1>1, <1>2, <1>8, Finite DEF Placed
  <2>3. ASSUME NEW v \in Workers, holding'[v] # NoTask
        PROVE  /\ v # w /\ holding'[v] = holding[v] /\ holding[v] # t
               /\ holding'[v] \notin ready' \cup finished'
               /\ Barriers[holding'[v]] \subseteq finished'
    <3>1. v # w /\ holding'[v] = holding[v]
      BY <1>2, <2>3 DEF TypeOK
    <3>2. holding[v] # t
      BY <1>1, <2>3, <3>1 DEF Placed
    <3>3. holding[v] \notin ready \cup finished /\ Barriers[holding[v]] \subseteq finished
      BY <2>3, <3>1 DEF Placed
    <3>4. holding[v] \notin Released(t)
      BY <1>8, <3>3
    <3> QED
      BY <1>2, <3>1, <3>2, <3>3, <3>4
  <2>4. \A v, u \in Workers : holding'[v] # NoTask /\ holding'[u] = holding'[v] => u = v
    BY <2>3 DEF Placed
  <2> QED
    BY <2>1, <2>2, <2>3, <2>4 DEF Placed
<1>11. Ends'
  <2>1. remaining # 0
    BY <1>1, NothingLeft, Finite DEF Counted
  <2>2. \A v \in Workers : pc'[v] = "exited" => aborted
    BY <1>2, <2>1 DEF TypeOK, Ends
  <2>3. panicked => \E v \in Workers :
          holding'[v] # NoTask /\ pc'[v] \in {"abort", "notifyAbort", "exited"}
    <3>1. pc[w] = "record"
      BY DEF Record
    <3> QED
      BY <1>2, <3>1 DEF TypeOK, Ends
  <2> QED
    BY <1>2, <2>2, <2>3 DEF TypeOK, Ends
<1>12. NoLostWakeup'
  BY <1>2 DEF TypeOK, NoLostWakeup
<1>13. ReturnMeansAllRan'
  <2>1. caller = "returned" => FALSE
    BY <1>1 DEF ReturnMeansAllRan
  <2>2. caller = "raised" => panicked /\ finished' # Tasks
    <3>1. SUFFICES ASSUME panicked PROVE finished' # Tasks
      BY DEF ReturnMeansAllRan
    <3>2. PICK v \in Workers : holding[v] # NoTask /\ pc[v] \in {"abort", "notifyAbort", "exited"}
      BY <3>1 DEF Ends
    <3>3. v # w
      BY <3>2 DEF Record
    <3>4. holding[v] \in Tasks /\ holding[v] \notin finished'
      BY <1>1, <1>2, <3>2, <3>3 DEF Placed, TypeOK
    <3> QED
      BY <3>4
  <2> QED
    BY <1>2, <2>1, <2>2 DEF ReturnMeansAllRan
<1> QED
  BY <1>6, <1>7, <1>9, <1>10, <1>11, <1>12, <1>13

\* Every other step of a worker keeps the invariant.
LEMMA OtherStepsIInv ==
  ASSUME IInv, NEW w \in Workers, w \in pool,
         \/ Block(w) \/ Leave(w) \/ Return(w) \/ Panic(w)
         \/ Abort(w) \/ Notify(w) \/ Spurious(w)
  PROVE  IInv'
<1> USE DEF IInv
<1>1. CASE Block(w)
  <2> USE <1>1 DEF Block, state
  <2>1. TypeOK' /\ Counted' /\ Holding'
    BY DEF TypeOK, Stages, Counted, Holding
  <2>2. Placed' /\ Ends'
    BY DEF TypeOK, Placed, Ends
  <2>3. NoLostWakeup' /\ ReturnMeansAllRan'
    BY DEF TypeOK, NoLostWakeup, ReturnMeansAllRan
  <2> QED
    BY <2>1, <2>2, <2>3
<1>2. CASE Leave(w)
  <2> USE <1>2 DEF Leave, state
  <2>1. TypeOK' /\ Counted' /\ Holding'
    BY DEF TypeOK, Stages, Counted, Holding
  <2>2. Placed' /\ Ends'
    BY DEF TypeOK, Placed, Ends
  <2>3. NoLostWakeup' /\ ReturnMeansAllRan'
    BY DEF TypeOK, NoLostWakeup, ReturnMeansAllRan
  <2> QED
    BY <2>1, <2>2, <2>3
<1>3. CASE Return(w)
  <2> USE <1>3 DEF Return, state
  <2>1. TypeOK' /\ Counted' /\ Holding'
    BY DEF TypeOK, Stages, Counted, Holding
  <2>2. Placed' /\ Ends'
    BY DEF TypeOK, Placed, Ends
  <2>3. NoLostWakeup' /\ ReturnMeansAllRan'
    BY DEF TypeOK, NoLostWakeup, ReturnMeansAllRan
  <2> QED
    BY <2>1, <2>2, <2>3
<1>4. CASE Panic(w)
  <2> USE <1>4 DEF Panic, state
  <2>1. TypeOK' /\ Counted' /\ Holding'
    BY DEF TypeOK, Stages, Counted, Holding
  <2>2. holding[w] # NoTask /\ holding[w] \in Tasks /\ holding[w] \notin finished
    BY DEF TypeOK, Holding, Placed
  <2>3. Placed' /\ Ends'
    BY <2>2 DEF TypeOK, Placed, Ends
  <2>4. NoLostWakeup'
    BY DEF TypeOK, NoLostWakeup
  <2>5. ReturnMeansAllRan'
    BY <2>2 DEF TypeOK, ReturnMeansAllRan
  <2> QED
    BY <2>1, <2>3, <2>4, <2>5
<1>5. CASE Abort(w)
  <2> USE <1>5 DEF Abort
  <2>1. TypeOK' /\ Counted' /\ Holding'
    BY DEF TypeOK, Stages, Counted, Holding
  <2>2. Placed' /\ Ends'
    BY DEF TypeOK, Placed, Ends
  <2>3. NoLostWakeup' /\ ReturnMeansAllRan'
    BY DEF TypeOK, NoLostWakeup, ReturnMeansAllRan
  <2> QED
    BY <2>1, <2>2, <2>3
<1>6. CASE Notify(w)
  <2>1. PICK s \in {"idle", "exited"} :
          /\ pc' = [Woken EXCEPT ![w] = s]
          /\ s = "idle" => pc[w] = "notify"
          /\ s = "exited" => pc[w] = "notifyAbort"
    BY <1>6 DEF Notify
  <2>2. UNCHANGED <<ready, remainingBarriers, remaining, aborted, panicked, pool, holding, caller, finished>>
    BY <1>6 DEF Notify, state
  <2>3. \A v \in Workers : pc'[v] = IF v = w THEN s ELSE IF pc[v] = "blocked" THEN "idle" ELSE pc[v]
    BY <2>1 DEF Woken, Blocked
  <2>4. TypeOK'
    BY <2>1, <2>2 DEF TypeOK, Stages, Woken, Blocked
  <2>5. Counted' /\ Holding'
    BY <2>1, <2>2, <2>3 DEF Counted, Holding
  <2>6. Placed'
    BY <2>2 DEF Placed
  <2>7. Ends'
    <3>1. \A v \in Workers : pc'[v] = "exited" => remaining' = 0 \/ aborted'
      <4>1. pc[w] = "notifyAbort" => aborted
        BY DEF Ends
      <4> QED
        BY <2>1, <2>2, <2>3, <4>1 DEF Ends
    <3> QED
      BY <2>1, <2>2, <2>3, <3>1 DEF Ends
  <2>8. NoLostWakeup' /\ ReturnMeansAllRan'
    BY <2>1, <2>2, <2>3 DEF TypeOK, NoLostWakeup, ReturnMeansAllRan
  <2> QED
    BY <2>4, <2>5, <2>6, <2>7, <2>8
<1>7. CASE Spurious(w)
  <2> USE <1>7 DEF Spurious, state
  <2>1. TypeOK' /\ Counted' /\ Holding'
    BY DEF TypeOK, Stages, Counted, Holding
  <2>2. Placed' /\ Ends'
    BY DEF TypeOK, Placed, Ends
  <2>3. NoLostWakeup' /\ ReturnMeansAllRan'
    BY DEF TypeOK, NoLostWakeup, ReturnMeansAllRan
  <2> QED
    BY <2>1, <2>2, <2>3
<1> QED
  BY <1>1, <1>2, <1>3, <1>4, <1>5, <1>6, <1>7

\* The caller's join keeps the invariant: what it returns tells what ran.
LEMMA JoinIInv == ASSUME IInv, Join PROVE IInv'
<1> USE DEF IInv, state
<1>1. TypeOK' /\ Counted' /\ Holding' /\ Placed' /\ Ends' /\ NoLostWakeup'
  BY DEF Join, TypeOK, Counted, Holding, Placed, Ends, NoLostWakeup
<1>2. ReturnMeansAllRan'
  <2>1. PICK w \in pool : pc[w] = "exited"
    BY DEF Join, Ends
  <2>2. ~panicked => finished = Tasks
    <3>1. ~panicked => remaining = 0
      BY <2>1 DEF Ends, TypeOK
    <3> QED
      BY <3>1, NothingLeft, Finite DEF Counted, TypeOK
  <2>3. panicked => finished # Tasks
    BY DEF Ends, TypeOK, Placed
  <2> QED
    BY <2>2, <2>3 DEF Join, ReturnMeansAllRan
<1> QED
  BY <1>1, <1>2

\* IInv is inductive.
LEMMA NextIInv == IInv /\ [Next]_vars => IInv'
<1> SUFFICES ASSUME IInv, [Next]_vars PROVE IInv'
  OBVIOUS
<1>1. ASSUME NEW w \in pool, Step(w) \/ Spurious(w) PROVE IInv'
  <2>1. w \in Workers
    BY DEF IInv, TypeOK
  <2> QED
    BY <1>1, <2>1, TakeIInv, RecordIInv, OtherStepsIInv DEF Step
<1>2. CASE UNCHANGED vars
  BY <1>2 DEF vars, IInv, TypeOK, Counted, Holding, Placed, Ends, NoLostWakeup, ReturnMeansAllRan
<1> QED
  BY <1>1, <1>2, JoinIInv DEF Next, Ended

\* The strengthening holds in every reachable state, and implies what the runs
\* check of every state.
LEMMA Invariance == Spec => []IInv
  BY InitIInv, NextIInv, PTL DEF Spec

\* Two overlapping projects are never both past their barriers.
LEMMA OverlapsExclude == IInv => BarriersClosed /\ WriteRootsExclusive
<1> SUFFICES ASSUME IInv PROVE BarriersClosed /\ WriteRootsExclusive
  OBVIOUS
<1>1. \A t \in Running : t \in Tasks /\ Barriers[t] \subseteq finished /\ t \notin finished
  BY DEF Running, IInv, Holding, Placed, TypeOK
<1>2. WriteRootsExclusive
  <2> SUFFICES ASSUME NEW t \in Running, NEW u \in Running, t # u, {t, u} \in Overlaps
               PROVE  FALSE
    BY DEF WriteRootsExclusive
  <2>1. t < u => t \in Barriers[u]
    BY <1>1 DEF Barriers, WaitOnly
  <2>2. u < t => u \in Barriers[t]
    <3>1. {u, t} = {t, u}
      OBVIOUS
    <3> QED
      BY <1>1, <3>1 DEF Barriers, WaitOnly
  <2>3. t < u \/ u < t
    BY <1>1, GraphAssumption DEF Tasks
  <2> QED
    BY <1>1, <2>1, <2>2, <2>3
<1> QED
  BY <1>1, <1>2 DEF BarriersClosed

-----------------------------------------------------------------------------
\* Every variable keeps its type and neither unsigned counter underflows.
THEOREM TypeCorrect == Spec => []TypeOK
<1>1. IInv => TypeOK
  BY DEF IInv
<1> QED
  BY <1>1, Invariance, PTL

\* For every graph, overlap relation and pool: a build starts only after all its
\* barriers closed.
THEOREM DependenciesFirst == Spec => []BarriersClosed
  BY OverlapsExclude, Invariance, PTL

\* For every graph, overlap relation and pool: builds whose write roots overlap
\* never run at the same time.
THEOREM WritersExclusive == Spec => []WriteRootsExclusive
  BY OverlapsExclude, Invariance, PTL

\* For every graph and pool: no worker sleeps through work or through an abort.
THEOREM WakeupsKept == Spec => []NoLostWakeup
<1>1. IInv => NoLostWakeup
  BY DEF IInv
<1> QED
  BY <1>1, Invariance, PTL

\* For every graph and pool: a return means that every task ran and none
\* panicked, a raise that one did.
THEOREM ResultSound == Spec => []ReturnMeansAllRan
<1>1. IInv => ReturnMeansAllRan
  BY DEF IInv
<1> QED
  BY <1>1, Invariance, PTL

\* After an abort no worker without a task gets one, whatever the pool.
THEOREM AbortStops == Spec => NoStartAfterAbort
<1>1. IInv /\ [Next]_vars =>
        [aborted => \A w \in Workers : holding[w] = NoTask => holding'[w] = NoTask]_vars
  <2> SUFFICES ASSUME IInv, Next, aborted, NEW v \in Workers, holding[v] = NoTask
               PROVE  holding'[v] = NoTask
    OBVIOUS
  <2>1. ASSUME NEW w \in pool, Step(w) \/ Spurious(w) PROVE holding'[v] = NoTask
    <3>1. w \in Workers /\ holding \in [Workers -> Tasks \cup {NoTask}]
      BY DEF IInv, TypeOK
    <3>2. Take(w) => FALSE
      BY DEF Take, MayTake
    <3>3. Record(w) => holding'[v] = NoTask
      BY <3>1 DEF Record
    <3> QED
      BY <2>1, <3>2, <3>3 DEF Step, Block, Leave, Return, Panic, Abort, Notify, Spurious
  <2> QED
    BY <2>1 DEF Next, Join, Ended, vars
<1> QED
  BY <1>1, Invariance, PTL DEF Spec, NoStartAfterAbort

-----------------------------------------------------------------------------
(***************************************************************************)
(* The pool never stands still.                                            *)
(***************************************************************************)
\* Of any tasks one comes first in graph order: of the intervals that they end, one
\* contains no other.
LEMMA FirstTask ==
  ASSUME NEW S \in SUBSET Tasks, S # {}
  PROVE  \E t \in S : \A u \in S : t <= u
<1> DEFINE Upto == {1 .. t : t \in S}
<1>1. \A T \in SUBSET Tasks : IsFiniteSet(T)
  BY Finite, FS_Subset
<1>2. Upto \subseteq FiniteSubsetsOf(Tasks) /\ Upto # {}
  <2>1. \A t \in S : 1 .. t \in SUBSET Tasks
    BY GraphAssumption DEF Tasks
  <2> QED
    BY <1>1, <2>1 DEF FiniteSubsetsOf
<1>3. PICK T \in Upto : \A U \in Upto : <<U, T>> \notin StrictSubsetOrdering(Tasks)
  BY <1>2, FS_StrictSubsetOrderingWellFounded, WFMin
<1>4. PICK t \in S : T = 1 .. t
  OBVIOUS
<1>5. ASSUME NEW u \in S, u < t PROVE FALSE
  <2>1. 1 .. u \subseteq 1 .. t /\ t \in 1 .. t /\ t \notin 1 .. u /\ 1 .. t \subseteq Tasks
    BY <1>5, GraphAssumption DEF Tasks
  <2>2. <<1 .. u, 1 .. t>> \in StrictSubsetOrdering(Tasks)
    BY <2>1 DEF StrictSubsetOrdering
  <2> QED
    BY <1>3, <1>4, <2>2
<1>6. \A u \in S : u \in Int /\ t \in Int
  BY DEF Tasks
<1> QED
  BY <1>5, <1>6

\* A task whose barriers are closed is ready, with a worker, or over.
Available ==
  \A t \in Tasks : Barriers[t] \subseteq finished =>
    t \in ready \cup finished \/ \E w \in Workers : holding[w] = t

\* A thread that could not be spawned does nothing.
Outside == \A w \in Workers \ pool : pc[w] = "idle"

LEMMA AvailableNext == IInv /\ Available /\ Outside /\ [Next]_vars => Available' /\ Outside'
<1> SUFFICES ASSUME IInv, Available, Outside, [Next]_vars PROVE Available' /\ Outside'
  OBVIOUS
<1> USE DEF Available, Outside
<1>1. ASSUME NEW w \in pool, Record(w) PROVE Available' /\ Outside'
  <2> DEFINE t == holding[w]
  <2>1. w \in Workers /\ t \in Tasks /\ t \notin finished
    BY <1>1 DEF IInv, TypeOK, Holding, Placed, Record
  <2>2. /\ finished' = finished \cup {t} /\ ready' = ready \cup Released(t)
        /\ pool' = pool /\ \A v \in Workers : v # w => holding'[v] = holding[v] /\ pc'[v] = pc[v]
    BY <1>1, <2>1 DEF IInv, TypeOK, Record
  <2> HIDE DEF t
  <2>3. ASSUME NEW s \in Tasks, Barriers[s] \subseteq finished \cup {t}, t \in Barriers[s]
        PROVE  s \in Released(t)
    <3>1. /\ Cardinality(Barriers[s] \ (finished \cup {t})) = Cardinality(Barriers[s] \ finished) - 1
          /\ Cardinality(Barriers[s] \ finished) \in Nat
      BY <2>1, <2>3, Finite, CloseOne
    <3>2. Barriers[s] \ (finished \cup {t}) = {}
      BY <2>3
    <3>3. remainingBarriers[s] = 1
      BY <3>1, <3>2, FS_EmptySet DEF IInv, Counted
    <3> QED
      BY <2>3, <3>3 DEF Released, Successors
  <2>4. ASSUME NEW s \in Tasks, Barriers[s] \subseteq finished \cup {t}, t \notin Barriers[s]
        PROVE  s \in ready' \cup finished' \/ \E v \in Workers : holding'[v] = s
    <3>1. s \in ready \cup finished \/ \E v \in Workers : holding[v] = s
      BY <2>4
    <3>2. holding[w] = t
      BY DEF t
    <3> QED
      BY <2>2, <3>1, <3>2
  <2>5. Available'
    BY <2>2, <2>3, <2>4
  <2> QED
    BY <2>1, <2>2, <2>5
<1>2. ASSUME NEW w \in pool, Take(w) PROVE Available' /\ Outside'
  <2>1. PICK t \in ready : holding' = [holding EXCEPT ![w] = t] /\ ready' = ready \ {t}
    BY <1>2 DEF Take
  <2>2. w \in Workers /\ holding[w] = NoTask /\ NoTask \notin Tasks
    BY <1>2, WorkersAssumption DEF IInv, TypeOK, Holding, Take
  <2>3. holding'[w] = t /\ \A v \in Workers : v # w => holding'[v] = holding[v]
    BY <2>1, <2>2 DEF IInv, TypeOK
  <2>4. Available'
    BY <1>2, <2>1, <2>2, <2>3 DEF Take
  <2> QED
    BY <1>2, <2>4 DEF IInv, TypeOK, Take
<1>3. ASSUME NEW w \in pool, \/ Block(w) \/ Leave(w) \/ Return(w) \/ Panic(w)
                             \/ Abort(w) \/ Notify(w) \/ Spurious(w)
      PROVE  Available' /\ Outside'
  <2>1. UNCHANGED <<ready, finished, holding, pool>>
    BY <1>3 DEF Block, Leave, Return, Panic, Abort, Notify, Spurious, state
  <2>2. \A v \in Workers : v # w /\ pc[v] # "blocked" => pc'[v] = pc[v]
    BY <1>3 DEF IInv, TypeOK, Block, Leave, Return, Panic, Abort, Notify, Woken, Blocked, Spurious
  <2> QED
    BY <2>1, <2>2
<1>4. CASE Join \/ UNCHANGED vars
  BY <1>4 DEF Join, state, vars
<1> QED
  BY <1>1, <1>2, <1>3, <1>4 DEF Next, Step, Ended

\* Until the last thread has left, some thread of the pool is at work: the threads
\* are never all asleep on the condition variable, whatever the graph, the spawns
\* that failed and the wakeups that came for nothing (solution_scheduler.rs,
\* run_solution_tasks).  Of the unfinished tasks the first has its barriers closed.
SomebodyWorks ==
  caller = "joining" =>
    \/ \A w \in pool : pc[w] = "exited"
    \/ \E w \in pool : pc[w] \notin {"blocked", "exited"}

\* The pool never falls asleep with work left, for any graph and number of workers
\* (run_solution_tasks).
THEOREM NeverAllAsleep == Spec => []SomebodyWorks
<1>1. Init => Available /\ Outside
  BY DEF Init, Available, Outside
<1>2. IInv /\ Available /\ Outside => SomebodyWorks
  <2> SUFFICES ASSUME IInv, Available, Outside, NEW b \in pool, pc[b] # "exited",
                      \A w \in pool : pc[w] \in {"blocked", "exited"}
               PROVE  FALSE
    BY DEF SomebodyWorks
  <2>1. ready = {} /\ remaining > 0 /\ ~aborted
    BY DEF IInv, NoLostWakeup
  <2>2. \A w \in Workers : holding[w] = NoTask
    <3>1. \A w \in pool : w \in Workers /\ pc[w] = "blocked"
      BY <2>1 DEF IInv, TypeOK, Ends
    <3> QED
      BY <3>1 DEF IInv, Holding, Outside
  <2>3. Tasks \ finished # {}
    BY <2>1, FS_EmptySet DEF IInv, Counted
  <2>4. PICK t \in Tasks \ finished : \A u \in Tasks \ finished : t <= u
    BY <2>3, FirstTask
  <2>5. \A u \in Barriers[t] : u \in Tasks /\ u < t
    BY GraphAssumption DEF Barriers, WaitOnly, Tasks
  <2>6. Barriers[t] \subseteq finished
    <3>1. \A u \in Tasks : u < t => ~ (t <= u)
      BY DEF Tasks
    <3> QED
      BY <2>4, <2>5, <3>1
  <2> QED
    BY <2>1, <2>2, <2>4, <2>6, WorkersAssumption DEF Available
<1> QED
  BY <1>1, <1>2, AvailableNext, Invariance, PTL DEF Spec
-----------------------------------------------------------------------------
\* The initial states of the scheduler are initial states of the plain order.
LEMMA InitMaps == Init => Abstract!Init
<1> SUFFICES ASSUME Init PROVE Abstract!Init
  OBVIOUS
<1>1. \A t \in Tasks : Status(t) = "waiting"
  BY WorkersAssumption DEF Init, Status
<1> QED
  BY <1>1, Finite DEF Init, Abstract!Init, Abstract!AllWaiting

\* Where a task is held decides its status.
LEMMA StatusOf ==
  ASSUME IInv, NEW t \in Tasks
  PROVE  /\ t \in finished => Status(t) = "done"
         /\ Status(t) = "done" => t \in finished
         /\ \A w \in Workers : holding[w] = t =>
              Status(t) = IF pc[w] \in {"run", "record"} THEN "running" ELSE "crashed"
         /\ t \notin finished /\ (\A w \in Workers : holding[w] # t) => Status(t) = "waiting"
<1>1. \A w \in Workers : holding[w] = t => t \notin finished /\ \A v \in Workers : holding[v] = t => v = w
  BY WorkersAssumption DEF IInv, Placed
<1> QED
  BY <1>1 DEF Status

\* A step that leaves the other tasks' workers alone changes one status at most.
LEMMA StepMaps ==
  ASSUME IInv, IInv', NEW w \in pool, Step(w) \/ Spurious(w)
  PROVE  Abstract!Next \/ UNCHANGED Abstract!vars
<1> USE DEF Abstract!vars
<1>1. w \in Workers /\ holding \in [Workers -> Tasks \cup {NoTask}] /\ pc \in [Workers -> Stages]
  BY DEF IInv, TypeOK
<1>2. CASE Take(w)
  <2>1. PICK t \in ready : /\ holding' = [holding EXCEPT ![w] = t]
                           /\ ready' = ready \ {t}
    BY <1>2 DEF Take
  <2>2. /\ t \in Tasks /\ t # NoTask /\ t \notin finished /\ holding[w] = NoTask
        /\ Barriers[t] \subseteq finished /\ \A v \in Workers : holding[v] # t
    BY <1>1, <1>2, <2>1, WorkersAssumption DEF IInv, TypeOK, Placed, Holding, Take
  <2>3. pc' = [pc EXCEPT ![w] = "run"] /\ finished' = finished /\ ~aborted /\ aborted' = aborted
    BY <1>2 DEF Take, MayTake
  <2>4. Status(t) = "waiting"
    BY <2>2, StatusOf
  <2>5. \A b \in Barriers[t] : Status(b) = "done"
    BY <2>2, StatusOf, Finite
  <2>6. [u \in Tasks |-> Status(u)]' = [[u \in Tasks |-> Status(u)] EXCEPT ![t] = "running"]
    <3>1. Status(t)' = "running"
      BY <1>1, <2>1, <2>2, <2>3 DEF Status
    <3>2. ASSUME NEW u \in Tasks, u # t PROVE Status(u)' = Status(u)
      <4>1. \A v \in Workers : holding'[v] = u <=> holding[v] = u
        BY <1>1, <2>1, <2>2, <3>2, WorkersAssumption
      <4>2. \A v \in Workers : holding[v] = u => pc'[v] = pc[v]
        BY <1>1, <2>2, <2>3, <3>2, WorkersAssumption
      <4> QED
        BY <2>3, <4>1, <4>2 DEF Status
    <3> QED
      BY <2>2, <3>1, <3>2
  <2>7. Abstract!Start(t)
    BY <2>2, <2>3, <2>4, <2>5, <2>6, Finite DEF Abstract!Start, Abstract!MayStart
  <2> QED
    BY <2>2, <2>7 DEF Abstract!Next
<1>3. CASE Record(w)
  <2>1. PICK t \in Tasks :
        /\ t = holding[w] /\ t # NoTask /\ t \notin finished /\ pc[w] = "record"
        /\ pc' = [pc EXCEPT ![w] = "notify"] /\ holding' = [holding EXCEPT ![w] = NoTask]
        /\ finished' = finished \cup {t} /\ aborted' = aborted
    BY <1>1, <1>3 DEF Record, IInv, Holding, Placed, TypeOK
  <2>2. Status(t) = "running"
    BY <1>1, <2>1, StatusOf
  <2>3. [u \in Tasks |-> Status(u)]' = [[u \in Tasks |-> Status(u)] EXCEPT ![t] = "done"]
    <3>1. Status(t)' = "done"
      BY <2>1 DEF Status
    <3>2. \A u \in Tasks : u # t => Status(u)' = Status(u)
      BY <1>1, <2>1, WorkersAssumption DEF Status
    <3> QED
      BY <2>1, <3>1, <3>2
  <2>4. Abstract!Finish(t)
    BY <2>1, <2>2, <2>3 DEF Abstract!Finish
  <2> QED
    BY <2>1, <2>4 DEF Abstract!Next
<1>4. CASE Panic(w)
  <2>1. PICK t \in Tasks :
        /\ t = holding[w] /\ t # NoTask /\ t \notin finished /\ pc[w] = "run"
        /\ pc' = [pc EXCEPT ![w] = "abort"] /\ holding' = holding
        /\ finished' = finished /\ aborted' = aborted
    BY <1>1, <1>4 DEF Panic, IInv, Holding, Placed, state
  <2>2. Status(t) = "running" /\ \A v \in Workers : holding[v] = t => v = w
    BY <1>1, <2>1, StatusOf, WorkersAssumption DEF IInv, Placed
  <2>3. [u \in Tasks |-> Status(u)]' = [[u \in Tasks |-> Status(u)] EXCEPT ![t] = "crashed"]
    <3>1. Status(t)' = "crashed"
      BY <1>1, <2>1, <2>2 DEF Status
    <3>2. \A u \in Tasks : u # t => Status(u)' = Status(u)
      BY <1>1, <2>1 DEF Status
    <3> QED
      BY <2>1, <3>1, <3>2
  <2>4. Abstract!Crash(t)
    BY <2>1, <2>2, <2>3 DEF Abstract!Crash
  <2> QED
    BY <2>1, <2>4 DEF Abstract!Next
<1>5. CASE Abort(w)
  <2>1. /\ holding[w] \in Tasks /\ pc[w] = "abort"
        /\ pc' = [pc EXCEPT ![w] = "notifyAbort"] /\ holding' = holding
        /\ finished' = finished /\ aborted' = TRUE
    BY <1>1, <1>5 DEF Abort, IInv, Holding
  <2>2. Status(holding[w]) = "crashed"
    BY <1>1, <2>1, StatusOf
  <2>3. \A u \in Tasks : Status(u)' = Status(u)
    BY <1>1, <2>1 DEF Status
  <2>4. Abstract!Stop
    BY <2>1, <2>2, <2>3 DEF Abstract!Stop
  <2> QED
    BY <2>4 DEF Abstract!Next
<1>6. CASE Block(w) \/ Leave(w) \/ Return(w) \/ Notify(w) \/ Spurious(w)
  <2>1. holding' = holding /\ finished' = finished /\ aborted' = aborted
    BY <1>6 DEF Block, Leave, Return, Notify, Spurious, state
  <2>2. \A v \in Workers : pc'[v] \in {"run", "record"} <=> pc[v] \in {"run", "record"}
    BY <1>1, <1>6 DEF Block, Leave, Return, Notify, Spurious, Woken, Blocked
  <2>3. \A u \in Tasks : Status(u)' = Status(u)
    BY <2>1, <2>2 DEF Status
  <2> QED
    BY <2>1, <2>3
<1> QED
  BY <1>2, <1>3, <1>4, <1>5, <1>6 DEF Step

\* For every graph and pool the threads implement the plain dependency order:
\* every step of theirs is one of its steps or changes nothing it sees.
THEOREM Refinement == Spec => ImplementsOrder
<1>1. IInv /\ IInv' /\ [Next]_vars => [Abstract!Next]_(Abstract!vars)
  <2> SUFFICES ASSUME IInv, IInv', [Next]_vars
               PROVE  Abstract!Next \/ UNCHANGED Abstract!vars
    OBVIOUS
  <2>1. ASSUME UNCHANGED <<holding, pc, finished, aborted>> PROVE UNCHANGED Abstract!vars
    BY <2>1 DEF Abstract!vars, Status
  <2> QED
    BY <2>1, StepMaps DEF Next, Join, Ended, vars, state
<1> QED
  BY <1>1, InitMaps, Invariance, PTL DEF Spec, ImplementsOrder, Abstract!Spec
=============================================================================
