---------------------- MODULE ArtifactTransaction_proofs ----------------------
(***************************************************************************)
(* For any number of artifacts, in any directories, whatever others change *)
(* and whatever fails: a transaction touches no file of anybody else's, it *)
(* happens as a whole or not at all, and leaves nothing of its own behind. *)
(***************************************************************************)
EXTENDS ArtifactTransaction, TLAPS, WellFoundedInduction, FiniteSetTheorems

USE DEF entries, outcome, history, File

-----------------------------------------------------------------------------
(* The first and the last artifact of a phase                              *)

\* A set of artifacts that is not empty has a first and a last member, which the
\* loops over the staged artifacts rely on.
LEMMA Least == ASSUME NEW S \in SUBSET Nat, S # {}
               PROVE  \E a \in S : \A b \in S : a <= b
<1>. DEFINE T == {0 .. a : a \in S}
<1>1. T \subseteq FiniteSubsetsOf(Nat) /\ T # {}
  <2>1. ASSUME NEW a \in S PROVE 0 .. a \in FiniteSubsetsOf(Nat)
    <3>1. a \in Int /\ 0 \in Int /\ 0 .. a \in SUBSET Nat
      OBVIOUS
    <3>2. IsFiniteSet(0 .. a)
      BY <3>1, FS_Interval
    <3>. QED BY <3>1, <3>2 DEF FiniteSubsetsOf
  <2>2. PICK a \in S : TRUE
    OBVIOUS
  <2>. QED BY <2>1, <2>2
<1>2. PICK t \in T : \A u \in T : <<u, t>> \notin StrictSubsetOrdering(Nat)
  <2>. HIDE DEF T
  <2>. QED BY <1>1, WFMin, FS_StrictSubsetOrderingWellFounded
<1>3. PICK a \in S : t = 0 .. a
  OBVIOUS
<1>4. ASSUME NEW b \in S, b < a PROVE FALSE
  <2>1. 0 .. b \subseteq 0 .. a /\ a \in 0 .. a /\ a \notin 0 .. b
    BY <1>4
  <2>2. 0 .. b \in SUBSET Nat /\ 0 .. a \in SUBSET Nat
    OBVIOUS
  <2>3. <<0 .. b, 0 .. a>> \in StrictSubsetOrdering(Nat)
    BY <2>1, <2>2 DEF StrictSubsetOrdering
  <2>. QED BY <1>2, <1>3, <2>3
<1>. QED BY <1>4

LEMMA FirstOfLeft == ASSUME left \subseteq Artifacts, left # {}
                     PROVE  First \in left /\ \A b \in left : First <= b
<1>1. \E a \in left : \A b \in left : a <= b
  BY Least DEF Artifacts
<1>. QED BY <1>1 DEF First

LEMMA LastOfLeft == ASSUME left \subseteq Artifacts, left # {}
                    PROVE  Last \in left /\ \A b \in left : b <= Last
<1>. DEFINE S == {N - a : a \in left}
<1>1. S \in SUBSET Nat /\ S # {}
  <2>1. \A a \in left : N - a \in Nat
    BY ArtifactAssumption DEF Artifacts
  <2>2. PICK a \in left : TRUE
    OBVIOUS
  <2>. QED BY <2>1, <2>2
<1>2. PICK m \in S : \A n \in S : m <= n
  <2>. HIDE DEF S
  <2>. QED BY <1>1, Least
<1>3. PICK a \in left : m = N - a
  OBVIOUS
<1>4. ASSUME NEW b \in left PROVE b <= a
  <2>1. m <= N - b
    BY <1>2
  <2>. QED BY <1>3, <2>1, ArtifactAssumption DEF Artifacts
<1>5. \E c \in left : \A b \in left : b <= c
  BY <1>4
<1>. QED BY <1>5 DEF Last
-----------------------------------------------------------------------------
(* Types                                                                   *)

LEMMA TypeInductive == (Init => TypeOK) /\ (TypeOK /\ [Next]_vars => TypeOK')
<1>1. Init => TypeOK
  <2>. SUFFICES ASSUME Init PROVE TypeOK
    OBVIOUS
  <2>1. PICK file \in [Artifacts -> {[id |-> 1, data |-> x] : x \in Data} \cup {NoFile}] :
          disk = [s \in Slots |-> IF s = "file" THEN file ELSE [a \in Artifacts |-> NoFile]]
    BY DEF Init
  <2>2. file \in [Artifacts -> Files] /\ [a \in Artifacts |-> NoFile] \in [Artifacts -> Files]
    BY DEF Files
  <2>3. disk \in [Slots -> [Artifacts -> Files]]
    BY <2>1, <2>2
  <2>4. before \in [Artifacts -> Files]
    BY <2>3 DEF Init, Slots
  <2>5. dir \in [Dirs -> Nat]
    BY DEF Init
  <2>. QED BY <2>2, <2>3, <2>4, <2>5 DEF Init, TypeOK
<1>2. TypeOK /\ [Next]_vars => TypeOK'
  <2>. SUFFICES ASSUME TypeOK, [Next]_vars PROVE TypeOK'
    OBVIOUS
  <2>. USE DEF TypeOK
  <2>1. ASSUME NEW S \in SUBSET Artifacts, Touch(S), disk' \in [Slots -> [Artifacts -> Files]],
               dir' \in [Dirs -> Nat], next' = next + 1
        PROVE TypeOK'
    BY <2>1 DEF Touch
  <2>2. ASSUME NEW a \in Artifacts, NEW slot \in Slots, TouchFile(slot, a) PROVE TypeOK'
    <3>1. PICK file \in {[id |-> i, data |-> x] : i \in {next} \cup {f.id : f \in {disk[slot][a]} \ {NoFile}},
                                            x \in Data} \cup {NoFile} :
            disk' = Put(slot, a, file)
      BY <2>2 DEF TouchFile
    <3>2. disk[slot][a] \in Files
      OBVIOUS
    <3>3. file \in Files
      BY <3>2 DEF Files
    <3>4. disk' \in [Slots -> [Artifacts -> Files]]
      BY <3>1, <3>3 DEF Put
    <3>. QED BY <2>1, <2>2, <3>4 DEF TouchFile
  <2>3. ASSUME NEW d \in Dirs, TouchDir(d) PROVE TypeOK'
    <3>1. disk' \in [Slots -> [Artifacts -> Files]]
      BY <2>3 DEF TouchDir, Files
    <3>2. dir' \in [Dirs -> Nat]
      BY <2>3 DEF TouchDir
    <3>. QED BY <2>1, <2>3, <3>1, <3>2 DEF TouchDir
  <2>4. CASE Begin
    BY <2>4 DEF Begin, Changed, Kept, Mine, NoFault
  <2>5. CASE Stage
    <3>1. First \in Artifacts
      BY <2>5, FirstOfLeft DEF Stage
    <3>. DEFINE file == IF wanted[First] = Absent THEN NoFile ELSE [id |-> next + 1, data |-> wanted[First]]
    <3>2. file \in Files
      BY <3>1, ArtifactAssumption DEF Files
    <3>3. disk' \in [Slots -> [Artifacts -> Files]] /\ temp' \in [Artifacts -> Files]
      BY <2>5, <3>1, <3>2 DEF Stage, Put, Remembered
    <3>4. dest' \in [Artifacts -> Files]
      BY <2>5, <3>1 DEF Stage, Remembered, Slots
    <3>5. Home[First] \in Dirs
      BY <3>1, ArtifactAssumption
    <3>6. dir' \in [Dirs -> Nat] /\ parent' \in [Artifacts -> Nat]
      BY <2>5, <3>1, <3>5 DEF Stage, Remembered
    <3>7. created' \subseteq staged' /\ staged' \subseteq Artifacts /\ left' \subseteq Artifacts
          /\ committed' \subseteq staged' /\ unverified' \subseteq staged'
          /\ reported' \subseteq committed' /\ next' \in Nat \ {0}
      BY <2>5, <3>1 DEF Stage
    <3>. QED BY <2>5, <3>3, <3>4, <3>6, <3>7 DEF Stage, Mine, NoFault
  <2>6. CASE StageFails
    BY <2>6 DEF StageFails, Abandon, ToClean, Kept, Mine, Fault
  <2>7. CASE StageEnds
    BY <2>7 DEF StageEnds, Kept, Mine, NoFault
  <2>8. CASE Check
    <3>1. First \in left
      BY <2>8, FirstOfLeft DEF Check
    <3>. QED BY <2>8, <3>1 DEF Check, Done, CommitFails, ToUndo, Kept, Mine, NoFault, Fault
  <2>9. CASE Replace
    <3>1. First \in left /\ First \in staged
      BY <2>9, FirstOfLeft DEF Replace
    <3>2. disk' \in [Slots -> [Artifacts -> Files]]
      BY <2>9, <3>1 DEF Replace, Put, Files, Slots
    <3>3. left' \subseteq Artifacts /\ committed' \subseteq staged /\ committed \subseteq committed'
          /\ pc' \in {"commit", "verify", "rollback"} /\ result' \in {"ok", "failed"}
          /\ (pc' \in {"commit", "verify"} => left' \subseteq staged)
          /\ (pc' = "verify" => left' # {}) /\ (pc' = "rollback" => left' \subseteq committed')
      BY <2>9, <3>1 DEF Replace, Done, CommitFails, ToUndo
    <3>. QED BY <2>9, <3>2, <3>3 DEF Replace, Mine, NoFault, Fault
  <2>10. CASE Verify
    <3>1. First \in left
      BY <2>10, FirstOfLeft DEF Verify
    <3>. QED BY <2>10, <3>1 DEF Verify, Done, CommitFails, ToUndo, Kept, Mine, NoFault, Fault
  <2>11. CASE CommitEnds
    BY <2>11 DEF CommitEnds, ToClean, Kept, Mine, NoFault
  <2>12. CASE Rollback
    <3>1. Last \in left
      BY <2>12, LastOfLeft DEF Rollback
    <3>. QED BY <2>12, <3>1 DEF Rollback, Report, Undone, Kept, Mine, NoFault, Fault
  <2>13. CASE Undo
    <3>1. Last \in left /\ Last \in committed
      BY <2>13, LastOfLeft DEF Undo
    <3>. DEFINE old == IF dest[Last] = NoFile THEN NoFile ELSE [id |-> next, data |-> dest[Last].data]
    <3>2. old \in Files
      BY <3>1 DEF Files
    <3>3. disk' \in {disk, Put("file", Last, old), Put("undo", Last, old)}
      BY <2>13 DEF Undo
    <3>4. disk' \in [Slots -> [Artifacts -> Files]]
      BY <3>1, <3>2, <3>3 DEF Put
    <3>5. left' = left \ {Last} /\ pc' = "rollback" /\ reported' \in {reported, reported \cup {Last}}
      BY <2>13 DEF Undo, Undone, Report
    <3>. QED BY <2>13, <3>1, <3>4, <3>5 DEF Undo, Mine, NoFault, Fault
  <2>14. CASE RollbackEnds
    BY <2>14 DEF RollbackEnds, ToClean, Kept, Mine, NoFault
  <2>15. CASE Cleanup
    <3>1. Last \in left /\ Last \in Artifacts
      BY <2>15, LastOfLeft DEF Cleanup
    <3>2. disk' \in [Slots -> [Artifacts -> Files]]
      BY <2>15, <3>1 DEF Cleanup, Put, Files
    <3>3. dir' \in [Dirs -> Nat]
      BY <2>15 DEF Cleanup
    <3>. QED BY <2>15, <3>2, <3>3 DEF Cleanup, Mine, NoFault
  <2>16. CASE Return
    BY <2>16 DEF Return, Kept, Mine, NoFault
  <2>17. CASE UNCHANGED vars
    BY <2>17 DEF vars
  <2>. QED
    BY <2>2, <2>3, <2>4, <2>5, <2>6, <2>7, <2>8, <2>9, <2>10, <2>11, <2>12, <2>13, <2>14, <2>15, <2>16, <2>17
    DEF Next, Persist, Others, Over
<1>. QED BY <1>1, <1>2

\* Every variable keeps its type, and each phase handles only what the phases
\* before it have handed over.
THEOREM TypeCorrect == Spec => []TypeOK
BY TypeInductive, PTL DEF Spec
-----------------------------------------------------------------------------
(* The files of others                                                     *)

\* What was checked is still there when it is replaced or removed, or was changed
\* in between.
Guarded ==
  /\ pc = "replace" => First \in raced \/ File(First) = dest[First]
  /\ pc = "undo" => Last \in raced \/ File(Last) = Placed(Last)

LEMMA PutAt == ASSUME TypeOK, NEW slot \in Slots, NEW a \in Artifacts, NEW f, disk' = Put(slot, a, f)
               PROVE  \A s \in Slots, b \in Artifacts :
                        disk'[s][b] = IF s = slot /\ b = a THEN f ELSE disk[s][b]
BY DEF Put, TypeOK

\* What others change is where they touched.
LEMMA TouchedOnly == ASSUME TypeOK, Others
                     PROVE  \E S \in SUBSET Artifacts :
                              /\ Touch(S)
                              /\ \A b \in Artifacts \ S, s \in Slots : disk'[s][b] = disk[s][b]
                              /\ \A b \in Artifacts : dir'[Home[b]] = dir[Home[b]] \/ b \in S
<1>1. ASSUME NEW a \in Artifacts, NEW slot \in Slots, TouchFile(slot, a)
      PROVE  /\ Touch({a}) /\ dir' = dir
             /\ \A b \in Artifacts \ {a}, s \in Slots : disk'[s][b] = disk[s][b]
  <2>1. PICK file : disk' = Put(slot, a, file)
    BY <1>1 DEF TouchFile
  <2>. QED BY <1>1, <2>1, PutAt DEF TouchFile
<1>2. ASSUME NEW d \in Dirs, TouchDir(d)
      PROVE  LET S == {a \in Artifacts : Home[a] = d} IN
             /\ Touch(S)
             /\ \A b \in Artifacts \ S, s \in Slots : disk'[s][b] = disk[s][b]
             /\ \A b \in Artifacts : dir'[Home[b]] = dir[Home[b]] \/ b \in S
  <2>1. \A b \in Artifacts, s \in Slots : Home[b] # d => disk'[s][b] = disk[s][b]
    BY <1>2 DEF TouchDir
  <2>2. \A b \in Artifacts : Home[b] # d => dir'[Home[b]] = dir[Home[b]]
    BY <1>2, ArtifactAssumption DEF TouchDir, TypeOK
  <2>. QED BY <1>2, <2>1, <2>2 DEF TouchDir
<1>3. CASE \E a \in Artifacts, slot \in Slots : TouchFile(slot, a)
  BY <1>1, <1>3
<1>4. CASE \E d \in Dirs : TouchDir(d)
  <2>1. PICK d \in Dirs : TouchDir(d)
    BY <1>4
  <2>. DEFINE S == {a \in Artifacts : Home[a] = d}
  <2>2. S \in SUBSET Artifacts
    OBVIOUS
  <2>. QED BY <1>2, <2>1, <2>2
<1>. QED BY <1>3, <1>4 DEF Others

\* The actions that leave the artifacts' files as they are.
LEMMA FilesKept == ASSUME TypeOK, Begin \/ Stage \/ StageFails \/ StageEnds \/ Check \/ Verify \/ CommitEnds
                                    \/ Rollback \/ RollbackEnds \/ Cleanup \/ Return
                   PROVE  \A b \in Artifacts : File(b)' = File(b)
<1>1. CASE Stage
  <2>1. First \in Artifacts
    BY <1>1, FirstOfLeft DEF Stage, TypeOK
  <2>2. PICK file : disk' = Put("temp", First, file)
    BY <1>1 DEF Stage
  <2>. QED BY <2>1, <2>2, PutAt DEF Slots
<1>2. CASE Cleanup
  <2>1. Last \in Artifacts
    BY <1>2, LastOfLeft DEF Cleanup, TypeOK
  <2>2. disk' \in {disk, Put("temp", Last, NoFile)}
    BY <1>2 DEF Cleanup
  <2>. QED BY <2>1, <2>2, PutAt DEF Slots
<1>. QED BY <1>1, <1>2 DEF Begin, StageFails, StageEnds, Check, Verify, CommitEnds, Rollback, RollbackEnds, Return, Kept

LEMMA GuardedInductive == (Init => Guarded) /\ (TypeOK /\ Guarded /\ [Next]_vars => Guarded')
<1>1. Init => Guarded
  BY DEF Init, Guarded
<1>2. ASSUME TypeOK, Guarded, [Next]_vars PROVE Guarded'
  <2>1. CASE Others
    <3>1. PICK S \in SUBSET Artifacts :
            Touch(S) /\ \A b \in Artifacts \ S, s \in Slots : disk'[s][b] = disk[s][b]
      BY <1>2, <2>1, TouchedOnly
    <3>2. First' = First /\ Last' = Last
      BY <3>1 DEF Touch, First, Last
    <3>3. CASE pc = "replace"
      <4>1. First \in Artifacts
        BY <1>2, <3>3, FirstOfLeft DEF TypeOK
      <4>2. First \in S => First \in raced'
        BY <3>1, <3>3 DEF Touch, Current
      <4>3. First \notin S => File(First)' = File(First)
        BY <3>1, <3>2, <4>1 DEF Slots
      <4>4. First \in raced => First \in raced'
        BY <3>1 DEF Touch
      <4>. QED BY <1>2, <3>1, <3>2, <3>3, <4>2, <4>3, <4>4 DEF Guarded, Touch
    <3>4. CASE pc = "undo"
      <4>1. Last \in Artifacts
        BY <1>2, <3>4, LastOfLeft DEF TypeOK
      <4>2. Last \in S => Last \in raced'
        BY <3>1, <3>4 DEF Touch, Current
      <4>3. Last \notin S => File(Last)' = File(Last)
        BY <3>1, <3>2, <4>1 DEF Slots
      <4>4. Last \in raced => Last \in raced'
        BY <3>1 DEF Touch
      <4>. QED BY <1>2, <3>1, <3>2, <3>4, <4>2, <4>3, <4>4 DEF Guarded, Touch, Placed
    <3>. QED BY <3>1, <3>3, <3>4 DEF Guarded, Touch
  <2>2. CASE Check
    <3>1. pc' = "replace" => Intact(First) /\ left' = left
      BY <2>2 DEF Check, CommitFails, Done
    <3>2. left' = left => First' = First
      BY DEF First
    <3>. QED BY <2>2, <3>1, <3>2 DEF Check, CommitFails, Done, Kept, Intact, Guarded
  <2>3. CASE Rollback
    <3>1. pc' = "undo" => Unchanged(Last) /\ left' = left
      BY <2>3 DEF Rollback, Report, Undone
    <3>2. left' = left => Last' = Last
      BY DEF Last
    <3>. QED BY <2>3, <3>1, <3>2 DEF Rollback, Report, Undone, Kept, Unchanged, Placed, Mine, Guarded
  <2>4. CASE UNCHANGED vars
    BY <1>2, <2>4 DEF vars, Guarded, Placed, First, Last
  <2>5. pc' \notin {"replace", "undo"} => Guarded'
    BY DEF Guarded
  <2>. QED
    BY <1>2, <2>1, <2>2, <2>3, <2>4, <2>5
    DEF Next, Persist, Over, Begin, Stage, StageFails, Abandon, StageEnds, Replace, CommitFails, Done, Verify, CommitEnds,
        Undo, Undone, Report, RollbackEnds, Cleanup, Return
<1>. QED BY <1>1, <1>2

\* For any number of artifacts and whatever others do: a step of the transaction
\* removes or replaces only what it staged against or put in place itself.
THEOREM NothingOfOthersLost == Spec => OthersKept
<1>. DEFINE Owned == others' = others =>
              \A a \in Artifacts : File(a)' # File(a) => File(a) \in {NoFile, dest[a], temp[a]} \/ a \in raced
<1>1. TypeOK /\ Guarded /\ [Next]_vars => [Owned]_vars
  <2>. SUFFICES ASSUME TypeOK, Guarded, Next, others' = others,
                       NEW a \in Artifacts, File(a)' # File(a)
                PROVE  File(a) \in {NoFile, dest[a], temp[a]} \/ a \in raced
    OBVIOUS
  <2>1. CASE Others
    BY <2>1, TouchedOnly DEF Touch, TypeOK
  <2>2. CASE Replace
    <3>1. First \in Artifacts
      BY <2>2, FirstOfLeft DEF Replace, TypeOK
    <3>2. a = First
      <4>1. \/ disk' = disk
            \/ disk' = Put("file", First, NoFile)
            \/ disk' = [disk EXCEPT !["file"][First] = disk["temp"][First], !["temp"][First] = NoFile]
        BY <2>2 DEF Replace
      <4>. QED BY <3>1, <4>1 DEF Put, TypeOK, Slots
    <3>. QED BY <2>2, <3>2 DEF Guarded, Replace
  <2>3. CASE Undo
    <3>1. Last \in Artifacts
      BY <2>3, LastOfLeft DEF Undo, TypeOK
    <3>2. a = Last
      <4>1. \E old : disk' \in {disk, Put("file", Last, old), Put("undo", Last, old)}
        BY <2>3 DEF Undo
      <4>. QED BY <3>1, <4>1, PutAt DEF Slots
    <3>. QED BY <2>3, <3>2 DEF Guarded, Undo, Placed
  <2>. QED BY <2>1, <2>2, <2>3, FilesKept DEF Next, Persist, Over, vars
<1>. QED BY <1>1, TypeInductive, GuardedInductive, PTL DEF Spec, OthersKept
-----------------------------------------------------------------------------
(* All or nothing                                                          *)

\* What the phases have handed over, in which order.
Phases ==
  /\ pc \in {"begin", "stage", "commit", "replace", "verify"} =>
       result = "ok" /\ reported = {} /\ unverified = {}
  /\ pc = "begin" => staged = {}
  /\ pc \in {"begin", "stage"} => committed = {}
  /\ pc = "stage" => \A a \in staged, b \in left : a < b
  /\ pc \in {"commit", "replace", "verify"} => left = staged \ committed
  /\ pc \in {"rollback", "undo"} => result = "failed"
  /\ pc \in {"cleanup", "returned"} /\ result = "ok" => committed = staged
  /\ pc = "cleanup" => \A a \in staged \ left, b \in left : b < a
  /\ pc = "returned" => left = {}

\* What was committed stands until the rollback has come to it.
Standing(a) == result = "ok" \/ (pc \in {"rollback", "undo"} /\ a \in left)

\* An artifact that nobody else touched is as it was before, as the request wants
\* it, or as it was before again.
Course(a) ==
  /\ a \notin staged => File(a) = before[a]
  /\ pc # "begin" /\ result = "ok" /\ a \notin staged /\ ~(pc = "stage" /\ a \in left) =>
       Holds(File(a), wanted[a])
  /\ a \in staged => dest[a] = before[a]
  /\ a \in staged \ (committed \cup unverified) /\ ~(pc = "verify" /\ a = First) => File(a) = before[a]
  /\ a \in committed /\ Standing(a) => Holds(File(a), wanted[a])
  /\ a \in committed /\ ~Standing(a) => a \in reported \/ Same(File(a), before[a])

Prepared == \A a \in staged : Holds(temp[a], wanted[a])
Courses == \A a \in Artifacts \ touched : Course(a)

LEMMA PhasesInductive == (Init => Phases) /\ (TypeOK /\ Phases /\ [Next]_vars => Phases')
<1>1. Init => Phases
  BY DEF Init, Phases
<1>2. ASSUME TypeOK, Phases, [Next]_vars PROVE Phases'
  <2>. USE <1>2 DEF Phases
  <2>1. CASE Others \/ UNCHANGED vars
    <3>1. Others => UNCHANGED <<pc, left, staged, committed, result, reported, unverified>>
      BY TouchedOnly DEF Touch
    <3>. QED BY <2>1, <3>1 DEF vars
  <2>2. CASE Begin
    BY <2>2 DEF Begin
  <2>3. CASE Stage
    <3>1. First \in left /\ \A b \in left : First <= b
      BY <2>3, FirstOfLeft DEF Stage, TypeOK
    <3>2. staged' = staged \cup {First} /\ left' = left \ {First} /\ pc' = pc
      BY <2>3 DEF Stage
    <3>3. \A a \in staged', b \in left' : a < b
      <4>1. ASSUME NEW b \in left \ {First} PROVE First < b
        <5>1. First \in Nat /\ b \in Nat /\ First <= b /\ b # First
          BY <3>1 DEF TypeOK, Artifacts
        <5>. QED BY <5>1
      <4>2. \A a \in staged, b \in left : a < b
        BY <2>3 DEF Stage
      <4>. QED BY <3>2, <4>1, <4>2
    <3>. QED BY <2>3, <3>3 DEF Stage
  <2>4. CASE StageFails
    BY <2>4 DEF StageFails, Abandon, ToClean
  <2>5. CASE StageEnds
    BY <2>5 DEF StageEnds
  <2>6. CASE Check
    <3>1. First \in left
      BY <2>6, FirstOfLeft DEF Check, TypeOK
    <3>. QED BY <2>6, <3>1 DEF Check, Done, CommitFails, TypeOK
  <2>7. CASE Replace
    <3>1. First \in left
      BY <2>7, FirstOfLeft DEF Replace, TypeOK
    <3>2. \/ Done(First) /\ result' = result
          \/ pc' = "verify" /\ left' = left /\ committed' = committed /\ result' = result
          \/ CommitFails
      BY <2>7 DEF Replace
    <3>3. UNCHANGED <<staged, reported, unverified>>
      BY <2>7 DEF Replace
    <3>. QED BY <2>7, <3>1, <3>2, <3>3 DEF Replace, Done, CommitFails, TypeOK
  <2>8. CASE Verify
    <3>1. First \in left
      BY <2>8, FirstOfLeft DEF Verify, TypeOK
    <3>. QED BY <2>8, <3>1 DEF Verify, Done, CommitFails, TypeOK
  <2>9. CASE CommitEnds
    BY <2>9 DEF CommitEnds, ToClean, TypeOK
  <2>10. CASE Rollback \/ Undo
    <3>1. pc' \in {"rollback", "undo"} /\ result' = result
      BY <2>10 DEF Rollback, Undo, Undone, Report
    <3>. QED BY <2>10, <3>1 DEF Rollback, Undo
  <2>11. CASE RollbackEnds
    BY <2>11 DEF RollbackEnds, ToClean
  <2>12. CASE Cleanup
    <3>1. Last \in left /\ \A b \in left : b <= Last
      BY <2>12, LastOfLeft DEF Cleanup, TypeOK
    <3>2. left' = left \ {Last} /\ staged' = staged /\ pc' = pc
      BY <2>12 DEF Cleanup
    <3>3. \A a \in staged' \ left', b \in left' : b < a
      BY <2>12, <3>1, <3>2 DEF Cleanup, TypeOK, Artifacts
    <3>. QED BY <2>12, <3>2, <3>3 DEF Cleanup
  <2>13. CASE Return
    BY <2>13 DEF Return
  <2>. QED BY <2>1, <2>2, <2>3, <2>4, <2>5, <2>6, <2>7, <2>8, <2>9, <2>10, <2>11, <2>12, <2>13 DEF Next, Persist, Over
<1>. QED BY <1>1, <1>2

\* The loops go on with the same first and last artifact while left stays.
LEMMA SameEnds == ASSUME left' = left PROVE First' = First /\ Last' = Last
BY DEF First, Last

LEMMA CoursesInductive ==
  /\ Init => Prepared /\ Courses
  /\ TypeOK /\ Phases /\ Prepared /\ Courses /\ [Next]_vars => Prepared' /\ Courses'
<1>1. Init => Prepared /\ Courses
  BY DEF Init, Prepared, Courses, Course
<1>2. ASSUME TypeOK, Phases, Prepared, Courses, [Next]_vars PROVE Prepared' /\ Courses'
  <2>. USE <1>2
  <2>1. CASE Others
    <3>1. PICK S \in SUBSET Artifacts :
            Touch(S) /\ \A b \in Artifacts \ S, s \in Slots : disk'[s][b] = disk[s][b]
      BY <2>1, TouchedOnly
    <3>2. Prepared'
      BY <3>1 DEF Touch, Prepared
    <3>3. ASSUME NEW a \in Artifacts, a \notin touched' PROVE Course(a)'
      <4>1. a \notin S /\ Course(a)
        BY <3>1, <3>3 DEF Touch, Courses
      <4>2. File(a)' = File(a)
        BY <3>1, <4>1 DEF Slots
      <4>3. First' = First
        BY <3>1, SameEnds DEF Touch
      <4>. QED BY <3>1, <4>1, <4>2, <4>3 DEF Touch, Course, Standing
    <3>. QED BY <3>2, <3>3 DEF Courses
  <2>2. CASE UNCHANGED vars
    BY <2>2, SameEnds DEF vars, Prepared, Courses, Course, Standing
  <2>3. CASE Begin
    <3>1. ASSUME NEW a \in Artifacts, a \notin touched PROVE Course(a)'
      <4>1. Course(a)
        BY <3>1 DEF Courses
      <4>2. a \notin left' => Holds(File(a), wanted[a])
        <5>1. a \notin left' => wanted[a] # Absent /\ File(a) \in [id : Nat, data : {wanted[a]}]
          BY <2>3, <3>1 DEF Begin, Changed
        <5>2. wanted[a] # Absent => wanted[a] \in Data
          BY <3>1, ArtifactAssumption DEF TypeOK
        <5>3. File(a) \in [id : Nat, data : {wanted[a]}] /\ wanted[a] \in Data
                => File(a) # NoFile /\ File(a).data = wanted[a]
          <6>1. wanted[a] \in Data => [id : Nat, data : {wanted[a]}] \subseteq [id : Nat, data : Data]
            OBVIOUS
          <6>. QED BY <6>1, ArtifactAssumption
        <5>. QED BY <5>1, <5>2, <5>3 DEF Holds
      <4>. QED BY <2>3, <4>1, <4>2, FilesKept DEF Begin, Kept, Mine, Course, Phases, Standing
    <3>. QED BY <2>3, <3>1 DEF Begin, Mine, Prepared, Courses
  <2>4. CASE Stage
    <3>1. First \in left /\ First \in Artifacts
      BY <2>4, FirstOfLeft DEF Stage, TypeOK
    <3>2. First \notin staged
      BY <2>4, <3>1 DEF Stage, Phases, TypeOK, Artifacts
    <3>3. dest' = [dest EXCEPT ![First] = File(First)] /\ staged' = staged \cup {First}
          /\ left' = left \ {First} /\ pc' = pc /\ pc = "stage"
      BY <2>4 DEF Stage, Remembered
    <3>4. temp' = [temp EXCEPT ![First] = IF wanted[First] = Absent THEN NoFile
                                          ELSE [id |-> next + 1, data |-> wanted[First]]]
      BY <2>4 DEF Stage, Remembered
    <3>5. UNCHANGED <<wanted, before, touched, committed, result, reported, unverified>>
      BY <2>4 DEF Stage, Mine
    <3>6. Prepared'
      <4>1. Holds(temp'[First], wanted[First])
        <5>1. wanted[First] # Absent => [id |-> next + 1, data |-> wanted[First]] # NoFile
          BY <3>1, ArtifactAssumption DEF TypeOK
        <5>. QED BY <3>1, <3>4, <5>1 DEF Holds, TypeOK
      <4>2. \A b \in Artifacts \ {First} : temp'[b] = temp[b]
        BY <3>4 DEF TypeOK
      <4>. QED BY <3>3, <3>5, <4>1, <4>2 DEF Prepared, TypeOK
    <3>7. ASSUME NEW a \in Artifacts, a \notin touched PROVE Course(a)'
      <4>1. Course(a) /\ File(a)' = File(a)
        BY <2>4, <3>7, FilesKept DEF Courses
      <4>2. result = "ok" /\ unverified = {} /\ committed = {}
        BY <3>3 DEF Phases
      <4>3. dest'[a] = IF a = First THEN File(a) ELSE dest[a]
        BY <3>3 DEF TypeOK
      <4>. QED BY <3>2, <3>3, <3>5, <4>1, <4>2, <4>3 DEF Course, Standing
    <3>. QED BY <3>5, <3>6, <3>7 DEF Courses
  <2>5. CASE StageFails \/ StageEnds \/ CommitEnds \/ RollbackEnds \/ Return
    <3>1. UNCHANGED <<wanted, before, touched, dest, temp, staged, committed, unverified, reported>>
      BY <2>5 DEF StageFails, StageEnds, CommitEnds, RollbackEnds, Return, Mine
    <3>2. ASSUME NEW a \in Artifacts, a \notin touched PROVE Course(a)'
      <4>1. Course(a) /\ File(a)' = File(a)
        BY <2>5, <3>2, FilesKept DEF Courses
      <4>2. CASE StageFails
        BY <3>1, <4>1, <4>2 DEF StageFails, Abandon, Course, Standing, Phases
      <4>3. CASE StageEnds
        BY <3>1, <4>1, <4>3 DEF StageEnds, Course, Standing, Phases
      <4>4. CASE CommitEnds
        BY <3>1, <4>1, <4>4 DEF CommitEnds, Course, Standing, Phases
      <4>5. CASE RollbackEnds
        BY <3>1, <4>1, <4>5 DEF RollbackEnds, Course, Standing, Phases
      <4>6. CASE Return
        BY <3>1, <4>1, <4>6 DEF Return, Course, Standing, Phases
      <4>. QED BY <2>5, <4>2, <4>3, <4>4, <4>5, <4>6
    <3>. QED BY <3>1, <3>2 DEF Prepared, Courses
  <2>6. CASE Check
    <3>1. First \in left
      BY <2>6, FirstOfLeft DEF Check, TypeOK
    <3>2. UNCHANGED <<wanted, before, touched, dest, temp, staged, unverified, reported>> /\ pc = "commit"
      BY <2>6 DEF Check, Mine
    <3>3. ASSUME NEW a \in Artifacts, a \notin touched PROVE Course(a)'
      <4>1. Course(a) /\ File(a)' = File(a) /\ result = "ok"
        BY <2>6, <3>2, <3>3, FilesKept DEF Courses, Phases
      <4>2. CASE CommitFails /\ UNCHANGED committed
        BY <3>2, <4>1, <4>2 DEF CommitFails, ToUndo, Course, Standing
      <4>3. CASE Done(First) /\ UNCHANGED result /\ Intact(First) /\ wanted[First] = Absent /\ dest[First] = NoFile
        <5>1. Holds(File(First), wanted[First])
          BY <4>3 DEF Intact, Holds
        <5>. QED BY <3>2, <4>1, <4>3, <5>1 DEF Done, Course, Standing
      <4>4. CASE pc' = "replace" /\ UNCHANGED <<left, committed, result>>
        BY <3>2, <4>1, <4>4 DEF Course, Standing
      <4>. QED BY <2>6, <4>2, <4>3, <4>4 DEF Check
    <3>. QED BY <3>2, <3>3 DEF Prepared, Courses
  <2>7. CASE Replace
    <3>1. First \in left /\ First \in Artifacts /\ First \in staged /\ First \notin committed
      BY <2>7, FirstOfLeft DEF Replace, TypeOK, Phases
    <3>2. UNCHANGED <<wanted, before, touched, dest, temp, staged, unverified, reported>> /\ pc = "replace"
      BY <2>7 DEF Replace, Mine
    <3>3. \A a \in Artifacts \ {First} : File(a)' = File(a)
      <4>1. \/ disk' = disk
            \/ disk' = Put("file", First, NoFile)
            \/ disk' = [disk EXCEPT !["file"][First] = disk["temp"][First], !["temp"][First] = NoFile]
        BY <2>7 DEF Replace
      <4>. QED BY <3>1, <4>1 DEF Put, TypeOK, Slots
    <3>4. ASSUME NEW a \in Artifacts, a \notin touched PROVE Course(a)'
      <4>1. Course(a) /\ result = "ok"
        BY <3>2, <3>4 DEF Courses, Phases
      <4>2. CASE CommitFails /\ UNCHANGED <<disk, committed>>
        BY <3>2, <4>1, <4>2 DEF CommitFails, ToUndo, Course, Standing
      <4>3. CASE Done(First) /\ UNCHANGED result /\ wanted[First] = Absent /\ disk' = Put("file", First, NoFile)
        <5>1. a = First => File(a)' = NoFile
          BY <3>1, <4>3, PutAt DEF Slots
        <5>. QED BY <3>1, <3>2, <3>3, <4>1, <4>3, <5>1 DEF Done, Course, Standing, Holds
      <4>4. CASE pc' = "verify" /\ UNCHANGED <<left, committed, result>>
        <5>1. First' = First
          BY <4>4, SameEnds
        <5>. QED BY <3>1, <3>2, <3>3, <4>1, <4>4, <5>1 DEF Course, Standing
      <4>5. \/ CommitFails /\ UNCHANGED <<disk, committed>>
            \/ Done(First) /\ UNCHANGED result /\ wanted[First] = Absent /\ disk' = Put("file", First, NoFile)
            \/ pc' = "verify" /\ UNCHANGED <<left, committed, result>>
        BY <2>7 DEF Replace
      <4>. QED BY <4>2, <4>3, <4>4, <4>5
    <3>. QED BY <3>2, <3>4 DEF Prepared, Courses
  <2>8. CASE Verify
    <3>1. First \in left /\ First \in staged
      BY <2>8, FirstOfLeft DEF Verify, TypeOK
    <3>2. UNCHANGED <<wanted, before, touched, dest, temp, staged, reported>> /\ pc = "verify"
      BY <2>8 DEF Verify, Mine
    <3>3. ASSUME NEW a \in Artifacts, a \notin touched PROVE Course(a)'
      <4>1. Course(a) /\ File(a)' = File(a) /\ result = "ok"
        BY <2>8, <3>2, <3>3, FilesKept DEF Courses, Phases
      <4>2. CASE CommitFails /\ unverified' = unverified \cup {First} /\ UNCHANGED committed
        BY <3>2, <4>1, <4>2 DEF CommitFails, ToUndo, Course, Standing
      <4>3. CASE Done(First) /\ UNCHANGED <<result, unverified>> /\ File(First) = temp[First]
        <5>1. Holds(File(First), wanted[First])
          BY <3>1, <4>3 DEF Prepared
        <5>. QED BY <3>2, <4>1, <4>3, <5>1 DEF Done, Course, Standing
      <4>. QED BY <2>8, <4>2, <4>3 DEF Verify
    <3>. QED BY <3>2, <3>3 DEF Prepared, Courses
  <2>9. CASE Rollback
    <3>1. Last \in left /\ Last \in committed
      BY <2>9, LastOfLeft DEF Rollback, TypeOK
    <3>2. UNCHANGED <<wanted, before, touched, dest, temp, staged, committed, unverified, result>> /\ pc = "rollback"
      BY <2>9 DEF Rollback, Mine
    <3>3. \/ pc' = "undo" /\ UNCHANGED <<left, reported>>
          \/ pc' = "rollback" /\ left' = left \ {Last} /\ reported' = reported \cup {Last}
      BY <2>9 DEF Rollback, Report, Undone
    <3>4. ASSUME NEW a \in Artifacts, a \notin touched PROVE Course(a)'
      <4>1. Course(a) /\ File(a)' = File(a) /\ result = "failed"
        BY <2>9, <3>2, <3>4, FilesKept DEF Courses, Phases
      <4>. QED BY <3>2, <3>3, <4>1 DEF Course, Standing
    <3>. QED BY <3>2, <3>4 DEF Prepared, Courses
  <2>10. CASE Undo
    <3>1. Last \in left /\ Last \in committed /\ Last \in Artifacts /\ Last \in staged
      BY <2>10, LastOfLeft DEF Undo, TypeOK
    <3>2. UNCHANGED <<wanted, before, touched, dest, temp, staged, committed, unverified, result>> /\ pc = "undo"
          /\ pc' = "rollback" /\ left' = left \ {Last}
      BY <2>10 DEF Undo, Mine, Undone, Report
    <3>. DEFINE old == IF dest[Last] = NoFile THEN NoFile ELSE [id |-> next, data |-> dest[Last].data]
    <3>3. \/ disk' = Put("file", Last, old) /\ UNCHANGED reported
          \/ disk' \in {disk, Put("undo", Last, old)} /\ reported' = reported \cup {Last}
      BY <2>10 DEF Undo, Report
    <3>4. \A a \in Artifacts \ {Last} : File(a)' = File(a)
      <4>. HIDE DEF old
      <4>. QED BY <3>1, <3>3, PutAt DEF Slots
    <3>5. \A a \in Artifacts : a = Last => a \in reported' \/ File(a)' = old
      <4>. HIDE DEF old
      <4>. QED BY <3>1, <3>3, PutAt DEF Slots
    <3>6. Same(old, dest[Last])
      <4>1. dest[Last] # NoFile => old # NoFile
        <5>1. dest[Last] # NoFile => old \in [id : Nat, data : Data]
          BY <3>1 DEF TypeOK, Files
        <5>. QED BY <5>1, ArtifactAssumption
      <4>. QED BY <4>1 DEF Same
    <3>7. ASSUME NEW a \in Artifacts, a \notin touched PROVE Course(a)'
      <4>1. Course(a) /\ result = "failed"
        BY <3>2, <3>7 DEF Courses, Phases
      <4>2. CASE a = Last
        <5>1. dest[a] = before[a]
          BY <3>1, <4>1, <4>2 DEF Course
        <5>2. a \in reported' \/ Same(File(a)', before[a])
          <6>. HIDE DEF old
          <6>. QED BY <3>5, <3>6, <4>2, <5>1
        <5>. QED BY <3>1, <3>2, <4>1, <4>2, <5>2 DEF Course, Standing
      <4>3. CASE a # Last
        <5>1. reported \subseteq reported' /\ File(a)' = File(a)
          BY <3>3, <3>4, <4>3
        <5>. QED BY <3>1, <3>2, <4>1, <4>3, <5>1 DEF Course, Standing
      <4>. QED BY <4>2, <4>3
    <3>. QED BY <3>2, <3>7 DEF Prepared, Courses
  <2>11. CASE Cleanup
    <3>1. UNCHANGED <<wanted, before, touched, dest, temp, staged, committed, unverified, reported, result, pc>>
          /\ pc = "cleanup"
      BY <2>11 DEF Cleanup, Mine
    <3>2. ASSUME NEW a \in Artifacts, a \notin touched PROVE Course(a)'
      <4>1. Course(a) /\ File(a)' = File(a)
        BY <2>11, <3>2, FilesKept DEF Courses
      <4>. QED BY <3>1, <4>1 DEF Course, Standing
    <3>. QED BY <3>1, <3>2 DEF Prepared, Courses
  <2>. QED BY <2>1, <2>2, <2>3, <2>4, <2>5, <2>6, <2>7, <2>8, <2>9, <2>10, <2>11 DEF Next, Persist, Over
<1>. QED BY <1>1, <1>2
-----------------------------------------------------------------------------
(* Nothing left behind                                                     *)

\* Nobody else has been in the directory of a.
Quiet(a) == \A b \in touched : Home[b] # Home[a]

\* The temporaries beside an artifact that nobody else touched.
Temporaries(a) ==
  /\ a \notin staged => disk["temp"][a] = NoFile
  /\ disk["temp"][a] \in {NoFile, temp[a]}
  /\ pc \in {"cleanup", "returned"} /\ a \notin left => disk["temp"][a] = NoFile
  /\ a \notin reported => disk["undo"][a] = NoFile

\* A directory that was created was so for the first of its artifacts, which is the
\* last of them to be cleaned up after.
Directory(a) ==
  /\ a \in staged /\ pc \notin {"cleanup", "returned"} => dir[Home[a]] # 0
  /\ a \in created => \A b \in staged : Home[b] = Home[a] => a <= b
  /\ a \in created /\ pc \in {"cleanup", "returned"} /\ a \notin left =>
       dir[Home[a]] = 0 \/ ~Empty(Home[a], disk)

Litter ==
  /\ \A a \in Artifacts \ touched : Temporaries(a)
  /\ \A a \in Artifacts : Quiet(a) => Directory(a)

LEMMA LitterInductive == (Init => Litter) /\ (TypeOK /\ Phases /\ Litter /\ [Next]_vars => Litter')
<1>1. Init => Litter
  <2>. SUFFICES ASSUME Init PROVE Litter
    OBVIOUS
  <2>1. \A a \in Artifacts : disk["temp"][a] = NoFile /\ disk["undo"][a] = NoFile
    BY DEF Init, Slots
  <2>. QED BY <2>1 DEF Init, Litter, Temporaries, Directory
<1>2. ASSUME TypeOK, Phases, Litter, [Next]_vars PROVE Litter'
  <2>. USE <1>2
  <2>1. CASE Others
    <3>1. PICK S \in SUBSET Artifacts :
            /\ Touch(S) /\ \A b \in Artifacts \ S, s \in Slots : disk'[s][b] = disk[s][b]
            /\ \A b \in Artifacts : dir'[Home[b]] = dir[Home[b]] \/ b \in S
      BY <2>1, TouchedOnly
    <3>2. touched' = touched \cup S
          /\ UNCHANGED <<pc, left, staged, temp, created, reported>>
      BY <3>1 DEF Touch
    <3>3. ASSUME NEW a \in Artifacts, a \notin touched' PROVE Temporaries(a)'
      <4>1. Temporaries(a) /\ \A s \in Slots : disk'[s][a] = disk[s][a]
        BY <3>1, <3>2, <3>3 DEF Litter
      <4>. QED BY <3>2, <4>1 DEF Temporaries, Slots
    <3>4. ASSUME NEW a \in Artifacts, Quiet(a)' PROVE Directory(a)'
      <4>1. Quiet(a) /\ \A b \in S : Home[b] # Home[a]
        BY <3>2, <3>4 DEF Quiet
      <4>2. Directory(a) /\ dir'[Home[a]] = dir[Home[a]]
        BY <3>1, <4>1 DEF Litter
      <4>3. \A b \in Artifacts, s \in Slots : Home[b] = Home[a] => disk'[s][b] = disk[s][b]
        BY <3>1, <4>1
      <4>4. Empty(Home[a], disk') <=> Empty(Home[a], disk)
        BY <4>3 DEF Empty
      <4>. QED BY <3>2, <4>2, <4>4 DEF Directory
    <3>. QED BY <3>3, <3>4 DEF Litter
  <2>2. CASE UNCHANGED vars
    BY <2>2 DEF vars, Litter, Quiet, Temporaries, Directory
  <2>3. CASE Stage
    <3>1. First \in left /\ First \in Artifacts /\ Home[First] \in Dirs /\ pc = "stage"
      BY <2>3, FirstOfLeft, ArtifactAssumption DEF Stage, TypeOK
    <3>2. \A a \in staged : a < First
      BY <3>1 DEF Phases
    <3>3. UNCHANGED <<pc, touched, reported>> /\ staged' = staged \cup {First}
      BY <2>3 DEF Stage, Mine
    <3>4. PICK file : disk' = Put("temp", First, file) /\ temp' = [temp EXCEPT ![First] = file]
      BY <2>3 DEF Stage, Remembered
    <3>5. ASSUME NEW a \in Artifacts, a \notin touched PROVE Temporaries(a)'
      <4>1. Temporaries(a)
        BY <3>5 DEF Litter
      <4>2. disk'["undo"][a] = disk["undo"][a]
            /\ (a = First => disk'["temp"][a] = file /\ temp'[a] = file)
            /\ (a # First => disk'["temp"][a] = disk["temp"][a] /\ temp'[a] = temp[a])
        BY <3>1, <3>4, PutAt DEF Slots, TypeOK
      <4>. QED BY <3>1, <3>3, <4>1, <4>2 DEF Temporaries
    <3>6. \A d \in Dirs : dir[d] # 0 => dir'[d] = dir[d]
      BY <2>3, <3>1 DEF Stage, TypeOK
    <3>7. dir'[Home[First]] # 0
      BY <2>3, <3>1 DEF Stage, TypeOK
    <3>8. created' = IF dir[Home[First]] = 0 THEN created \cup {First} ELSE created
      BY <2>3 DEF Stage
    <3>9. ASSUME NEW a \in Artifacts, Quiet(a) PROVE Directory(a)'
      <4>1. Directory(a) /\ Home[a] \in Dirs
        BY <3>9, ArtifactAssumption DEF Litter
      <4>2. a \in staged' => dir'[Home[a]] # 0
        BY <3>1, <3>3, <3>6, <3>7, <4>1 DEF Directory
      <4>3. CASE a \in created
        <5>1. a < First
          BY <3>2, <4>3 DEF TypeOK
        <5>2. \A b \in staged' : Home[b] = Home[a] => a <= b
          BY <3>1, <3>3, <4>1, <4>3, <5>1 DEF Directory, Artifacts
        <5>. QED BY <3>1, <3>3, <4>2, <5>2 DEF Directory
      <4>4. CASE a = First /\ a \notin created
        <5>1. a \in created' => \A b \in staged : Home[b] # Home[a]
          <6>1. ASSUME NEW b \in staged, Home[b] = Home[a] PROVE dir[Home[a]] # 0
            <7>1. b \in Artifacts /\ Quiet(b)
              BY <3>9, <6>1 DEF Quiet, TypeOK
            <7>2. Directory(b)
              BY <7>1 DEF Litter
            <7>. QED BY <3>1, <6>1, <7>2 DEF Directory
          <6>. QED BY <3>8, <4>4, <6>1
        <5>2. a \in created' => \A b \in staged' : Home[b] = Home[a] => a <= b
          BY <3>1, <3>3, <4>4, <5>1 DEF Artifacts
        <5>. QED BY <3>1, <3>3, <4>2, <5>2 DEF Directory
      <4>5. CASE a # First /\ a \notin created
        BY <3>1, <3>3, <3>8, <4>2, <4>5 DEF Directory
      <4>. QED BY <4>3, <4>4, <4>5
    <3>. QED BY <3>3, <3>5, <3>9 DEF Litter, Quiet
  <2>4. CASE Cleanup
    <3>1. Last \in left /\ Last \in Artifacts /\ Last \in staged /\ pc = "cleanup" /\ Home[Last] \in Dirs
      BY <2>4, LastOfLeft, ArtifactAssumption DEF Cleanup, TypeOK
    <3>2. UNCHANGED <<pc, touched, staged, temp, created, reported>> /\ left' = left \ {Last}
      BY <2>4 DEF Cleanup, Mine
    <3>3. disk' = IF disk["temp"][Last] = temp[Last] THEN Put("temp", Last, NoFile) ELSE disk
      BY <2>4 DEF Cleanup
    <3>4. \A a \in Artifacts, s \in Slots :
            disk'[s][a] = IF s = "temp" /\ a = Last /\ disk["temp"][Last] = temp[Last] THEN NoFile ELSE disk[s][a]
      BY <3>1, <3>3, PutAt DEF Slots
    <3>5. ASSUME NEW a \in Artifacts, a \notin touched PROVE Temporaries(a)'
      <4>1. Temporaries(a)
        BY <3>5 DEF Litter
      <4>. QED BY <3>1, <3>2, <3>4, <4>1 DEF Temporaries, Slots
    <3>6. dir' = IF Last \in created /\ Empty(Home[Last], disk') THEN [dir EXCEPT ![Home[Last]] = 0] ELSE dir
      BY <2>4 DEF Cleanup
    <3>7. ASSUME NEW a \in Artifacts, Quiet(a) PROVE Directory(a)'
      <4>1. Directory(a) /\ Home[a] \in Dirs
        BY <3>7, ArtifactAssumption DEF Litter
      <4>2. CASE a \notin created \/ a \in left'
        BY <3>1, <3>2, <4>1, <4>2 DEF Directory
      <4>3. CASE a = Last /\ a \in created
        BY <3>1, <3>2, <3>6, <4>1, <4>3 DEF Directory, TypeOK
      <4>4. CASE a # Last /\ a \in created /\ a \notin left
        <5>1. a \in staged /\ Last < a
          BY <3>1, <4>4 DEF Phases, TypeOK
        <5>2. Home[Last] # Home[a]
          BY <3>1, <4>1, <4>4, <5>1 DEF Directory, TypeOK, Artifacts
        <5>3. Empty(Home[a], disk') <=> Empty(Home[a], disk)
          BY <3>4, <5>2 DEF Empty
        <5>4. dir'[Home[a]] = dir[Home[a]]
          BY <3>6, <4>1, <5>2 DEF TypeOK
        <5>. QED BY <3>1, <3>2, <4>1, <4>4, <5>3, <5>4 DEF Directory
      <4>. QED BY <3>2, <4>2, <4>3, <4>4
    <3>. QED BY <3>2, <3>5, <3>7 DEF Litter, Quiet
  <2>5. ASSUME UNCHANGED <<dir, touched, staged, temp, created>>,
               pc \notin {"cleanup", "returned"}, pc' \notin {"cleanup", "returned"}, reported \subseteq reported',
               \A a \in Artifacts : disk'["temp"][a] \in {NoFile, disk["temp"][a]},
               \A a \in Artifacts : disk'["undo"][a] = disk["undo"][a] \/ a \in reported'
        PROVE Litter'
    <3>1. ASSUME NEW a \in Artifacts, a \notin touched PROVE Temporaries(a)'
      <4>1. Temporaries(a)
        BY <3>1 DEF Litter
      <4>. QED BY <2>5, <4>1 DEF Temporaries
    <3>2. ASSUME NEW a \in Artifacts, Quiet(a) PROVE Directory(a)'
      <4>1. Directory(a)
        BY <3>2 DEF Litter
      <4>. QED BY <2>5, <4>1 DEF Directory
    <3>. QED BY <2>5, <3>1, <3>2 DEF Litter, Quiet
  <2>6. CASE Replace
    <3>1. First \in Artifacts
      BY <2>6, FirstOfLeft DEF Replace, TypeOK
    <3>2. \/ disk' = disk
          \/ disk' = Put("file", First, NoFile)
          \/ disk' = [disk EXCEPT !["file"][First] = disk["temp"][First], !["temp"][First] = NoFile]
      BY <2>6 DEF Replace
    <3>3. \A a \in Artifacts : disk'["temp"][a] \in {NoFile, disk["temp"][a]} /\ disk'["undo"][a] = disk["undo"][a]
      BY <3>1, <3>2 DEF Put, TypeOK, Slots
    <3>4. pc = "replace" /\ pc' \in {"commit", "verify", "rollback"}
      BY <2>6 DEF Replace, Done, CommitFails
    <3>. QED BY <2>5, <2>6, <3>1, <3>3, <3>4 DEF Replace, Mine
  <2>7. CASE Undo
    <3>1. Last \in Artifacts
      BY <2>7, LastOfLeft DEF Undo, TypeOK
    <3>2. PICK old : \/ disk' \in {disk, Put("file", Last, old)} /\ reported \subseteq reported'
                     \/ disk' = Put("undo", Last, old) /\ reported' = reported \cup {Last}
      BY <2>7 DEF Undo, Report
    <3>3. \A a \in Artifacts : disk'["temp"][a] = disk["temp"][a]
      BY <3>1, <3>2, PutAt DEF Slots
    <3>4. pc = "undo" /\ pc' = "rollback" /\ reported \subseteq reported'
      BY <2>7, <3>2 DEF Undo, Undone, Report
    <3>5. UNCHANGED <<dir, touched, staged, temp, created>>
      BY <2>7 DEF Undo, Mine
    <3>6. \A a \in Artifacts : disk'["temp"][a] \in {NoFile, disk["temp"][a]}
      BY <3>3
    <3>7. \A a \in Artifacts : disk'["undo"][a] = disk["undo"][a] \/ a \in reported'
      BY <3>1, <3>2, PutAt DEF Slots
    <3>8. pc \notin {"cleanup", "returned"} /\ pc' \notin {"cleanup", "returned"}
      BY <3>4
    <3>. QED BY <2>5, <3>4, <3>5, <3>6, <3>7, <3>8
  <2>8. CASE Check \/ Verify \/ Rollback
    <3>1. disk' = disk /\ UNCHANGED <<dir, touched, staged, temp, created>> /\ reported \subseteq reported'
      BY <2>8 DEF Check, Verify, Rollback, Report, Kept, Mine
    <3>2. pc \notin {"cleanup", "returned"} /\ pc' \notin {"cleanup", "returned"}
      BY <2>8 DEF Check, Verify, Rollback, Report, Undone, Done, CommitFails
    <3>. QED BY <2>5, <3>1, <3>2
  <2>9. CASE Begin \/ StageFails \/ StageEnds \/ CommitEnds \/ RollbackEnds \/ Return
    <3>1. UNCHANGED <<disk, dir, touched, staged, temp, created, reported>>
      BY <2>9 DEF Begin, StageFails, StageEnds, CommitEnds, RollbackEnds, Return, Kept, Mine
    <3>2. pc \notin {"cleanup", "returned"} /\ pc' \in {"cleanup", "returned"} => left' = staged
      BY <2>9 DEF Begin, StageFails, Abandon, StageEnds, CommitEnds, RollbackEnds, Return, ToClean
    <3>3. pc \in {"cleanup", "returned"} => pc' = "returned" /\ left' = left /\ left = {}
      BY <2>9 DEF Begin, StageFails, StageEnds, CommitEnds, RollbackEnds, Return
    <3>4. ASSUME NEW a \in Artifacts, a \notin touched PROVE Temporaries(a)'
      <4>1. Temporaries(a)
        BY <3>4 DEF Litter
      <4>. QED BY <3>1, <3>2, <3>3, <4>1 DEF Temporaries
    <3>5. ASSUME NEW a \in Artifacts, Quiet(a) PROVE Directory(a)'
      <4>1. Directory(a) /\ created \subseteq staged
        BY <3>5 DEF Litter, TypeOK
      <4>. QED BY <3>1, <3>2, <3>3, <4>1 DEF Directory
    <3>. QED BY <3>1, <3>4, <3>5 DEF Litter, Quiet
  <2>. QED BY <2>1, <2>2, <2>3, <2>4, <2>6, <2>7, <2>8, <2>9 DEF Next, Persist, Over
<1>. QED BY <1>1, <1>2

\* For any number of artifacts and directories, any changes by others and any failures
\* of the calls that stage, commit and roll back (cleanups do not fail): a success leaves every artifact as requested, a failure as it was before,
\* but where the error says otherwise; and no temporary or empty directory stays.
THEOREM AsOneTransaction == Spec => []Transaction
<1>1. TypeOK /\ Phases /\ Courses => AllOrNothing
  <2>. SUFFICES ASSUME TypeOK, Phases, Courses, pc = "returned", NEW a \in Artifacts \ touched
                PROVE  IF result = "ok" THEN Holds(File(a), wanted[a])
                       ELSE a \in reported \cup unverified \/ Same(File(a), before[a])
    BY DEF AllOrNothing
  <2>1. Course(a)
    BY DEF Courses
  <2>. QED BY <2>1 DEF Course, Standing, Phases, TypeOK, Same
<1>2. TypeOK /\ Phases /\ Litter => NothingLeft
  <2>. SUFFICES ASSUME TypeOK, Phases, Litter, pc = "returned", NEW a \in Artifacts \ (touched \cup reported)
                PROVE  /\ disk["temp"][a] = NoFile /\ disk["undo"][a] = NoFile
                       /\ a \in created /\ dir[Home[a]] # 0 =>
                            (~Empty(Home[a], disk) \/ \E b \in touched : Home[b] = Home[a])
    BY DEF NothingLeft
  <2>1. Temporaries(a) /\ left = {}
    BY DEF Litter, Phases
  <2>2. Quiet(a) => Directory(a)
    BY DEF Litter
  <2>. QED BY <2>1, <2>2 DEF Temporaries, Directory, Quiet
<1>. QED BY <1>1, <1>2, TypeInductive, PhasesInductive, CoursesInductive, LitterInductive, PTL DEF Spec, Transaction
===============================================================================
