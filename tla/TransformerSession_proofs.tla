---------------------- MODULE TransformerSession_proofs ----------------------
(***************************************************************************)
(* For any files, edits and builds: the tracker of a worker's session      *)
(* never believes that the worker holds a newer text than it does, and     *)
(* answers are about the texts the request was for.                        *)
(***************************************************************************)
EXTENDS TransformerSession, TLAPS

USE DEF tree, tracker, worker, build, request

-----------------------------------------------------------------------------
(* Types                                                                   *)

TextTable == [Files -> Texts \cup {NoText}]
Known == 0 .. edits + 1

\* The types, the bound on versions, and where a request is made of nothing yet.
Types ==
  /\ TypeOK
  /\ edits \in Nat /\ edits <= MaxEdits
  /\ \A f \in compile : prog[f] # 0

\* What the first of two calls on a file found is a version from disk.
Probed == \A f \in Files : probe[f] # NoText => probe[f].of \in Known /\ ~probe[f].native

LEMMA NothingTyped == Nothing \in TextTable /\ Held(Nothing) = {}
BY DEF Nothing, TextTable, Held

LEMMA TextOf == ASSUME NEW t \in Texts
                PROVE  t # NoText /\ t.of \in 1 .. MaxEdits + 1 /\ t.native \in BOOLEAN
BY NoTextAssumption, SessionAssumption DEF Texts, Versions

LEMMA PlainText == ASSUME NEW v \in 1 .. MaxEdits + 1
                   PROVE  /\ Plain(v) \in Texts /\ Plain(v).of = v /\ ~Plain(v).native
                          /\ Native(v) \in Texts
BY SessionAssumption DEF Plain, Native, Texts, Versions

LEMMA KnownVersion == ASSUME Types, NEW v \in Known, v # 0 PROVE v \in 1 .. MaxEdits + 1
BY SessionAssumption DEF Types, Known

LEMMA OverTyped == ASSUME NEW g \in TextTable, NEW h \in TextTable
                   PROVE  Over(g, h) \in TextTable
BY DEF Over, TextTable

LEMMA NewSessionTyped == ASSUME NEW state \in {"none", "live", "dead"}, NewSession(state), edits' \in Nat
                         PROVE  /\ session' \in {"none", "live", "dead"}
                                /\ stamps' \in [Files -> 0 .. edits' + 1] /\ overlaid' \subseteq Files
                                /\ override' \in TextTable
                                /\ cached' \in [Files -> 0 .. edits' + 1]
                                /\ configured' \subseteq Files /\ programRequired' \in BOOLEAN
                                /\ slipped' \subseteq Files
<1>1. /\ session' = state /\ overlaid' = {} /\ override' = Nothing /\ configured' = {}
      /\ programRequired' = FALSE /\ slipped' = {}
  BY DEF NewSession
<1>2. \A e \in Nat : [f \in Files |-> 0] \in [Files -> 0 .. e + 1]
  <2>1. \A e \in Nat : 0 \in 0 .. e + 1
    OBVIOUS
  <2>. QED BY <2>1
<1>3. stamps' \in [Files -> 0 .. edits' + 1] /\ cached' \in [Files -> 0 .. edits' + 1]
  BY <1>2 DEF NewSession
<1>. QED BY <1>1, <1>3, NothingTyped

LEMMA NoRequestTyped == ASSUME NoRequest
                        PROVE  /\ overlays' \in TextTable /\ fresh' \in BOOLEAN /\ skip' \in BOOLEAN
                               /\ probe' \in TextTable /\ changed' \in TextTable
BY NothingTyped DEF NoRequest

\* What EndBuild leaves, whatever becomes of the session.
LEMMA EndBuildTyped ==
  ASSUME Types, EndBuild, session' \in {"none", "live", "dead"},
         stamps' \in [Files -> Known], overlaid' \subseteq Files, override' \in TextTable,
         cached' \in [Files -> Known], configured' \subseteq Files, programRequired' \in BOOLEAN,
         slipped' \subseteq Files
  PROVE  Types'
<1>1. UNCHANGED <<disk, edits, host, builds>> /\ prog' = [f \in Files |-> 0] /\ compile' = {}
      /\ pc' = "idle" /\ attempt' = 0 /\ gone' = {}
      /\ scanned' = FALSE /\ cancelled' = FALSE /\ suffix' = FALSE /\ more' = FALSE
      /\ used' = Nothing /\ NoRequest
  BY DEF EndBuild
<1>2. prog' \in [Files -> 0 .. edits' + 1] /\ disk' \in [Files -> 0 .. edits' + 1]
  BY <1>1 DEF Types, TypeOK
<1>3. used' \in TextTable
  BY <1>1, NothingTyped
<1>. QED BY <1>1, <1>2, <1>3, NoRequestTyped DEF Types, TypeOK, Known, TextTable

LEMMA DiskText == ASSUME Types, NEW f \in Files, disk[f] # 0
                  PROVE  Plain(disk[f]) \in Texts /\ Plain(disk[f]).of = disk[f] /\ ~Plain(disk[f]).native
BY KnownVersion, PlainText DEF Types, TypeOK, Known

LEMMA OverriddenTyped == ASSUME Types PROVE Overridden \in TextTable
BY OverTyped DEF Types, TypeOK, Overridden, TextTable

LEMMA TypesInductive == ASSUME Types, Probed, [Next]_vars PROVE Types'
<1>. USE DEF Types, TypeOK
<1>1. ASSUME NEW f \in Files, NEW v \in {0, edits + 2}, Saved(f, v) PROVE Types'
  <2>1. /\ edits' = edits + 1 /\ edits' <= MaxEdits /\ edits' \in Nat
        /\ UNCHANGED <<host, tracker, worker, pc, build, scanned, attempt, cancelled,
                       request, used, gone, slipped>>
    BY <1>1, SessionAssumption DEF Saved
  <2>2. \A n \in 0 .. edits + 1 : n \in 0 .. edits' + 1
    BY <2>1
  <2>3. disk' \in [Files -> 0 .. edits' + 1]
    BY <1>1, <2>1, <2>2 DEF Saved
  <2>. QED BY <2>1, <2>2, <2>3
<1>2. CASE StartBuild
  <2>1. \A f \in compile' : prog'[f] # 0
    BY <1>2 DEF StartBuild, Present
  <2>. QED BY <1>2, <2>1 DEF StartBuild, SameSession, Present
<1>3. CASE Open
  BY <1>3, NewSessionTyped DEF Open, SameSession, TextTable
<1>4. CASE SpawnFails
  <2>1. EndBuild /\ NewSession("none") /\ UNCHANGED edits
    BY <1>4 DEF SpawnFails, EndBuild
  <2>. QED BY <2>1, NewSessionTyped, EndBuildTyped DEF Known
<1>5. CASE Warm
  BY <1>5, NewSessionTyped DEF Warm, TextTable
<1>6. CASE Validate
  <2>1. CASE host = "worker" /\ \E state \in {"live", "dead", "none"} : NewSession(state)
    BY <1>6, <2>1, NewSessionTyped DEF Validate, TextTable
  <2>2. CASE /\ configured' = Present
             /\ cached' = IF configured = Present THEN cached ELSE [f \in Files |-> 0]
             /\ UNCHANGED <<tracker, override, programRequired, slipped>>
    <3>1. cached' \in [Files -> 0 .. edits + 1] /\ Present \subseteq Files
      BY <2>2 DEF Present
    <3>. QED BY <1>6, <2>2, <3>1 DEF Validate
  <2>. QED BY <1>6, <2>1, <2>2 DEF Validate
<1>7. CASE Merge
  <2>1. \A f \in compile : Native(prog[f]) \in Texts /\ Plain(prog[f]) \in Texts
    BY KnownVersion, PlainText DEF Known
  <2>2. overlays' \in TextTable
    BY <1>7, <2>1 DEF Merge, TextTable
  <2>3. SkipScan \in BOOLEAN /\ (Stamped = {}) \in BOOLEAN
    BY DEF SkipScan
  <2>. QED BY <1>7, <2>2, <2>3 DEF Merge, SameSession, TextTable
<1>8. CASE RevertRead
  <2>1. probe' \in TextTable
    BY <1>8, DiskText DEF RevertRead, TextTable, Present
  <2>2. gone' \subseteq Files
    BY <1>8 DEF RevertRead, Dropped
  <2>. QED BY <1>8, <2>1, <2>2 DEF RevertRead, SameSession, TextTable
<1>9. CASE RevertStat
  <2>1. changed' \in TextTable
    BY <1>9, OverTyped DEF RevertStat, TextTable
  <2>2. stamps' \in [Files -> 0 .. edits + 1] /\ overlaid' \subseteq Files /\ slipped' \subseteq Files
        /\ gone' \subseteq Files
    BY <1>9 DEF RevertStat, Held
  <2>3. probe' \in TextTable
    BY <1>9, NothingTyped DEF RevertStat
  <2>. QED BY <1>9, <2>1, <2>2, <2>3 DEF RevertStat, TextTable
<1>10. CASE ScanStat
  <2>1. probe' \in TextTable
    <3>1. \A f \in Moved : Plain(disk[f]) \in Texts
      BY DiskText DEF Moved, Present
    <3>. QED BY <1>10, <3>1 DEF ScanStat, TextTable
  <2>2. stamps' \in [Files -> 0 .. edits + 1] /\ slipped' \subseteq Files /\ gone' \subseteq Files
    BY <1>10 DEF ScanStat, Moved, Present, Scanned
  <2>3. pc' \in {"send", "read"}
    BY <1>10 DEF ScanStat
  <2>. QED BY <1>10, <2>1, <2>2, <2>3 DEF ScanStat, TextTable
<1>11. CASE ScanRead
  <2>1. \A f \in Held(probe) : Plain(disk[f]) \in Texts
    BY <1>11, DiskText DEF ScanRead, AllRead, Present
  <2>2. [f \in Files |-> IF probe[f] # NoText THEN Plain(disk[f]) ELSE NoText] \in TextTable
    BY <2>1 DEF TextTable, Held
  <2>3. changed' \in TextTable
    BY <1>11, <2>2, OverTyped DEF ScanRead, TextTable
  <2>4. stamps' \in [Files -> 0 .. edits + 1]
    <3>1. \A f \in Files : probe[f] # NoText => probe[f].of \in 0 .. edits + 1
      BY DEF Probed, Known
    <3>. QED BY <1>11, <3>1 DEF ScanRead
  <2>5. probe' \in TextTable
    BY <1>11, NothingTyped DEF ScanRead
  <2>. QED BY <1>11, <2>3, <2>4, <2>5 DEF ScanRead, TextTable
<1>12. CASE ScanFails
  <2>1. /\ UNCHANGED <<session, overlaid, worker>> /\ EndBuild
        /\ slipped' \subseteq Files /\ stamps' \in [Files -> 0 .. edits + 1]
    <3>1. PICK before \in SUBSET Held(probe) :
            /\ stamps' = [f \in Files |-> IF f \in before THEN probe[f].of ELSE stamps[f]]
            /\ slipped' = slipped \cup before \cup (Held(changed) \ Held(overlays))
      BY <1>12 DEF ScanFails
    <3>2. \A f \in before : probe[f].of \in 0 .. edits + 1
      BY DEF Probed, Known, Held
    <3>3. slipped' \subseteq Files
      BY <3>1 DEF Held
    <3>. QED BY <1>12, <3>1, <3>2, <3>3 DEF ScanFails
  <2>. QED BY <2>1, EndBuildTyped DEF Known, TextTable
<1>13. CASE Answer
  <2>1. used' \in TextTable /\ cached' \in [Files -> 0 .. edits + 1] /\ configured' \subseteq Files
        /\ programRequired' \in BOOLEAN
    <3>1. CASE Programless
      <4>1. \A f \in compile : Overridden[f] # NoText \/ Plain(disk[f]) \in Texts
        BY <3>1, DiskText DEF Programless, Held, Present
      <4>. QED BY <3>1, <4>1, OverriddenTyped DEF Programless, TextTable
    <3>2. CASE WithProgram
      <4>. DEFINE kept == [f \in Files |-> IF configured = Present /\ cached[f] # 0 THEN cached[f] ELSE disk[f]]
      <4>1. PICK loaded \in SUBSET (Held(Overridden) \cup Present) :
              /\ used' = [f \in Files |->
                   IF f \notin loaded THEN NoText
                   ELSE IF Overridden[f] # NoText THEN Overridden[f] ELSE Plain(kept[f])]
              /\ cached' = [f \in Files |->
                   IF f \in loaded /\ Overridden[f] = NoText THEN kept[f] ELSE 0]
              /\ configured' = Present /\ programRequired' = TRUE
        BY <3>2 DEF WithProgram
      <4>2. kept \in [Files -> 0 .. edits + 1]
        OBVIOUS
      <4>3. \A f \in loaded : Overridden[f] = NoText => kept[f] # 0
        BY DEF Held, Present
      <4>. HIDE DEF kept
      <4>4. \A f \in loaded : f \in Files /\ (Overridden[f] = NoText => Plain(kept[f]) \in Texts)
        <5>1. loaded \subseteq Files
          BY DEF Held, Present
        <5>. QED BY <4>2, <4>3, <5>1, KnownVersion, PlainText DEF Known
      <4>5. used' \in TextTable
        BY <4>1, <4>4, OverriddenTyped DEF TextTable
      <4>6. cached' \in [Files -> 0 .. edits + 1]
        BY <4>1, <4>2
      <4>. QED BY <4>1, <4>5, <4>6 DEF Present
    <3>. QED BY <1>13, <3>1, <3>2 DEF Answer
  <2>2. override' \in TextTable
    BY <1>13, OverriddenTyped DEF Answer
  <2>. QED BY <1>13, <2>1, <2>2 DEF Answer, TextTable
<1>14. ASSUME NEW failure \in {"transport", "cancel", "deadline"}, RoundTripFails(failure) PROVE Types'
  <2>1. NewSession("none") /\ UNCHANGED edits
    BY <1>14 DEF RoundTripFails, EndBuild
  <2>2. CASE MayRetry(failure)
    <3>1. NoRequest /\ attempt' = 1 /\ pc' = "open" /\ cancelled' \in BOOLEAN
          /\ UNCHANGED <<tree, host, build, scanned, used, gone>>
      BY <1>14, <2>2 DEF RoundTripFails
    <3>. QED BY <2>1, <3>1, NewSessionTyped, NoRequestTyped DEF TextTable
  <2>3. CASE ~MayRetry(failure)
    BY <1>14, <2>1, <2>3, NewSessionTyped, EndBuildTyped DEF RoundTripFails, Known
  <2>. QED BY <2>2, <2>3
<1>15. CASE AnswerRejected
  <2>1. EndBuild /\ UNCHANGED edits
    BY <1>15 DEF AnswerRejected, EndBuild
  <2>2. CASE NewSession("dead")
    BY <2>1, <2>2, NewSessionTyped, EndBuildTyped DEF Known
  <2>3. CASE SameSession
    BY <2>1, <2>3, EndBuildTyped DEF SameSession, Known, TextTable
  <2>. QED BY <1>15, <2>2, <2>3 DEF AnswerRejected
<1>16. CASE Accept
  <2>1. CASE more
    <3>1. used' = Nothing /\ NoRequest
      BY <1>16, <2>1 DEF Accept
    <3>. QED BY <1>16, <2>1, <3>1, NoRequestTyped, NothingTyped DEF Accept, SameSession, TextTable
  <2>2. CASE ~more
    BY <1>16, <2>2, EndBuildTyped DEF Accept, SameSession, EndBuild, Known, TextTable
  <2>. QED BY <2>1, <2>2
<1>17. CASE UNCHANGED vars
  BY <1>17 DEF vars
<1>18. 0 \in {0, edits + 2} /\ edits + 2 \in {0, edits + 2}
  OBVIOUS
<1>. QED
  BY <1>1, <1>2, <1>3, <1>4, <1>5, <1>6, <1>7, <1>8, <1>9, <1>10, <1>11, <1>12, <1>13, <1>14, <1>15,
     <1>16, <1>17, <1>18
  DEF Next, Step, Edit, Remove

LEMMA TypesAtInit == ASSUME Init PROVE Types
<1>1. \A n \in {0, 1} : [f \in Files |-> n] \in [Files -> 0 .. 0 + 1]
  OBVIOUS
<1>2. edits = 0 /\ edits \in Nat /\ edits <= MaxEdits
  BY SessionAssumption DEF Init
<1>3. TypeOK
  BY <1>1, <1>2, NothingTyped DEF Init, TypeOK, TextTable
<1>. QED BY <1>2, <1>3 DEF Init, Types

LEMMA ProbedInductive == ASSUME Types, Types', Probed, [Next]_vars PROVE Probed'
<1>1. CASE RevertRead \/ ScanStat
  <2>1. \A f \in Files : probe'[f] \in {NoText, probe[f], Plain(disk[f])}
    BY <1>1 DEF RevertRead, ScanStat
  <2>2. \A f \in Files : probe'[f] = Plain(disk[f]) /\ probe'[f] # NoText /\ probe'[f] # probe[f]
          => disk[f] \in Known
    BY DEF Types, TypeOK, Known
  <2>3. \A f \in Files : Plain(disk[f]).of = disk[f] /\ ~Plain(disk[f]).native
    BY DEF Plain
  <2>4. edits' = edits
    BY <1>1 DEF RevertRead, ScanStat
  <2>. QED BY <2>1, <2>2, <2>3, <2>4 DEF Probed, Known, Types, TypeOK
<1>2. CASE probe' = Nothing
  BY <1>2 DEF Nothing, Probed
<1>3. CASE probe' = probe
  <2>1. edits' \in {edits, edits + 1}
    BY DEF Next, Step, Edit, Remove, Saved, vars, StartBuild, Open, SpawnFails, Warm, Validate, Merge,
           RevertRead, RevertStat, ScanStat, ScanRead, ScanFails, Answer, RoundTripFails,
           AnswerRejected, Accept, EndBuild
  <2>2. edits \in Nat /\ edits' \in Nat /\ edits <= edits'
    BY <2>1 DEF Types
  <2>3. \A a, b \in Nat : a <= b => 0 .. a + 1 \subseteq 0 .. b + 1
    OBVIOUS
  <2>4. Known \subseteq Known'
    BY <2>2, <2>3 DEF Known
  <2>. QED BY <1>3, <2>4 DEF Probed
<1>4. RevertRead \/ ScanStat \/ probe' = Nothing \/ probe' = probe
  BY DEF Next, Step, Edit, Remove, Saved, vars, StartBuild, Open, SpawnFails, Warm, Validate, Merge,
         RevertStat, ScanRead, ScanFails, Answer, RoundTripFails, AnswerRejected, Accept,
         EndBuild, NoRequest
<1>. QED BY <1>1, <1>2, <1>3, <1>4

\* Every variable keeps its type; stamps, overrides and reads are of versions that
\* have existed.
THEOREM TypeCorrect == Spec => []TypeOK
<1>1. Types => TypeOK
  BY DEF Types
<1>2. Init => Probed
  BY DEF Init, Probed, Nothing
<1>. QED BY <1>1, <1>2, TypesAtInit, TypesInductive, ProbedInductive, PTL DEF Spec

-----------------------------------------------------------------------------
(* Versions and requests                                                   *)

\* Nobody has seen a version newer than the one on disk.
NotAhead(f) ==
  disk[f] # 0 => /\ stamps[f] <= disk[f] /\ prog[f] <= disk[f]
                 /\ probe[f] # NoText => probe[f].of <= disk[f]
Monotone == \A f \in Files : NotAhead(f)

LEMMA MonotoneInductive == ASSUME Types, Types', Probed, Monotone, [Next]_vars PROVE Monotone'
<1>. USE DEF Monotone, NotAhead
<1>0. /\ \A f \in Files : Nothing[f] = NoText /\ Plain(disk[f]).of = disk[f]
      /\ \A f \in Files : /\ disk[f] \in Nat /\ stamps[f] \in Nat /\ prog[f] \in Nat
                          /\ stamps[f] <= edits + 1 /\ prog[f] <= edits + 1
                          /\ probe[f] # NoText => probe[f].of \in Nat /\ probe[f].of <= edits + 1
      /\ edits \in Nat
  BY DEF Nothing, Plain, Types, TypeOK, Probed, Known
<1>1. ASSUME NEW f \in Files, NEW v \in {0, edits + 2}, Saved(f, v) PROVE Monotone'
  <2>1. disk' = [disk EXCEPT ![f] = v] /\ UNCHANGED <<stamps, prog, probe>> /\ disk \in [Files -> Known]
    BY <1>1 DEF Saved, Types, TypeOK, Known
  <2>. QED BY <1>0, <2>1
<1>2. CASE StartBuild
  <2>1. prog' = disk /\ UNCHANGED <<disk, stamps, probe>>
    BY <1>2 DEF StartBuild, SameSession
  <2>. QED BY <1>0, <2>1
<1>3. ASSUME NEW state, NewSession(state), UNCHANGED disk, prog' \in {prog, [f \in Files |-> 0]},
             probe' \in {probe, Nothing}
      PROVE  Monotone'
  <2>1. stamps' = [f \in Files |-> 0]
    BY <1>3 DEF NewSession
  <2>. QED BY <1>0, <1>3, <2>1
<1>4. ASSUME UNCHANGED <<disk, stamps>>, prog' \in {prog, [f \in Files |-> 0]}, probe' \in {probe, Nothing}
      PROVE  Monotone'
  BY <1>0, <1>4
<1>5. CASE RevertRead
  <2>1. /\ UNCHANGED <<disk, stamps, prog>>
        /\ probe' = [f \in Files |-> IF f \in Dropped \cap Present THEN Plain(disk[f]) ELSE NoText]
    BY <1>5 DEF RevertRead, SameSession
  <2>. QED BY <1>0, <2>1
<1>6. CASE RevertStat
  <2>1. /\ UNCHANGED <<disk, prog>> /\ probe' = Nothing
        /\ \A f \in Files : stamps'[f] \in {disk[f], 0, stamps[f]}
    BY <1>6 DEF RevertStat
  <2>. QED BY <1>0, <2>1
<1>7. CASE ScanStat
  <2>1. /\ UNCHANGED <<disk, prog>>
        /\ \A f \in Files : /\ stamps'[f] \in {disk[f], stamps[f]}
                            /\ probe'[f] \in {NoText, probe[f], Plain(disk[f])}
    BY <1>7 DEF ScanStat
  <2>. QED BY <1>0, <2>1
<1>8. CASE ScanRead
  <2>1. /\ UNCHANGED <<disk, prog>> /\ probe' = Nothing
        /\ \A f \in Files : stamps'[f] = IF probe[f] # NoText THEN probe[f].of ELSE stamps[f]
    BY <1>8 DEF ScanRead
  <2>. QED BY <1>0, <2>1
<1>9. CASE ScanFails
  <2>1. /\ UNCHANGED disk /\ probe' = Nothing /\ prog' = [f \in Files |-> 0]
    BY <1>9 DEF ScanFails, EndBuild, NoRequest
  <2>2. \A f \in Files : stamps'[f] = stamps[f] \/ (probe[f] # NoText /\ stamps'[f] = probe[f].of)
    BY <1>9 DEF ScanFails, Held
  <2>. QED BY <1>0, <2>1, <2>2
<1>10. CASE Open \/ SpawnFails \/ Warm \/ Validate \/ Merge \/ Answer \/ AnswerRejected \/ Accept
            \/ (\E failure \in {"transport", "cancel", "deadline"} : RoundTripFails(failure))
  <2>1. UNCHANGED disk /\ prog' \in {prog, [f \in Files |-> 0]} /\ probe' \in {probe, Nothing}
    BY <1>10 DEF Open, SpawnFails, Warm, Validate, Merge, Answer, AnswerRejected, Accept, RoundTripFails,
                 EndBuild, NoRequest
  <2>2. stamps' = stamps \/ \E state \in {"none", "live", "dead"} : NewSession(state)
    BY <1>10 DEF Open, SpawnFails, Warm, Validate, Merge, Answer, AnswerRejected, Accept, RoundTripFails,
                 SameSession
  <2>. QED BY <1>3, <1>4, <2>1, <2>2
<1>11. CASE UNCHANGED vars
  BY <1>4, <1>11 DEF vars
<1>12. 0 \in {0, edits + 2} /\ edits + 2 \in {0, edits + 2}
  OBVIOUS
<1>. QED BY <1>1, <1>2, <1>5, <1>6, <1>7, <1>8, <1>9, <1>10, <1>11, <1>12 DEF Next, Step, Edit, Remove

\* How far a request is made, in each stage of it.
Making ==
  /\ pc \notin {"stat", "read"} => probe = Nothing
  /\ pc \in {"idle", "open", "merge"} => overlays = Nothing
  /\ pc \notin {"scan", "read", "send", "answered"} => changed = Nothing
  /\ pc = "idle" => ~scanned
  /\ pc = "stat" => Held(probe) \subseteq Dropped /\ Dropped \ Held(probe) \subseteq gone
  /\ pc = "read" => Held(probe) \subseteq Scanned
  /\ pc \in {"scan", "read", "send", "answered"} =>
       /\ overlaid = Held(overlays)
       /\ \A f \in Held(overlays) : changed[f] = overlays[f]
       /\ \A f \in Held(changed) \ Held(overlays) : ~changed[f].native
  /\ pc = "answered" => \A f \in Held(changed) : override[f] = changed[f]

LEMMA EndBuildMaking == ASSUME EndBuild PROVE Making'
BY DEF EndBuild, NoRequest, Making

LEMMA MakingInductive == ASSUME Types, Types', Probed, Making, [Next]_vars PROVE Making'
<1>. USE DEF Making
<1>1. ASSUME NEW f \in Files, NEW v, Saved(f, v) PROVE Making'
  BY <1>1 DEF Saved, Dropped, Scanned
<1>2. CASE StartBuild \/ Open \/ Warm \/ Validate
  BY <1>2 DEF StartBuild, Open, Warm, Validate, SameSession
<1>3. CASE Merge
  BY <1>3 DEF Merge, SameSession
<1>4. CASE RevertRead
  <2>1. /\ pc = "revert" /\ pc' = "stat" /\ UNCHANGED <<overlaid, overlays, changed, scanned>>
        /\ gone' = gone \cup (Dropped \ Present)
        /\ probe' = [f \in Files |-> IF f \in Dropped \cap Present THEN Plain(disk[f]) ELSE NoText]
    BY <1>4 DEF RevertRead, SameSession
  <2>2. Dropped' = Dropped /\ Dropped \subseteq Files
    BY <2>1 DEF Dropped, Types, TypeOK, Held
  <2>3. \A f \in Present : Plain(disk[f]) # NoText
    BY DiskText, TextOf DEF Present
  <2>4. Held(probe') = Dropped \cap Present
    BY <2>1, <2>2, <2>3 DEF Held
  <2>. QED BY <2>1, <2>2, <2>4 DEF Held
<1>5. CASE RevertStat
  <2>. DEFINE sent == Held(probe) \cap Present
              texts == [f \in Files |-> IF f \in sent THEN probe[f] ELSE NoText]
  <2>1. /\ pc = "stat" /\ pc' \in {"send", "scan"} /\ probe' = Nothing /\ overlaid' = Held(overlays)
        /\ UNCHANGED <<overlays, scanned>>
        /\ changed' = Over(overlays, texts)
    BY <1>5 DEF RevertStat
  <2>2. \A f \in Files : /\ overlays[f] # NoText => changed'[f] = overlays[f]
                         /\ overlays[f] = NoText => changed'[f] \in {NoText, probe[f]}
    BY <2>1 DEF Over
  <2>3. \A f \in Files : probe[f] # NoText => ~probe[f].native
    BY DEF Probed
  <2>. QED BY <2>1, <2>2, <2>3 DEF Held
<1>6. CASE ScanStat
  <2>1. /\ pc = "scan" /\ pc' \in {"send", "read"} /\ UNCHANGED <<overlaid, overlays, changed, scanned, prog>>
        /\ (pc' = "send" => probe' = probe)
        /\ \A f \in Files : probe'[f] # NoText => probe[f] # NoText \/ f \in Moved
    BY <1>6 DEF ScanStat
  <2>2. Scanned' = Scanned /\ Moved \subseteq Scanned /\ Held(probe) = {} /\ Held(overlays') = Held(overlays)
    BY <2>1, NothingTyped DEF Scanned, Moved
  <2>. QED BY <2>1, <2>2 DEF Held
<1>7. CASE ScanRead
  <2>1. /\ pc = "read" /\ pc' = "send" /\ UNCHANGED <<overlaid, overlays, scanned>> /\ probe' = Nothing
        /\ \A f \in Files : changed'[f] = IF probe[f] # NoText /\ Plain(disk[f]) # NoText
                                          THEN Plain(disk[f]) ELSE changed[f]
    BY <1>7 DEF ScanRead, Over
  <2>2. \A f \in Files : probe[f] # NoText => f \notin Held(overlays)
    BY <2>1 DEF Held, Scanned
  <2>3. \A f \in Files : ~Plain(disk[f]).native
    BY DEF Plain
  <2>. QED BY <2>1, <2>2, <2>3 DEF Held
<1>8. CASE Answer
  <2>1. /\ pc = "send" /\ pc' = "answered" /\ UNCHANGED <<overlaid, overlays, changed, probe>>
        /\ override' = Over(changed, override)
    BY <1>8 DEF Answer, Overridden
  <2>2. \A f \in Held(changed) : override'[f] = changed[f]
    BY <2>1 DEF Over, Held
  <2>. QED BY <2>1, <2>2
<1>9. CASE ScanFails \/ SpawnFails \/ AnswerRejected
  BY <1>9, EndBuildMaking DEF ScanFails, SpawnFails, AnswerRejected
<1>10. CASE Accept
  BY <1>10, EndBuildMaking DEF Accept, NoRequest
<1>11. ASSUME NEW failure, RoundTripFails(failure) PROVE Making'
  BY <1>11, EndBuildMaking DEF RoundTripFails, NoRequest
<1>12. CASE UNCHANGED vars
  BY <1>12 DEF vars, Dropped, Scanned
<1>. QED BY <1>1, <1>2, <1>3, <1>4, <1>5, <1>6, <1>7, <1>8, <1>9, <1>10, <1>11, <1>12
         DEF Next, Step, Edit, Remove

-----------------------------------------------------------------------------
(* What the worker has seen                                                *)

\* HasSeen, of what the worker will hold when it has the request.
WillHaveSeen(f) ==
  /\ Overridden[f] # NoText => ~Overridden[f].native /\ Overridden[f].of >= stamps[f]
  /\ Overridden[f] = NoText /\ cached[f] # 0 => cached[f] >= stamps[f]
Honest == \A f \in Stamped \ (overlaid \cup slipped) : WillHaveSeen(f)

LEMMA NewSessionHonest == ASSUME NEW state, NewSession(state) PROVE Honest'
BY DEF NewSession, Honest, Stamped

LEMMA OverriddenOf ==
  \A f \in Files :
    /\ Overridden[f] = IF changed[f] # NoText THEN changed[f] ELSE override[f]
    /\ Overridden'[f] = IF changed'[f] # NoText THEN changed'[f] ELSE override'[f]
BY DEF Overridden, Over

LEMMA NothingOf == \A f \in Files : Nothing[f] = NoText
BY DEF Nothing

\* Whatever the worker loads, it holds what it will have seen.
LEMMA LoadsSeen ==
  ASSUME Types, Monotone, Answer, NEW f \in Files, stamps[f] # 0, WillHaveSeen(f)
  PROVE  /\ Overridden[f] = NoText /\ cached'[f] # 0 => cached'[f] >= stamps[f]
         /\ used'[f] # NoText => /\ Overridden[f] # NoText => used'[f] = Overridden[f]
                                 /\ ~used'[f].native /\ used'[f].of >= stamps[f]
<1>0. Plain(disk[f]).of = disk[f] /\ ~Plain(disk[f]).native /\ Plain(cached[f]).of = cached[f]
      /\ ~Plain(cached[f]).native
      /\ (disk[f] # 0 => disk[f] >= stamps[f])
  BY DEF Plain, Monotone, NotAhead, Types, TypeOK
<1>1. CASE Programless
  <2>1. f \in compile => f \in Held(Overridden) \cup Present
    BY <1>1 DEF Programless
  <2>2. used'[f] = (IF f \notin compile THEN NoText
                    ELSE IF Overridden[f] # NoText THEN Overridden[f] ELSE Plain(disk[f]))
        /\ cached' = cached
    BY <1>1 DEF Programless
  <2>. QED BY <1>0, <2>1, <2>2 DEF Held, Present, WillHaveSeen
<1>2. CASE WithProgram
  <2>. DEFINE kept == [g \in Files |-> IF configured = Present /\ cached[g] # 0 THEN cached[g] ELSE disk[g]]
  <2>1. PICK loaded \in SUBSET (Held(Overridden) \cup Present) :
          /\ used' = [g \in Files |->
               IF g \notin loaded THEN NoText
               ELSE IF Overridden[g] # NoText THEN Overridden[g] ELSE Plain(kept[g])]
          /\ cached' = [g \in Files |->
               IF g \in loaded /\ Overridden[g] = NoText THEN kept[g] ELSE 0]
    BY <1>2 DEF WithProgram
  <2>2. (kept[f] = cached[f] /\ cached[f] # 0) \/ kept[f] = disk[f]
    OBVIOUS
  <2>3. f \in loaded /\ Overridden[f] = NoText => disk[f] # 0
    BY DEF Held, Present
  <2>4. f \in loaded /\ Overridden[f] = NoText =>
          kept[f] >= stamps[f] /\ Plain(kept[f]).of = kept[f] /\ ~Plain(kept[f]).native
    BY <1>0, <2>2, <2>3 DEF WillHaveSeen
  <2>. HIDE DEF kept
  <2>. QED BY <2>1, <2>4 DEF WillHaveSeen
<1>. QED BY <1>1, <1>2 DEF Answer

LEMMA AnswerSeen ==
  ASSUME Types, Making, Honest, pc = "send", NEW f \in Stamped \ overlaid,
         f \notin slipped \ {g \in Held(changed) : g \in overlaid \/ changed[g].of >= stamps[g]}
  PROVE  WillHaveSeen(f)
<1>1. CASE f \notin slipped
  BY <1>1 DEF Honest
<1>2. CASE f \in slipped
  <2>1. f \in Held(changed) /\ changed[f].of >= stamps[f] /\ f \in Files
    BY <1>2 DEF Held
  <2>2. ~changed[f].native /\ changed[f] # NoText
    BY <2>1 DEF Making, Held
  <2>. QED BY <2>1, <2>2, OverriddenOf DEF WillHaveSeen
<1>. QED BY <1>1, <1>2

LEMMA HonestInductive ==
  ASSUME Types, Types', Probed, Monotone, Making, Making', Honest, [Next]_vars
  PROVE  Honest'
<1>. USE DEF Honest, WillHaveSeen, Stamped
<1>0. edits \in Nat /\ \A f \in Files : disk[f] \in Nat /\ stamps[f] \in Nat /\ cached[f] \in Nat
  BY DEF Types, TypeOK
<1>1. ASSUME UNCHANGED <<stamps, overlaid, slipped, override, changed>>,
             cached' \in {cached, [f \in Files |-> 0]}
      PROVE  Honest'
  <2>1. Overridden' = Overridden
    BY <1>1 DEF Overridden, Over
  <2>. QED BY <1>1, <2>1
<1>2. CASE (\E f \in Files : Edit(f) \/ Remove(f)) \/ StartBuild \/ Merge \/ RevertRead \/ UNCHANGED vars
  BY <1>1, <1>2 DEF Edit, Remove, Saved, StartBuild, Merge, RevertRead, SameSession, vars
<1>3. CASE Open \/ Warm \/ Validate \/ SpawnFails
  BY <1>1, <1>3, NewSessionHonest DEF Open, Warm, Validate, SpawnFails, SameSession
<1>4. CASE RevertStat
  <2>. DEFINE sent == Held(probe) \cap Present
              texts == [f \in Files |-> IF f \in sent THEN probe[f] ELSE NoText]
  <2>1. /\ pc = "stat" /\ overlaid' = Held(overlays) /\ UNCHANGED <<override, cached>>
        /\ changed' = Over(overlays, texts)
        /\ stamps' = [f \in Files |->
             IF f \in sent THEN disk[f] ELSE IF f \in Dropped THEN 0 ELSE stamps[f]]
        /\ slipped' = slipped \cup {f \in sent : disk[f] # probe[f].of}
    BY <1>4 DEF RevertStat
  <2>. SUFFICES ASSUME NEW f \in Files, stamps'[f] # 0, f \notin overlaid', f \notin slipped'
                PROVE  WillHaveSeen(f)'
    OBVIOUS
  <2>2. overlays[f] = NoText
    BY <2>1 DEF Held
  <2>3. CASE f \in sent
    <3>1. changed'[f] = probe[f] /\ probe[f] # NoText
      BY <2>1, <2>2, <2>3 DEF Over, Held
    <3>2. probe[f].of = disk[f] /\ ~probe[f].native /\ stamps'[f] = disk[f]
      BY <2>1, <2>3, <3>1 DEF Probed
    <3>. QED BY <1>0, <3>1, <3>2, OverriddenOf
  <2>4. CASE f \notin sent
    <3>1. changed'[f] = NoText /\ changed[f] = NoText
      BY <2>1, <2>2, <2>4, NothingOf DEF Over, Making
    <3>2. stamps'[f] = stamps[f] /\ f \notin Dropped /\ f \notin overlaid
      BY <2>1, <2>2, <2>4 DEF Dropped, Held
    <3>. QED BY <2>1, <3>1, <3>2, OverriddenOf
  <2>. QED BY <2>3, <2>4
<1>5. CASE ScanStat
  <2>1. UNCHANGED <<overlaid, override, cached, changed>>
    BY <1>5 DEF ScanStat
  <2>2. Overridden' = Overridden
    BY <2>1 DEF Overridden, Over
  <2>3. CASE fresh
    BY <1>5, <2>1, <2>2, <2>3 DEF ScanStat
  <2>4. CASE ~fresh
    BY <1>5, <2>1, <2>2, <2>4 DEF ScanStat
  <2>. QED BY <2>3, <2>4
<1>6. CASE ScanRead
  <2>1. /\ pc = "read" /\ AllRead /\ UNCHANGED <<overlaid, override, cached, slipped>>
        /\ \A f \in Files : changed'[f] = IF probe[f] # NoText /\ Plain(disk[f]) # NoText
                                          THEN Plain(disk[f]) ELSE changed[f]
        /\ stamps' = [f \in Files |-> IF probe[f] # NoText THEN probe[f].of ELSE stamps[f]]
    BY <1>6 DEF ScanRead, Over
  <2>. SUFFICES ASSUME NEW f \in Files, stamps'[f] # 0, f \notin overlaid', f \notin slipped'
                PROVE  WillHaveSeen(f)'
    OBVIOUS
  <2>2. CASE probe[f] # NoText
    <3>1. disk[f] # 0
      BY <2>1, <2>2 DEF AllRead, Held, Present
    <3>2. changed'[f] = Plain(disk[f]) /\ Plain(disk[f]) # NoText
      BY <2>1, <2>2, <3>1, DiskText, TextOf
    <3>3. probe[f].of <= disk[f] /\ probe[f].of \in Nat /\ stamps'[f] = probe[f].of
      BY <2>1, <2>2, <3>1 DEF Monotone, NotAhead, Probed, Known
    <3>4. Overridden'[f] = changed'[f]
      BY <3>2, OverriddenOf
    <3>. QED BY <1>0, <3>1, <3>2, <3>3, <3>4, DiskText
  <2>3. CASE probe[f] = NoText
    BY <2>1, <2>3, OverriddenOf
  <2>. QED BY <2>2, <2>3
<1>7. CASE ScanFails
  <2>1. PICK before \in SUBSET Held(probe) :
          /\ stamps' = [f \in Files |-> IF f \in before THEN probe[f].of ELSE stamps[f]]
          /\ slipped' = slipped \cup before \cup (Held(changed) \ Held(overlays))
    BY <1>7 DEF ScanFails
  <2>2. pc = "read" /\ UNCHANGED <<overlaid, override, cached>> /\ changed' = Nothing
    BY <1>7 DEF ScanFails, EndBuild, NoRequest
  <2>. SUFFICES ASSUME NEW f \in Files, stamps'[f] # 0, f \notin overlaid', f \notin slipped'
                PROVE  WillHaveSeen(f)'
    OBVIOUS
  <2>3. changed[f] = NoText
    BY <2>1, <2>2 DEF Making, Held
  <2>. QED BY <2>1, <2>2, <2>3, OverriddenOf, NothingOf
<1>8. CASE Answer
  <2>1. /\ pc = "send" /\ override' = Overridden /\ UNCHANGED <<stamps, overlaid, changed>>
        /\ slipped' = slipped \ {f \in Held(changed) : f \in overlaid \/ changed[f].of >= stamps[f]}
    BY <1>8 DEF Answer
  <2>. SUFFICES ASSUME NEW f \in Files, stamps[f] # 0, f \notin overlaid, f \notin slipped'
                PROVE  WillHaveSeen(f)'
    BY <2>1
  <2>2. WillHaveSeen(f)
    BY <2>1, AnswerSeen
  <2>3. Overridden'[f] = Overridden[f]
    BY <2>1, OverriddenOf
  <2>4. Overridden[f] = NoText /\ cached'[f] # 0 => cached'[f] >= stamps[f]
    BY <1>8, <2>2, LoadsSeen
  <2>. QED BY <2>1, <2>2, <2>3, <2>4
<1>9. ASSUME SameSession, pc = "answered", changed' = Nothing \/ changed' = changed PROVE Honest'
  <2>1. \A f \in Files : Overridden'[f] = Overridden[f]
    BY <1>9, OverriddenOf, NothingOf DEF SameSession, Making, Held
  <2>. QED BY <1>9, <2>1 DEF SameSession
<1>10. CASE AnswerRejected \/ Accept
  BY <1>9, <1>10, NewSessionHonest DEF AnswerRejected, Accept, EndBuild, NoRequest
<1>11. ASSUME NEW failure, RoundTripFails(failure) PROVE Honest'
  BY <1>11, NewSessionHonest DEF RoundTripFails
<1>. QED BY <1>2, <1>3, <1>4, <1>5, <1>6, <1>7, <1>8, <1>10, <1>11 DEF Next, Step

\* What the worker holds of a stamped file between requests is a text from disk, at
\* least as new as the stamp, whatever requests failed and whatever was edited.
THEOREM StampsAreSeen == Spec => []TrackerHonest
<1>1. Making /\ Honest => TrackerHonest
  <2>. SUFFICES ASSUME Making, Honest, pc = "idle", NEW f \in Stamped \ (overlaid \cup slipped)
                PROVE  HasSeen(f)
    BY DEF TrackerHonest
  <2>1. Overridden[f] = override[f]
    BY OverriddenOf, NothingOf DEF Making, Stamped
  <2>. QED BY <2>1 DEF Honest, WillHaveSeen, HasSeen
<1>2. Init => Types /\ Probed /\ Monotone /\ Making /\ Honest
  <2>. SUFFICES ASSUME Init PROVE Types /\ Probed /\ Monotone /\ Making /\ Honest
    OBVIOUS
  <2>1. Types
    BY TypesAtInit
  <2>2. Probed /\ Monotone
    BY NothingOf DEF Init, Probed, Monotone, NotAhead
  <2>3. Making /\ Honest
    BY DEF Init, Making, Honest, Stamped
  <2>. QED BY <2>1, <2>2, <2>3
<1>3. Types /\ Probed /\ Monotone /\ Making /\ Honest /\ [Next]_vars
        => Types' /\ Probed' /\ Monotone' /\ Making' /\ Honest'
  BY TypesInductive, ProbedInductive, MonotoneInductive, MakingInductive, HonestInductive
<1>. QED BY <1>1, <1>2, <1>3, PTL DEF Spec

-----------------------------------------------------------------------------
(* What an answer is about                                                 *)

\* The stamp of a file of the program is no older than the program is.
Caught(f) == prog[f] # 0 /\ f \notin overlaid \cup gone => stamps[f] >= prog[f]
AllCaught == \A f \in Files : Caught(f)

\* When a request is sent, and whenever scanning is skipped, all files are caught; the
\* read that a scan still owes is of those that are not.
Scanning ==
  /\ pc \in {"open", "merge"} /\ scanned /\ Stamped # {} => AllCaught
  /\ pc \in {"revert", "stat"} /\ skip => AllCaught
  /\ pc \in {"send", "answered"} => AllCaught
  /\ pc = "read" => \A f \in Files : IF probe[f] = NoText THEN Caught(f) ELSE probe[f].of >= prog[f]

LEMMA ScanningInductive ==
  ASSUME Types, Types', Probed, Monotone, Making, Scanning, [Next]_vars
  PROVE  Scanning'
<1>. USE DEF Scanning, AllCaught, Caught
<1>0. edits \in Nat /\ \A f \in Files : disk[f] \in Nat /\ stamps[f] \in Nat /\ prog[f] \in Nat
  BY DEF Types, TypeOK
<1>1. CASE (\E f \in Files : Edit(f) \/ Remove(f)) \/ UNCHANGED vars
  BY <1>1 DEF Edit, Remove, Saved, vars, Stamped
<1>2. CASE pc' = "idle"
  BY <1>2
<1>3. CASE StartBuild
  BY <1>3 DEF StartBuild, Making
<1>4. ASSUME NEW state, NewSession(state), pc' \in {"open", "merge", "idle"} PROVE Scanning'
  BY <1>4 DEF NewSession, Stamped
<1>5. CASE Open
  <2>1. CASE SameSession
    BY <1>5, <2>1 DEF Open, SameSession, Stamped
  <2>. QED BY <1>4, <1>5, <2>1 DEF Open
<1>6. CASE Warm \/ Validate
  BY <1>6 DEF Warm, Validate
<1>7. CASE Merge
  BY <1>7 DEF Merge, SameSession, SkipScan
<1>8. CASE RevertRead
  BY <1>8 DEF RevertRead, SameSession
<1>9. CASE RevertStat
  <2>. DEFINE sent == Held(probe) \cap Present
  <2>1. /\ pc = "stat" /\ overlaid' = Held(overlays) /\ UNCHANGED <<prog, skip>>
        /\ stamps' = [f \in Files |->
             IF f \in sent THEN disk[f] ELSE IF f \in Dropped THEN 0 ELSE stamps[f]]
        /\ gone' = gone \cup (Held(probe) \ Present)
        /\ pc' = IF skip THEN "send" ELSE "scan"
    BY <1>9 DEF RevertStat
  <2>2. ASSUME skip, NEW f \in Files, prog[f] # 0, f \notin overlaid' \cup gone'
        PROVE  stamps'[f] >= prog[f]
    <3>1. CASE f \in sent
      BY <1>0, <2>1, <3>1 DEF Present, Monotone, NotAhead
    <3>2. CASE f \notin sent
      <4>1. f \notin Held(probe) /\ f \notin gone
        BY <2>1, <2>2, <3>2
      <4>2. f \notin Dropped
        BY <2>1, <4>1 DEF Making
      <4>3. f \notin overlaid
        BY <2>1, <2>2, <4>2 DEF Dropped
      <4>. QED BY <2>1, <2>2, <3>2, <4>1, <4>2, <4>3
    <3>. QED BY <3>1, <3>2
  <2>. QED BY <2>1, <2>2
<1>10. CASE ScanStat
  <2>1. /\ pc = "scan" /\ UNCHANGED <<prog, overlaid>> /\ gone' = gone \cup (Scanned \ Present)
        /\ overlaid = Held(overlays)
    BY <1>10 DEF ScanStat, Making
  <2>2. \A f \in Files : prog[f] # 0 /\ f \notin overlaid' \cup gone' =>
          /\ f \in Scanned \cap Present /\ disk[f] >= prog[f]
          /\ f \notin Moved => stamps[f] = disk[f]
    BY <1>0, <2>1 DEF Scanned, Present, Moved, Monotone, NotAhead
  <2>3. CASE fresh
    <3>1. stamps' = [f \in Files |-> IF f \in Moved THEN disk[f] ELSE stamps[f]] /\ pc' = "send"
      BY <1>10, <2>3 DEF ScanStat
    <3>. QED BY <1>0, <2>1, <2>2, <3>1
  <2>4. CASE ~fresh
    <3>1. /\ probe' = [f \in Files |-> IF f \in Moved THEN Plain(disk[f]) ELSE NoText]
          /\ pc' = "read" /\ stamps' = stamps
      BY <1>10, <2>4 DEF ScanStat
    <3>2. \A f \in Moved : disk[f] >= prog[f] /\ Plain(disk[f]).of = disk[f] /\ Plain(disk[f]) # NoText
      BY DiskText, TextOf DEF Moved, Present, Monotone, NotAhead
    <3>. QED BY <1>0, <2>1, <2>2, <3>1, <3>2
  <2>. QED BY <2>3, <2>4
<1>11. CASE ScanRead
  <2>1. /\ pc = "read" /\ pc' = "send" /\ UNCHANGED <<prog, overlaid, gone>>
        /\ stamps' = [f \in Files |-> IF probe[f] # NoText THEN probe[f].of ELSE stamps[f]]
    BY <1>11 DEF ScanRead
  <2>. QED BY <2>1
<1>12. CASE Answer
  BY <1>12 DEF Answer
<1>13. CASE AnswerRejected \/ ScanFails \/ SpawnFails
  BY <1>2, <1>13 DEF AnswerRejected, ScanFails, SpawnFails, EndBuild
<1>14. CASE Accept
  BY <1>14 DEF Accept, SameSession, EndBuild
<1>15. ASSUME NEW failure, RoundTripFails(failure) PROVE Scanning'
  <2>1. NewSession("none") /\ pc' \in {"open", "idle"}
    BY <1>15 DEF RoundTripFails, EndBuild
  <2>. QED BY <1>4, <2>1
<1>. QED BY <1>1, <1>3, <1>5, <1>6, <1>7, <1>8, <1>9, <1>10, <1>11, <1>12, <1>13, <1>14, <1>15
         DEF Next, Step

LEMMA AnswerIsCurrent ==
  ASSUME Types, Types', Probed, Monotone, Making, Honest, Scanning, Answer
  PROVE  AnswersCurrent'
<1>1. /\ pc = "send" /\ UNCHANGED <<stamps, overlaid, changed, overlays, prog, gone>>
      /\ slipped' = slipped \ {f \in Held(changed) : f \in overlaid \/ changed[f].of >= stamps[f]}
      /\ overlaid = Held(overlays)
  BY DEF Answer, Making
<1>. SUFFICES ASSUME NEW f \in Files, used'[f] # NoText, f \notin gone, f \notin slipped', prog[f] # 0
              PROVE  IF overlays[f] # NoText THEN used'[f] = overlays[f]
                     ELSE ~used'[f].native /\ used'[f].of >= prog[f]
  BY <1>1 DEF AnswersCurrent, Held
<1>2. CASE overlays[f] # NoText
  <2>1. changed[f] = overlays[f] /\ Overridden[f] = overlays[f]
    BY <1>1, <1>2, OverriddenOf DEF Making, Held
  <2>2. used'[f] = Overridden[f]
    <3>1. CASE Programless
      BY <1>2, <2>1, <3>1 DEF Programless
    <3>2. CASE WithProgram
      BY <1>2, <2>1, <3>2 DEF WithProgram
    <3>. QED BY <3>1, <3>2 DEF Answer
  <2>. QED BY <1>2, <2>1, <2>2
<1>3. CASE overlays[f] = NoText
  <2>1. stamps[f] \in Nat /\ prog[f] \in Nat /\ f \notin overlaid
    BY <1>1, <1>3 DEF Types, TypeOK, Held
  <2>2. stamps[f] >= prog[f] /\ stamps[f] # 0
    BY <1>1, <2>1 DEF Scanning, AllCaught, Caught
  <2>3. WillHaveSeen(f)
    BY <1>1, <2>1, <2>2, AnswerSeen DEF Stamped
  <2>4. ~used'[f].native /\ used'[f].of >= stamps[f]
    BY <2>2, <2>3, LoadsSeen
  <2>5. used'[f] \in Texts
    BY DEF Types, TypeOK
  <2>6. used'[f].of \in Nat
    BY <2>5, TextOf
  <2>. QED BY <1>3, <2>1, <2>2, <2>4, <2>6
<1>. QED BY <1>2, <1>3

\* Answers are about the texts of this request: its overlays, and for every other file a
\* text from disk that is no older than the build's program.
THEOREM AboutThisRequest == Spec => []AnswersCurrent
<1>. DEFINE IInv == Types /\ Probed /\ Monotone /\ Making /\ Honest /\ Scanning /\ AnswersCurrent
<1>1. Init => IInv
  <2>. SUFFICES ASSUME Init PROVE IInv
    OBVIOUS
  <2>1. Types
    BY TypesAtInit
  <2>2. Probed /\ Monotone
    BY NothingOf DEF Init, Probed, Monotone, NotAhead
  <2>3. Making /\ Honest /\ Scanning /\ AnswersCurrent
    BY DEF Init, Making, Honest, Stamped, Scanning, AnswersCurrent
  <2>. QED BY <2>1, <2>2, <2>3
<1>2. AnswersCurrent /\ [Next]_vars /\ ~Answer => AnswersCurrent'
  <2>. SUFFICES ASSUME AnswersCurrent, [Next]_vars, ~Answer, pc' = "answered" PROVE AnswersCurrent'
    BY DEF AnswersCurrent
  <2>1. pc = "answered" /\ UNCHANGED <<used, overlays, prog, gone, slipped>>
    BY DEF Next, Step, Edit, Remove, Saved, vars, StartBuild, Open, SpawnFails, Warm, Validate, Merge,
           RevertRead, RevertStat, ScanStat, ScanRead, ScanFails, RoundTripFails, AnswerRejected,
           Accept, EndBuild
  <2>. QED BY <2>1 DEF AnswersCurrent, Held
<1>3. IInv /\ [Next]_vars => IInv'
  BY <1>2, TypesInductive, ProbedInductive, MonotoneInductive, MakingInductive, HonestInductive,
     ScanningInductive, AnswerIsCurrent
<1>. QED BY <1>1, <1>3, PTL DEF Spec
===============================================================================
