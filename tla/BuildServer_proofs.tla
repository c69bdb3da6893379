-------------------------- MODULE BuildServer_proofs --------------------------
(***************************************************************************)
(* The build API's session for any number of requests and callbacks: one   *)
(* build at a time, one response each, no response after the last, no      *)
(* build blamed on its client, and no callback left behind.                *)
(***************************************************************************)
EXTENDS BuildServer, FiniteSetTheorems, TLAPS

USE DEF reading, building, calling, lines, client

-----------------------------------------------------------------------------
(* Types                                                                   *)

\* What the two ways of writing a line do.
LEMMA ReplyTyped ==
  ASSUME Types, NEW b \in Builds, NEW kind \in {"refused", "busy", "failed", "result", "cancelled"},
         Reply(b, kind)
  PROVE  /\ replies' \in [Builds -> Nat] /\ writeError' \in {None, "brokenPipe"} /\ asked' = asked
         /\ reply' \in [Builds -> {None, "refused", "busy", "failed", "result", "cancelled"}]
         /\ last' \in {last, "response"}
BY DEF Types, Reply, Fails

LEMMA SayTyped ==
  ASSUME NEW line, Say(line)
  PROVE  /\ UNCHANGED <<replies, reply, asked>> /\ last' \in {last, line}
         /\ writeError' \in {writeError, "brokenPipe"}
BY DEF Say, Fails

LEMMA OneRuns == ASSUME TypeOK, NEW b \in Running PROVE builds # 0
<1>1. IsFiniteSet(Running)
  BY SessionAssumption, FS_Subset DEF Running
<1>. QED BY <1>1, FS_EmptySet DEF TypeOK

LEMMA NobodyRuns == ASSUME TypeOK, builds = 0 PROVE Running = {}
BY OneRuns

LEMMA TypesInductive == ASSUME TypeOK, [Next]_vars PROVE Types'
<1>. USE DEF TypeOK, Types
<1>1. ASSUME NEW wish \in {"plain", "callbacks", "refused"}, Handshake(wish) PROVE Types'
  BY <1>1, SayTyped DEF Handshake
<1>2. ASSUME NEW b \in Builds, RefuseBuild(b) \/ RefuseBusy(b) \/ SpawnFails(b) PROVE Types'
  <2>1. /\ Request(b) /\ \E kind \in {"refused", "busy", "failed"} : Reply(b, kind)
        /\ stage' = [stage EXCEPT ![b] = "over"] /\ builds' = builds /\ active' \in {active, None}
    BY <1>2 DEF RefuseBuild, RefuseBusy, SpawnFails
  <2>2. PICK kind \in {"refused", "busy", "failed"} : Reply(b, kind)
    BY <2>1
  <2>. QED BY <2>1, <2>2, ReplyTyped DEF Request
<1>3. ASSUME NEW b \in Builds, StartBuild(b) PROVE Types'
  BY <1>3 DEF StartBuild, Request
<1>4. ASSUME NEW c \in Calls, AnswerArrives(c) \/ AnswerUnknown(c) PROVE Types'
  BY <1>4 DEF AnswerArrives, AnswerUnknown
<1>5. CASE (\E why \in {"ended", "malformed"} : ReadEnd(why)) \/ ReadShutdown \/ CheckWrites
           \/ Blame \/ Cancel \/ Exit \/ ClientDies \/ (\E b \in Builds : Panic(b))
  BY <1>5 DEF ReadEnd, ReadShutdown, CheckWrites, Blame, Blamed, Cancel, Exit, ClientDies, Panic
<1>6. CASE AnswerShutdown
  BY <1>6, SayTyped DEF AnswerShutdown
<1>7. ASSUME NEW b \in Builds, FinishBuild(b) \/ ClearActive(b) PROVE Types'
  BY <1>7 DEF FinishBuild, ClearActive, Cleared
<1>8. ASSUME NEW b \in Builds, Respond(b) PROVE Types'
  <2>. DEFINE kind == IF outcome[b] = "cancelled" /\ b \in blamed THEN "failed" ELSE outcome[b]
  <2>1. CASE outcome[b] # None
    BY <1>8, <2>1, ReplyTyped DEF Respond
  <2>2. CASE outcome[b] = None
    BY <1>8, <2>2 DEF Respond, Reply, Fails
  <2>. QED BY <2>1, <2>2
<1>9. ASSUME NEW b \in Builds, Leave(b) PROVE Types'
  <2>1. builds # 0
    BY <1>9, OneRuns DEF Leave, Running
  <2>. QED BY <1>9, <2>1 DEF Leave
<1>10. ASSUME NEW b \in Builds, StartCall(b) PROVE Types'
  BY <1>10, SessionAssumption DEF StartCall, Calls
<1>11. ASSUME NEW c \in Calls, SendCall(c) \/ CheckCall(c) \/ TakeAnswer(c) PROVE Types'
  BY <1>11 DEF SendCall, Fails, CheckCall, WriteFailed, TakeAnswer
<1>12. ASSUME NEW c \in Calls, GiveUp(c, BuildCancelled(c)) \/ GiveUp(c, c \in Slow) \/ Withdraw(c)
       PROVE  Types'
  BY <1>12 DEF GiveUp, Withdraw, Unlisted
<1>13. CASE Over \/ UNCHANGED vars
  BY <1>13 DEF Over, vars
<1>. QED BY <1>1, <1>2, <1>3, <1>4, <1>5, <1>6, <1>7, <1>8, <1>9, <1>10, <1>11, <1>12, <1>13
         DEF Next, ReaderStep, BuildStep, CallStep

-----------------------------------------------------------------------------
(* Builds                                                                  *)

\* The active build is the one whose function has not been seen to return, and the
\* count is the number of build threads.
ActiveBuild == \A b \in Builds : stage[b] \in {"building", "built"} <=> active = b
Counted == builds = Cardinality(Running)

LEMMA BuildingInductive == ASSUME TypeOK, ActiveBuild, [Next]_vars PROVE Counted' /\ ActiveBuild'
<1>. USE DEF TypeOK, Types, Counted, ActiveBuild
<1>0. IsFiniteSet(Running) /\ None \notin Builds
  BY SessionAssumption, FS_Subset DEF Running
<1>1. ASSUME NEW b \in Builds, RefuseBuild(b) \/ RefuseBusy(b) \/ SpawnFails(b)
      PROVE  Counted' /\ ActiveBuild'
  <2>1. /\ stage[b] = "unsent" /\ stage' = [stage EXCEPT ![b] = "over"] /\ builds' = builds
        /\ active' = active
    BY <1>1 DEF RefuseBuild, RefuseBusy, SpawnFails, Request, Busy
  <2>2. Running' = Running
    BY <2>1 DEF Running
  <2>. QED BY <1>0, <2>1, <2>2
<1>2. ASSUME NEW b \in Builds, StartBuild(b) PROVE Counted' /\ ActiveBuild'
  <2>1. /\ stage[b] = "unsent" /\ stage' = [stage EXCEPT ![b] = "building"] /\ builds' = builds + 1
        /\ active' = b /\ active = None
    BY <1>2 DEF StartBuild, Request, Busy
  <2>2. Running' = Running \cup {b} /\ b \notin Running
    BY <2>1 DEF Running
  <2>3. Cardinality(Running') = Cardinality(Running) + 1
    BY <1>0, <2>2, FS_AddElement
  <2>. QED BY <1>0, <2>1, <2>3
<1>3. ASSUME NEW b \in Builds, Leave(b) PROVE Counted' /\ ActiveBuild'
  <2>1. /\ stage[b] = "responded" /\ stage' = [stage EXCEPT ![b] = "over"] /\ builds' = builds - 1
        /\ active' = active
    BY <1>3 DEF Leave
  <2>2. Running' = Running \ {b} /\ b \in Running
    BY <2>1 DEF Running
  <2>3. Cardinality(Running') = Cardinality(Running) - 1
    BY <1>0, <2>2, FS_RemoveElement
  <2>. QED BY <1>0, <2>1, <2>3
<1>4. ASSUME NEW b \in Builds, FinishBuild(b) \/ ClearActive(b) \/ Respond(b) PROVE Counted' /\ ActiveBuild'
  <2>1. /\ stage[b] \in {"building", "built", "cleared"} /\ builds' = builds
        /\ stage'[b] \in {"built", "cleared", "responded"}
        /\ \A a \in Builds \ {b} : stage'[a] = stage[a]
    BY <1>4 DEF FinishBuild, ClearActive, Respond
  <2>2. Running' = Running
    BY <2>1 DEF Running
  <2>3. ActiveBuild'
    <3>1. CASE FinishBuild(b)
      BY <3>1 DEF FinishBuild
    <3>2. CASE ClearActive(b)
      BY <1>0, <3>2 DEF ClearActive, Cleared
    <3>3. CASE Respond(b)
      BY <3>3 DEF Respond
    <3>. QED BY <1>4, <3>1, <3>2, <3>3
  <2>. QED BY <2>1, <2>2, <2>3
<1>5. CASE UNCHANGED <<stage, builds, active>>
  BY <1>5 DEF Running
<1>. QED BY <1>1, <1>2, <1>3, <1>4, <1>5
         DEF Next, ReaderStep, BuildStep, CallStep, Handshake, AnswerArrives, AnswerUnknown, ReadEnd,
             ReadShutdown, CheckWrites, AnswerShutdown, Blame, Cancel, Exit, Panic, StartCall, SendCall,
             CheckCall, TakeAnswer, GiveUp, Withdraw, ClientDies, Over, vars

\* A response is written between a build's end and its thread's, or by the reader,
\* unless the client's end is closed.
Responses ==
  /\ writeError # None => output = "closed"
  /\ \A b \in Builds :
       /\ stage[b] \in {"unsent", "building", "built", "cleared"} => replies[b] = 0
       /\ stage[b] \in {"responded", "over"} => replies[b] = 1 \/ (replies[b] = 0 /\ writeError # None)
       /\ reply[b] # None => replies[b] = 1
       /\ reply[b] = "busy" => b \in overlapping

LEMMA ResponsesInductive == ASSUME TypeOK, ActiveBuild, Responses, [Next]_vars PROVE Responses'
<1>. USE DEF TypeOK, Types, Responses
<1>0. None \notin {"brokenPipe", "busy"}
  BY SessionAssumption
<1>1. ASSUME NEW b \in Builds, NEW kind, Reply(b, kind), stage[b] \in {"unsent", "cleared"},
             stage' = [stage EXCEPT ![b] = IF stage[b] = "unsent" THEN "over" ELSE "responded"],
             overlapping \subseteq overlapping', kind = "busy" => b \in overlapping',
             output' = output
      PROVE  Responses'
  <2>1. CASE output = "closed"
    BY <1>0, <1>1, <2>1 DEF Reply, Fails
  <2>2. CASE output = "open"
    <3>1. /\ replies'[b] = 1 /\ reply'[b] = kind /\ writeError' = writeError
          /\ stage'[b] \in {"over", "responded"}
          /\ \A a \in Builds \ {b} :
               replies'[a] = replies[a] /\ reply'[a] = reply[a] /\ stage'[a] = stage[a]
      BY <1>1, <2>2 DEF Reply
    <3>2. writeError = None
      BY <2>2
    <3>. QED BY <1>1, <2>2, <3>1, <3>2
  <2>. QED BY <2>1, <2>2
<1>2. ASSUME NEW b \in Builds, RefuseBuild(b) \/ SpawnFails(b) PROVE Responses'
  <2>1. \E kind \in {"refused", "failed"} : Reply(b, kind)
    BY <1>2 DEF RefuseBuild, SpawnFails
  <2>2. /\ stage[b] = "unsent" /\ stage' = [stage EXCEPT ![b] = "over"]
        /\ overlapping \subseteq overlapping' /\ output' = output
    BY <1>2 DEF RefuseBuild, SpawnFails, Request
  <2>. QED BY <1>1, <2>1, <2>2
<1>3. ASSUME NEW b \in Builds, RefuseBusy(b) PROVE Responses'
  <2>1. /\ active \in Builds /\ stage[active] \in {"building", "built"}
    BY <1>3 DEF RefuseBusy, Busy, ActiveBuild
  <2>2. active \in Unanswered
    BY <2>1 DEF Unanswered
  <2>3. b \in overlapping' /\ overlapping \subseteq overlapping' /\ output' = output
    BY <1>3, <2>2 DEF RefuseBusy, Request
  <2>4. /\ stage[b] = "unsent" /\ stage' = [stage EXCEPT ![b] = "over"] /\ Reply(b, "busy")
    BY <1>3 DEF RefuseBusy, Request
  <2>. QED BY <1>1, <2>3, <2>4
<1>4. ASSUME NEW b \in Builds, Respond(b) PROVE Responses'
  <2>. DEFINE kind == IF outcome[b] = "cancelled" /\ b \in blamed THEN "failed" ELSE outcome[b]
  <2>1. /\ Reply(b, kind) /\ stage[b] = "cleared" /\ stage' = [stage EXCEPT ![b] = "responded"]
        /\ overlapping' = overlapping /\ output' = output
    BY <1>4 DEF Respond
  <2>2. kind # "busy"
    BY <1>0
  <2>. HIDE DEF kind
  <2>. QED BY <1>1, <2>1, <2>2
<1>5. ASSUME NEW b \in Builds, StartBuild(b) \/ FinishBuild(b) \/ ClearActive(b) \/ Leave(b)
      PROVE  Responses'
  <2>1. /\ UNCHANGED <<writeError, output, replies, reply>> /\ overlapping \subseteq overlapping'
        /\ \A a \in Builds \ {b} : stage'[a] = stage[a]
        /\ \/ /\ stage[b] \in {"unsent", "building", "built"}
              /\ stage'[b] \in {"building", "built", "cleared"}
           \/ stage[b] = "responded" /\ stage'[b] = "over"
    BY <1>5 DEF StartBuild, Request, FinishBuild, ClearActive, Leave
  <2>. QED BY <2>1
<1>6. ASSUME UNCHANGED <<stage, overlapping, replies, reply>>,
             /\ output' \in {output, "closed"}
             /\ writeError' = writeError \/ (writeError' = "brokenPipe" /\ output' = "closed")
      PROVE  Responses'
  BY <1>0, <1>6
<1>7. ASSUME NEW line, Say(line), output' = output
      PROVE  /\ UNCHANGED <<replies, reply>>
             /\ writeError' = writeError \/ (writeError' = "brokenPipe" /\ output' = "closed")
  BY <1>7 DEF Say, Fails
<1>8. CASE (\E wish \in {"plain", "callbacks", "refused"} : Handshake(wish)) \/ AnswerShutdown
  BY <1>6, <1>7, <1>8 DEF Handshake, AnswerShutdown
<1>9. ASSUME NEW c \in Calls, SendCall(c) PROVE Responses'
  BY <1>6, <1>9 DEF SendCall, Fails
<1>. QED BY <1>2, <1>3, <1>4, <1>5, <1>6, <1>8, <1>9
         DEF Next, ReaderStep, BuildStep, CallStep, AnswerArrives, AnswerUnknown, ReadEnd, ReadShutdown,
             CheckWrites, Blame, Cancel, Exit, Panic, StartCall, CheckCall, TakeAnswer, GiveUp,
             Withdraw, ClientDies, Over, vars

-----------------------------------------------------------------------------
(* The reader                                                              *)

\* Nothing is cancelled while messages are read, and what waits for the builds
\* has waited for all of them.
Reader ==
  /\ reader \in {"read", "check", "shutdown"} => verdict = None
  /\ reader \in {"read", "check"} => cancelled = {}
  /\ reader = "exited" => builds = 0
  /\ last = "shutdown" => builds = 0 /\ reader \notin {"read", "check", "shutdown"}

LEMMA ReaderInductive == ASSUME TypeOK, Reader, [Next]_vars PROVE Reader'
<1>. USE DEF Reader
<1>1. ASSUME reader = "read", reader' = "check", UNCHANGED <<verdict, cancelled>>,
             last' \in {last, "handshake", "response"}
      PROVE  Reader'
  BY <1>1
<1>2. ASSUME NEW wish \in {"plain", "callbacks", "refused"}, Handshake(wish) PROVE Reader'
  BY <1>1, <1>2, SayTyped DEF Handshake
<1>3. ASSUME NEW b \in Builds, RefuseBuild(b) \/ RefuseBusy(b) \/ StartBuild(b) \/ SpawnFails(b)
      PROVE  Reader'
  <2>1. last' \in {last, "response"}
    BY <1>3 DEF RefuseBuild, RefuseBusy, StartBuild, SpawnFails, Reply, Fails
  <2>2. reader = "read" /\ reader' = "check" /\ UNCHANGED <<verdict, cancelled>>
    BY <1>3 DEF RefuseBuild, RefuseBusy, StartBuild, SpawnFails, Request
  <2>. QED BY <1>1, <2>1, <2>2
<1>4. ASSUME NEW c \in Calls, AnswerUnknown(c) PROVE Reader'
  BY <1>4 DEF AnswerUnknown
<1>5. CASE CheckWrites \/ (\E why \in {"ended", "malformed"} : ReadEnd(why)) \/ ReadShutdown
  BY <1>5 DEF CheckWrites, ReadEnd, ReadShutdown
<1>6. CASE AnswerShutdown
  BY <1>6, SayTyped DEF AnswerShutdown, BuildsOver
<1>7. CASE Blame \/ Cancel \/ Exit
  BY <1>7 DEF Blame, Cancel, Exit, BuildsOver
<1>8. ASSUME NEW b \in Builds, Panic(b) PROVE Reader'
  BY <1>8 DEF Panic
<1>9. ASSUME NEW b \in Builds, Leave(b) PROVE Reader'
  <2>1. builds # 0
    BY <1>9, OneRuns DEF Leave, Running
  <2>. QED BY <1>9, <2>1 DEF Leave, Alive
<1>10. ASSUME UNCHANGED <<reader, verdict, cancelled, builds>>, last' \in {last, "response", "callback"}
       PROVE  Reader'
  BY <1>10
<1>11. ASSUME NEW b \in Builds, Respond(b) PROVE Reader'
  BY <1>10, <1>11 DEF Respond, Reply, Fails
<1>12. ASSUME NEW c \in Calls, SendCall(c) PROVE Reader'
  BY <1>10, <1>12 DEF SendCall, Fails
<1>. QED BY <1>2, <1>3, <1>4, <1>5, <1>6, <1>7, <1>8, <1>9, <1>10, <1>11, <1>12
         DEF Next, ReaderStep, BuildStep, CallStep, AnswerArrives, FinishBuild, ClearActive, StartCall,
             CheckCall, TakeAnswer, GiveUp, Withdraw, ClientDies, Over, vars

\* A build that a failed session has cancelled has had its cause first.
Causes ==
  /\ verdict \notin {None, "ended"} => cancelled \subseteq blamed
  /\ verdict \notin {None, "ended"} /\ reader = "stopping" => active \in blamed \cup {None}
  /\ \A b \in Builds :
       /\ outcome[b] = "cancelled" => b \in cancelled
       /\ reply[b] = "cancelled" => b \in cancelled /\ verdict \in {None, "ended"}

LEMMA CausesInductive == ASSUME TypeOK, Reader, Causes, [Next]_vars PROVE Causes'
<1>. USE DEF TypeOK, Types, Causes
<1>0. None \notin {"cancelled", "ended", "malformed", "unknownId", "writeError"}
  BY SessionAssumption
<1>1. ASSUME NEW b \in Builds, RefuseBuild(b) \/ RefuseBusy(b) \/ StartBuild(b) \/ SpawnFails(b)
      PROVE  Causes'
  <2>1. /\ UNCHANGED <<verdict, cancelled, blamed, outcome>> /\ reader = "read" /\ reader' = "check"
    BY <1>1 DEF RefuseBuild, RefuseBusy, StartBuild, SpawnFails, Request
  <2>2. \A a \in Builds : reply'[a] = "cancelled" => reply[a] = "cancelled"
    BY <1>1 DEF RefuseBuild, RefuseBusy, StartBuild, SpawnFails, Reply, Fails
  <2>. QED BY <2>1, <2>2
<1>2. ASSUME NEW b \in Builds, Respond(b) PROVE Causes'
  <2>. DEFINE kind == IF outcome[b] = "cancelled" /\ b \in blamed THEN "failed" ELSE outcome[b]
  <2>1. UNCHANGED <<reader, verdict, active, cancelled, blamed, outcome>> /\ Reply(b, kind)
    BY <1>2 DEF Respond
  <2>2. \A a \in Builds : reply'[a] = "cancelled" => reply[a] = "cancelled" \/ (a = b /\ kind = "cancelled")
    BY <2>1 DEF Reply, Fails
  <2>3. kind = "cancelled" => b \in cancelled \ blamed
    BY <1>0
  <2>. HIDE DEF kind
  <2>. QED BY <2>1, <2>2, <2>3
<1>3. ASSUME NEW b \in Builds, FinishBuild(b) PROVE Causes'
  BY <1>3 DEF FinishBuild
<1>4. ASSUME NEW b \in Builds, ClearActive(b) PROVE Causes'
  BY <1>4 DEF ClearActive
<1>5. ASSUME NEW b \in Builds, Panic(b) PROVE Causes'
  BY <1>5 DEF Panic
<1>6. ASSUME NEW c \in Calls, AnswerUnknown(c) PROVE Causes'
  BY <1>6 DEF AnswerUnknown, Reader
<1>7. CASE CheckWrites \/ (\E why \in {"ended", "malformed"} : ReadEnd(why))
  BY <1>7 DEF CheckWrites, ReadEnd, Reader
<1>8. CASE ReadShutdown
  BY <1>8 DEF ReadShutdown, Reader
<1>9. CASE AnswerShutdown
  BY <1>0, <1>9, SayTyped DEF AnswerShutdown, Reader
<1>10. CASE Blame
  BY <1>10 DEF Blame, Blamed
<1>11. CASE Cancel \/ Exit
  BY <1>11 DEF Cancel, Exit
<1>12. ASSUME NEW wish \in {"plain", "callbacks", "refused"}, Handshake(wish) PROVE Causes'
  BY <1>12, SayTyped DEF Handshake
<1>13. ASSUME NEW c \in Calls, SendCall(c) PROVE Causes'
  BY <1>13 DEF SendCall, Fails
<1>14. CASE UNCHANGED <<reader, verdict, active, cancelled, blamed, outcome, reply>>
  BY <1>14
<1>. QED BY <1>1, <1>2, <1>3, <1>4, <1>5, <1>6, <1>7, <1>8, <1>9, <1>10, <1>11, <1>12, <1>13, <1>14
         DEF Next, ReaderStep, BuildStep, CallStep, AnswerArrives, Leave, StartCall,
             CheckCall, TakeAnswer, GiveUp, Withdraw, ClientDies, Over, vars

-----------------------------------------------------------------------------
(* Callbacks                                                               *)

\* A call belongs to a build that has not ended, and is in the table until it is
\* answered or given up.
OpenCalls ==
  /\ \A c \in Calls :
       /\ call[c] = "none" <=> c > nextCallback
       /\ c \in callbacks \cup arrived => call[c] # "none"
       /\ c \in arrived => c \notin callbacks
       /\ call[c] \notin {"none", "back"} => caller[c] \in Builds /\ stage[caller[c]] = "building"
  /\ ListedAreWaitedFor

LEMMA OpenCallsInductive == ASSUME TypeOK, OpenCalls, [Next]_vars PROVE OpenCalls'
<1>. USE DEF TypeOK, Types, OpenCalls, ListedAreWaitedFor
<1>1. ASSUME NEW b \in Builds, StartCall(b) PROVE OpenCalls'
  <2>. DEFINE new == nextCallback + 1
  <2>1. /\ new \in Calls /\ call[new] = "none" /\ nextCallback' = new /\ call'[new] = "listed"
        /\ callbacks' = callbacks \cup {new} /\ UNCHANGED <<arrived, stage>>
        /\ caller'[new] = b /\ stage[b] = "building"
        /\ \A c \in Calls \ {new} : call'[c] = call[c] /\ caller'[c] = caller[c]
    BY <1>1, SessionAssumption DEF StartCall, Calls
  <2>2. \A c \in Calls \ {new} : c > nextCallback <=> c > new
    BY DEF Calls
  <2>. QED BY <2>1, <2>2 DEF Calls
<1>2. ASSUME NEW c \in Calls, AnswerArrives(c) PROVE OpenCalls'
  BY <1>2 DEF AnswerArrives
<1>3. ASSUME NEW c \in Calls, SendCall(c) \/ GiveUp(c, BuildCancelled(c)) \/ GiveUp(c, c \in Slow)
      PROVE  OpenCalls'
  <2>1. /\ call[c] \in {"listed", "waiting"} /\ call' = [call EXCEPT ![c] = call'[c]]
        /\ call'[c] \in {"sent", "givingUp"}
        /\ UNCHANGED <<nextCallback, callbacks, caller, arrived, stage>>
    BY <1>3 DEF SendCall, GiveUp
  <2>. QED BY <2>1
<1>4. ASSUME NEW c \in Calls, CheckCall(c) PROVE OpenCalls'
  BY <1>4 DEF CheckCall, WriteFailed
<1>5. ASSUME NEW c \in Calls, TakeAnswer(c) PROVE OpenCalls'
  BY <1>5 DEF TakeAnswer
<1>6. ASSUME NEW c \in Calls, Withdraw(c) PROVE OpenCalls'
  BY <1>6 DEF Withdraw, Unlisted
<1>7. ASSUME UNCHANGED calling, NEW b \in Builds, stage' = [stage EXCEPT ![b] = stage'[b]],
             stage[b] # "building"
      PROVE  OpenCalls'
  <2>1. \A a \in Builds : stage[a] = "building" => stage'[a] = "building"
    BY <1>7
  <2>. QED BY <1>7, <2>1
<1>8. ASSUME NEW b \in Builds, FinishBuild(b) PROVE OpenCalls'
  <2>1. /\ UNCHANGED calling
        /\ \A a \in Builds \ {b} : stage'[a] = stage[a]
        /\ \A c \in Calls : caller[c] = b => call[c] = "back"
    BY <1>8 DEF FinishBuild
  <2>. QED BY <2>1
<1>9. ASSUME NEW b \in Builds,
             RefuseBuild(b) \/ RefuseBusy(b) \/ StartBuild(b) \/ SpawnFails(b)
             \/ ClearActive(b) \/ Respond(b) \/ Leave(b)
      PROVE  OpenCalls'
  BY <1>7, <1>9 DEF RefuseBuild, RefuseBusy, StartBuild, SpawnFails, Request, ClearActive, Respond, Leave
<1>10. CASE UNCHANGED <<calling, stage>>
  BY <1>10
<1>. QED BY <1>1, <1>2, <1>3, <1>4, <1>5, <1>6, <1>8, <1>9, <1>10
         DEF Next, ReaderStep, BuildStep, CallStep, Handshake, AnswerUnknown, ReadEnd, ReadShutdown,
             CheckWrites, AnswerShutdown, Blame, Cancel, Exit, Panic, ClientDies, Over, vars

-----------------------------------------------------------------------------
(* The theorems                                                            *)

IInv == TypeOK /\ ActiveBuild /\ Responses /\ Reader /\ Causes /\ OpenCalls

LEMMA Initially == Init => IInv
<1>. SUFFICES ASSUME Init PROVE IInv
  OBVIOUS
<1>1. Running = {}
  BY DEF Init, Running
<1>2. TypeOK
  BY <1>1, SessionAssumption, FS_EmptySet DEF Init, TypeOK, Types, Calls
<1>. QED BY <1>2, SessionAssumption
         DEF Init, IInv, ActiveBuild, Responses, Reader, Causes, OpenCalls, ListedAreWaitedFor, Calls

LEMMA Invariance == Spec => []IInv
<1>1. ASSUME IInv, [Next]_vars PROVE IInv'
  <2>1. Types' /\ Counted' /\ ActiveBuild'
    BY <1>1, TypesInductive, BuildingInductive DEF IInv
  <2>2. TypeOK'
    BY <2>1 DEF TypeOK, Counted
  <2>. QED BY <1>1, <2>1, <2>2, ResponsesInductive, ReaderInductive, CausesInductive, OpenCallsInductive
           DEF IInv
<1>. QED BY <1>1, Initially, PTL DEF Spec

\* Every variable keeps its type, and the count that shutdown waits for is the
\* number of build threads, however many requests there are.
THEOREM TypeCorrect == Spec => []TypeOK
<1>1. IInv => TypeOK
  BY DEF IInv
<1>. QED BY <1>1, Invariance, PTL

\* However requests, ends and shutdowns interleave, one build runs at a time.
THEOREM BuildsAlone == Spec => []OneBuild
<1>1. IInv => OneBuild
  BY DEF IInv, ActiveBuild, OneBuild
<1>. QED BY <1>1, Invariance, PTL

\* A request has one response at most, and has had it when the session exits,
\* unless the client could not be written to.
THEOREM OneResponseEach == Spec => []AnsweredOnce
<1>1. ASSUME IInv PROVE AnsweredOnce
  <2>1. reader = "exited" => Running = {}
    BY <1>1, NobodyRuns DEF IInv, Reader
  <2>2. ASSUME NEW b \in Builds PROVE replies[b] <= 1
    BY <1>1, <2>2 DEF IInv, TypeOK, Types, Responses
  <2>3. ASSUME NEW b \in Builds, reader = "exited", writeError = None, stage[b] # "unsent"
        PROVE  replies[b] = 1
    <3>1. stage[b] = "over"
      BY <1>1, <2>1, <2>3 DEF IInv, TypeOK, Types, Running
    <3>. QED BY <1>1, <2>3, <3>1 DEF IInv, Responses
  <2>. QED BY <2>2, <2>3 DEF AnsweredOnce
<1>. QED BY <1>1, Invariance, PTL

\* A client that waits for its responses is never refused because of a build.
THEOREM SerialClientsServed == Spec => []SerialClientServed
<1>1. IInv => SerialClientServed
  BY DEF IInv, Responses, SerialClientServed
<1>. QED BY <1>1, Invariance, PTL

\* A build that the end of a failed session stopped reports that failure.
THEOREM FailuresNamed == Spec => []FailureNotCancellation
<1>1. IInv => FailureNotCancellation
  BY DEF IInv, Causes, FailureNotCancellation
<1>. QED BY <1>1, Invariance, PTL

\* A callback that has come back has left nothing in the table.
THEOREM NoCallbackLeaks == Spec => []ListedAreWaitedFor
<1>1. IInv => ListedAreWaitedFor
  BY DEF IInv, OpenCalls
<1>. QED BY <1>1, Invariance, PTL

\* Nothing follows the answer to shutdown: every build has left by then, and with
\* them every thread that could call the client.
THEOREM ShutdownIsLast == Spec => ShutdownLast
<1>1. IInv /\ [Next]_vars => [last = "shutdown" => UNCHANGED <<last, replies, asked>>]_vars
  <2>. SUFFICES ASSUME IInv, Next, last = "shutdown" PROVE UNCHANGED <<last, replies, asked>>
    OBVIOUS
  <2>1. Running = {} /\ reader \notin {"read", "check", "shutdown"}
    BY NobodyRuns DEF IInv, Reader
  <2>2. \A b \in Builds : stage[b] \in {"unsent", "over"}
    BY <2>1 DEF IInv, TypeOK, Types, Running
  <2>3. \A c \in Calls : call[c] \in {"none", "back"}
    BY <2>2 DEF IInv, OpenCalls, TypeOK, Types
  <2>4. \A b \in Builds :
          ~ (RefuseBuild(b) \/ RefuseBusy(b) \/ StartBuild(b) \/ SpawnFails(b) \/ Respond(b))
    BY <2>1, <2>2 DEF RefuseBuild, RefuseBusy, StartBuild, SpawnFails, Request, Respond
  <2>5. \A wish \in {"plain", "callbacks", "refused"} : ~ (Handshake(wish) \/ AnswerShutdown)
    BY <2>1 DEF Handshake, AnswerShutdown
  <2>6. \A c \in Calls : ~SendCall(c)
    BY <2>3 DEF SendCall
  <2>. QED BY <2>4, <2>5, <2>6
           DEF Next, ReaderStep, BuildStep, CallStep, AnswerArrives, AnswerUnknown, ReadEnd,
               ReadShutdown, CheckWrites, Blame, Cancel, Exit, FinishBuild, Panic, ClearActive, Leave,
               StartCall, CheckCall, TakeAnswer, GiveUp, Withdraw, ClientDies, Over, vars
<1>. QED BY <1>1, Invariance, PTL DEF Spec, ShutdownLast

-----------------------------------------------------------------------------
(* Stops and late answers                                                  *)

\* Whoever waits for the builds has cancelled the one that is active.
Stopped == reader \in {"shutdown", "waiting"} => active = None \/ active \in cancelled

\* A call gives up because of a stop or of its deadline, and only a call that gave up,
\* or found a write error, is off the table while the client may still answer it.
Withdrawn(c) == caller[c] \in cancelled \/ c \in Slow \/ writeError # None
LateAnswers ==
  /\ \A c \in asked : call[c] \notin {"none", "listed"}
  /\ \A c \in Calls : call[c] = "givingUp" => Withdrawn(c)
  /\ \A c \in Calls : call[c] \in {"listed", "sent", "waiting", "givingUp"} =>
       c \in callbacks \cup answered
  /\ \A c \in asked \ answered : c \in callbacks \/ Withdrawn(c)
  /\ answered \subseteq asked
  /\ verdict = "unknownId" => answered \cap Slow # {} \/ writeError # None

LEMMA StoppedInductive == ASSUME IInv, Stopped, [Next]_vars PROVE Stopped'
<1>. USE DEF Stopped
<1>1. CASE ReadShutdown \/ Cancel
  BY <1>1 DEF ReadShutdown, Cancel
<1>2. ASSUME NEW b \in Builds, ClearActive(b) PROVE Stopped'
  BY <1>2 DEF ClearActive, Cleared
<1>3. CASE UNCHANGED <<active, cancelled>> /\ (reader' = reader \/ reader' \notin {"shutdown", "waiting"})
  BY <1>3
<1>4. ASSUME NEW b \in Builds, RefuseBuild(b) \/ RefuseBusy(b) \/ StartBuild(b) \/ SpawnFails(b) PROVE Stopped'
  BY <1>4 DEF RefuseBuild, RefuseBusy, StartBuild, SpawnFails, Request
<1>. QED BY <1>1, <1>2, <1>3, <1>4
         DEF Next, ReaderStep, BuildStep, CallStep, Handshake, AnswerArrives, AnswerUnknown, ReadEnd,
             CheckWrites, AnswerShutdown, Blame, Exit, FinishBuild, Panic, Respond, Leave, StartCall,
             SendCall, CheckCall, TakeAnswer, GiveUp, Withdraw, ClientDies, Over, vars

\* A cancellation and a write error stay, and so does the build of a call.
LEMMA WithdrawnStays ==
  ASSUME IInv, [Next]_vars, NEW c \in Calls, call[c] # "none", Withdrawn(c)
  PROVE  Withdrawn(c)'
<1>. USE DEF IInv, TypeOK, Types
<1>1. cancelled \subseteq cancelled' /\ (writeError # None => writeError' # None)
  BY SessionAssumption
     DEF Next, ReaderStep, BuildStep, CallStep, Handshake, RefuseBuild, RefuseBusy, StartBuild, SpawnFails,
         Request, AnswerArrives, AnswerUnknown, ReadEnd, ReadShutdown, CheckWrites, AnswerShutdown, Blame,
         Cancel, Exit, FinishBuild, Panic, ClearActive, Respond, Leave, StartCall, SendCall, CheckCall,
         TakeAnswer, GiveUp, Withdraw, ClientDies, Over, Reply, Say, Fails, vars
<1>2. caller'[c] = caller[c]
  <2>1. ASSUME NEW b \in Builds, StartCall(b) PROVE caller'[c] = caller[c]
    <3>1. c # nextCallback + 1
      BY <2>1 DEF OpenCalls, Calls
    <3>. QED BY <2>1, <3>1 DEF StartCall
  <2>2. CASE UNCHANGED caller
    BY <2>2
  <2>. QED BY <2>1, <2>2
           DEF Next, ReaderStep, BuildStep, CallStep, Handshake, RefuseBuild, RefuseBusy, StartBuild,
               SpawnFails, Request, AnswerArrives, AnswerUnknown, ReadEnd, ReadShutdown, CheckWrites,
               AnswerShutdown, Blame, Cancel, Exit, FinishBuild, Panic, ClearActive, Respond, Leave,
               SendCall, CheckCall, TakeAnswer, GiveUp, Withdraw, ClientDies, Over, vars
<1>. QED BY <1>1, <1>2 DEF Withdrawn

LEMMA LateAnswersInductive == ASSUME IInv, LateAnswers, [Next]_vars PROVE LateAnswers'
<1>. USE DEF IInv, TypeOK, Types, LateAnswers
<1>. DEFINE Stay == \A c \in Calls : call[c] # "none" /\ Withdrawn(c) => Withdrawn(c)'
<1>0. Stay
  BY WithdrawnStays
<1>. HIDE DEF Stay
<1>1. ASSUME NEW b \in Builds, StartCall(b) PROVE LateAnswers'
  <2>. DEFINE new == nextCallback + 1
  <2>1. /\ new \in Calls /\ call[new] = "none" /\ call'[new] = "listed" /\ callbacks' = callbacks \cup {new}
        /\ \A c \in Calls \ {new} : call'[c] = call[c]
        /\ UNCHANGED <<asked, answered, verdict, writeError>>
    BY <1>1, SessionAssumption DEF StartCall, Calls, OpenCalls
  <2>2. new \notin asked
    BY <2>1
  <2>. QED BY <1>0, <2>1, <2>2 DEF Stay
<1>2. ASSUME NEW c \in Calls, AnswerArrives(c) PROVE LateAnswers'
  BY <1>0, <1>2 DEF AnswerArrives, Withdrawn, Stay
<1>3. ASSUME NEW c \in Calls, AnswerUnknown(c) PROVE LateAnswers'
  <2>1. cancelled = {}
    BY <1>3 DEF AnswerUnknown, Reader
  <2>2. c \in Slow \/ writeError # None
    BY <1>3, <2>1 DEF AnswerUnknown, Withdrawn
  <2>. QED BY <1>0, <1>3, <2>2 DEF AnswerUnknown, Withdrawn, Stay
<1>4. ASSUME NEW c \in Calls, SendCall(c) PROVE LateAnswers'
  <2>1. /\ call[c] = "listed" /\ call' = [call EXCEPT ![c] = "sent"]
        /\ asked' \in {asked, asked \cup {c}}
        /\ UNCHANGED <<callbacks, caller, answered, verdict, cancelled>>
        /\ writeError # None => writeError' # None
    BY <1>4, SessionAssumption DEF SendCall, Fails
  <2>2. c \in callbacks
    BY <2>1
  <2>. QED BY <1>0, <2>1, <2>2 DEF Withdrawn, Stay
<1>5. ASSUME NEW c \in Calls, CheckCall(c) PROVE LateAnswers'
  <2>1. CASE WriteFailed
    BY <1>0, <1>5, <2>1 DEF CheckCall, WriteFailed, Withdrawn, Stay
  <2>2. CASE ~WriteFailed
    BY <1>0, <1>5, <2>2 DEF CheckCall, Withdrawn, Stay
  <2>. QED BY <2>1, <2>2
<1>6. ASSUME NEW c \in Calls, TakeAnswer(c) PROVE LateAnswers'
  BY <1>0, <1>6 DEF TakeAnswer, Withdrawn, Stay
<1>7. ASSUME NEW c \in Calls, GiveUp(c, BuildCancelled(c)) \/ GiveUp(c, c \in Slow) PROVE LateAnswers'
  BY <1>0, <1>7 DEF GiveUp, BuildCancelled, Withdrawn, Stay
<1>8. ASSUME NEW c \in Calls, Withdraw(c) PROVE LateAnswers'
  BY <1>0, <1>8 DEF Withdraw, Unlisted, Withdrawn, Stay
<1>9. CASE UNCHANGED <<call, callbacks, asked, answered>> /\ (verdict' = "unknownId" => verdict = "unknownId")
           /\ (writeError # None => writeError' # None)
  BY <1>0, <1>9 DEF Stay
<1>10. ASSUME NEW b \in Builds, RefuseBuild(b) \/ RefuseBusy(b) \/ StartBuild(b) \/ SpawnFails(b) \/ Respond(b)
       PROVE  /\ UNCHANGED <<call, callbacks, asked, answered>> /\ (verdict' = "unknownId" => verdict = "unknownId")
              /\ (writeError # None => writeError' # None)
  BY <1>10, SessionAssumption
     DEF RefuseBuild, RefuseBusy, StartBuild, SpawnFails, Respond, Request, Reply, Fails
<1>11. ASSUME \/ \E wish \in {"plain", "callbacks", "refused"} : Handshake(wish)
              \/ \E why \in {"ended", "malformed"} : ReadEnd(why)
              \/ ReadShutdown \/ ReaderStep \/ ClientDies \/ Over \/ UNCHANGED vars
              \/ \E b \in Builds : FinishBuild(b) \/ Panic(b) \/ ClearActive(b) \/ Leave(b)
       PROVE  /\ UNCHANGED <<call, callbacks, asked, answered>> /\ (verdict' = "unknownId" => verdict = "unknownId")
              /\ (writeError # None => writeError' # None)
  BY <1>11, SessionAssumption
     DEF Handshake, ReadEnd, ReadShutdown, ReaderStep, CheckWrites, AnswerShutdown, Blame, Cancel, Exit,
         ClientDies, FinishBuild, Panic, ClearActive, Leave, Say, Fails, Over, vars
<1>. QED BY <1>1, <1>2, <1>3, <1>4, <1>5, <1>6, <1>7, <1>8, <1>9, <1>10, <1>11 DEF Next, BuildStep, CallStep

LEMMA StopInvariance == Spec => [](Stopped /\ LateAnswers)
<1>1. Init => Stopped /\ LateAnswers
  BY SessionAssumption DEF Init, Stopped, LateAnswers, Calls
<1>2. IInv /\ Stopped /\ LateAnswers /\ [Next]_vars => Stopped' /\ LateAnswers'
  BY StoppedInductive, LateAnswersInductive
<1>. QED BY <1>1, <1>2, Invariance, PTL DEF Spec

\* Whoever waits for the builds waits for no answer of the client: each call that is
\* open belongs to a build whose cancellation it looks at; and when the reader is
\* done no build, and no call of one, is left (buildapi.rs, run and wait_builds).
StopReachesCalls ==
  /\ reader \in {"shutdown", "waiting"} =>
       \A c \in Calls : call[c] \in {"listed", "sent", "waiting", "givingUp"} => caller[c] \in cancelled
  /\ reader = "exited" => Running = {} /\ callbacks = {}

\* However a session stops, it waits for no call that nothing ends (wait_builds).
THEOREM StopsReachAll == Spec => []StopReachesCalls
<1>1. IInv /\ Stopped => StopReachesCalls
  <2>. SUFFICES ASSUME IInv, Stopped PROVE StopReachesCalls
    OBVIOUS
  <2>. USE DEF IInv, TypeOK, Types
  <2>1. ASSUME reader \in {"shutdown", "waiting"},
               NEW c \in Calls, call[c] \in {"listed", "sent", "waiting", "givingUp"}
        PROVE  caller[c] \in cancelled
    <3>1. caller[c] \in Builds /\ active = caller[c]
      BY <2>1 DEF OpenCalls, ActiveBuild
    <3>. QED BY <2>1, <3>1, SessionAssumption DEF Stopped
  <2>2. ASSUME reader = "exited" PROVE Running = {} /\ callbacks = {}
    <3>1. Running = {}
      BY <2>2, NobodyRuns DEF Reader
    <3>2. \A c \in callbacks : caller[c] \in Running
      BY DEF OpenCalls, ListedAreWaitedFor, Running
    <3>. QED BY <3>1, <3>2
  <2>. QED BY <2>1, <2>2 DEF StopReachesCalls
<1>. QED BY <1>1, Invariance, StopInvariance, PTL

\* A client that answers each callback once is never told that it made one up, unless a
\* write failed or it answered a callback that outlived its deadline: a sender is taken
\* off the table by its answer, and before it only by a call that gave up (buildapi.rs,
\* complete_callback and call_transformer).
NoAnswerUnknown == verdict = "unknownId" => answered \cap Slow # {} \/ writeError # None

\* Only a late answer, or one after a failed write, is unknown (complete_callback).
THEOREM AnswersKnown == Spec => []NoAnswerUnknown
<1>1. LateAnswers => NoAnswerUnknown
  BY DEF LateAnswers, NoAnswerUnknown
<1>. QED BY <1>1, StopInvariance, PTL

-----------------------------------------------------------------------------
(***************************************************************************)
(* The refinement of BuildService.                                         *)
(***************************************************************************)

\* Whatever ends a session is known by the time it stops, a build is blamed only for a
\* failure, and a build that has ended has an outcome.
Explained ==
  /\ reader \in {"served", "stopping", "waiting", "exited"} => verdict # None
  /\ blamed # {} => verdict \notin {None, "ended"}
  /\ \A b \in Builds : stage[b] \in {"built", "cleared"} => outcome[b] \in {"result", "cancelled"}
  /\ asked \subseteq Calls /\ \A c \in asked : call[c] # "listed"

LEMMA ExplainedInductive == ASSUME IInv, LateAnswers, Explained, [Next]_vars PROVE Explained'
<1>. USE DEF Explained, IInv, TypeOK, Types
<1>0. None \notin {"ended", "malformed", "unknownId", "writeError"}
  BY SessionAssumption
<1>1. ASSUME NEW b \in Builds, RefuseBuild(b) \/ RefuseBusy(b) \/ StartBuild(b) \/ SpawnFails(b)
      PROVE  Explained'
  <2>1. /\ reader' = "check" /\ UNCHANGED <<verdict, blamed, outcome, call>>
        /\ \A a \in Builds : stage'[a] \in {stage[a], "over", "building"}
    BY <1>1 DEF RefuseBuild, RefuseBusy, StartBuild, SpawnFails, Request
  <2>2. asked' = asked
    BY <1>1 DEF RefuseBuild, RefuseBusy, StartBuild, SpawnFails, Reply, Fails
  <2>. QED BY <2>1, <2>2
<1>2. ASSUME NEW b \in Builds, FinishBuild(b) PROVE Explained'
  BY <1>0, <1>2 DEF FinishBuild
<1>3. ASSUME NEW b \in Builds, ClearActive(b) \/ Leave(b) \/ Panic(b) PROVE Explained'
  BY <1>3 DEF ClearActive, Leave, Panic
<1>4. ASSUME NEW b \in Builds, Respond(b) PROVE Explained'
  BY <1>4 DEF Respond, Reply, Fails
<1>5. ASSUME NEW b \in Builds, StartCall(b) PROVE Explained'
  <2>1. /\ UNCHANGED <<reader, verdict, blamed, stage, outcome, asked>>
        /\ nextCallback + 1 \notin asked
        /\ \A c \in Calls \ {nextCallback + 1} : call'[c] = call[c]
    BY <1>5 DEF StartCall, OpenCalls, LateAnswers
  <2>. QED BY <2>1
<1>6. ASSUME NEW c \in Calls, SendCall(c) PROVE Explained'
  BY <1>6 DEF SendCall, Fails
<1>7. ASSUME NEW c \in Calls,
             CheckCall(c) \/ TakeAnswer(c) \/ GiveUp(c, BuildCancelled(c)) \/ GiveUp(c, c \in Slow) \/ Withdraw(c)
      PROVE  Explained'
  BY <1>7 DEF CheckCall, TakeAnswer, GiveUp, Withdraw
<1>8. CASE CheckWrites \/ (\E why \in {"ended", "malformed"} : ReadEnd(why)) \/ ReadShutdown
  BY <1>0, <1>8 DEF CheckWrites, ReadEnd, ReadShutdown, Reader
<1>9. CASE AnswerShutdown
  <2>1. asked' = asked
    BY <1>9, SayTyped DEF AnswerShutdown
  <2>. QED BY <1>0, <1>9, <2>1 DEF AnswerShutdown, Reader
<1>10. CASE Blame
  BY <1>10 DEF Blame, Blamed
<1>11. CASE Cancel \/ Exit
  BY <1>11 DEF Cancel, Exit
<1>12. ASSUME NEW wish \in {"plain", "callbacks", "refused"}, Handshake(wish) PROVE Explained'
  <2>1. asked' = asked
    BY <1>12, SayTyped DEF Handshake
  <2>. QED BY <1>12, <2>1 DEF Handshake
<1>13. ASSUME NEW c \in Calls, AnswerArrives(c) \/ AnswerUnknown(c) PROVE Explained'
  BY <1>0, <1>13 DEF AnswerArrives, AnswerUnknown, Reader
<1>14. CASE ClientDies \/ Over \/ UNCHANGED vars
  BY <1>14 DEF ClientDies, Over, vars
<1>. QED BY <1>1, <1>2, <1>3, <1>4, <1>5, <1>6, <1>7, <1>8, <1>9, <1>10, <1>11, <1>12, <1>13, <1>14
         DEF Next, ReaderStep, BuildStep, CallStep

Seen == <<Session, Requested, active, output = "open", reply, asked>>

\* A reply in the code is one of the protocol's: it arrives, or is lost with the client.
LEMMA ReplyMaps ==
  ASSUME IInv, NEW b \in Builds, NEW kind \in {"refused", "busy", "failed", "result", "cancelled"},
         NEW over \in {"over", "responded"}, Reply(b, kind), stage' = [stage EXCEPT ![b] = over]
  PROVE  Promise!Says(b, kind) /\ asked' = asked
<1>1. Requested' = [Requested EXCEPT ![b] = "closed"]
  BY DEF Requested, IInv, TypeOK, Types
<1>2. reply' = IF output = "open" THEN [reply EXCEPT ![b] = kind] ELSE reply
  BY DEF Reply, Fails, IInv, TypeOK, Types
<1>. QED BY <1>1, <1>2, ReplyTyped DEF Promise!Says, IInv, TypeOK

LEMMA InitMaps == Init => Promise!Init
BY DEF Init, Promise!Init, Session, Requested, Alive

\* The steps of the reader.
LEMMA ReadingMaps ==
  ASSUME IInv, Explained, NEW b \in Builds,
         RefuseBuild(b) \/ RefuseBusy(b) \/ StartBuild(b) \/ SpawnFails(b)
  PROVE  Promise!Next
<1>. USE DEF IInv, TypeOK, Types
<1>1. /\ reader = "read" /\ reader' = "check" /\ stage[b] = "unsent" /\ output' = output
      /\ Session = "open" /\ Session' = Session /\ Requested[b] = "unsent"
  BY DEF RefuseBuild, RefuseBusy, StartBuild, SpawnFails, Request, Session, Requested
<1>2. ASSUME NEW kind \in {"refused", "busy", "failed"}, Reply(b, kind), active' = active,
             stage' = [stage EXCEPT ![b] = "over"], kind = "busy" => active # None
      PROVE  Promise!Next
  <2>1. Promise!Refuse(b, kind)
    BY <1>1, <1>2, ReplyMaps DEF Promise!Refuse
  <2>. QED BY <2>1 DEF Promise!Next
<1>3. CASE RefuseBuild(b)
  BY <1>2, <1>3 DEF RefuseBuild
<1>4. CASE RefuseBusy(b)
  BY <1>2, <1>4 DEF RefuseBusy, Busy
<1>5. CASE SpawnFails(b)
  BY <1>2, <1>5 DEF SpawnFails, Busy
<1>6. CASE StartBuild(b)
  <2>1. /\ Requested' = [Requested EXCEPT ![b] = "open"]
        /\ active = None /\ active' = b /\ UNCHANGED <<reply, asked>>
    BY <1>6 DEF StartBuild, Requested, Busy
  <2>2. Promise!Accept(b)
    BY <1>1, <2>1 DEF Promise!Accept
  <2>. QED BY <2>2 DEF Promise!Next
<1>. QED BY <1>3, <1>4, <1>5, <1>6

LEMMA StoppingMaps ==
  ASSUME IInv, Explained, UNCHANGED <<stage, active, output, reply, asked>>,
         \/ CheckWrites \/ ReadShutdown \/ AnswerShutdown \/ Blame \/ Cancel \/ Exit
         \/ \E why \in {"ended", "malformed"} : ReadEnd(why)
         \/ \E c \in Calls : AnswerUnknown(c)
         \/ \E wish \in {"plain", "callbacks", "refused"} : Handshake(wish)
  PROVE  Promise!Next \/ UNCHANGED Seen
<1>. USE DEF IInv, TypeOK, Types
<1>0. None \notin {"ended", "malformed", "unknownId", "writeError"}
  BY SessionAssumption
<1>1. Requested' = Requested
  BY DEF Requested
<1>2. builds = 0 => \A b \in Builds : Requested[b] # "open"
  BY NobodyRuns DEF Running, Requested
<1>3. CASE Session' = Session
  BY <1>1, <1>3 DEF Seen
<1>4. ASSUME Session = "open", NEW why \in {"shutdown", "ended", "failed"}, Session' = why
      PROVE  Promise!Next
  <2>1. Promise!Stop(why)
    BY <1>1, <1>4 DEF Promise!Stop
  <2>. QED BY <2>1 DEF Promise!Next
<1>5. CASE AnswerShutdown
  <2>1. Session = "shutdown" /\ Session' = "ended" /\ builds = 0
    BY <1>5 DEF AnswerShutdown, BuildsOver, Session, Alive
  <2>2. Promise!AnswerShutdown
    BY <1>1, <1>2, <2>1 DEF Promise!AnswerShutdown, Promise!Settled
  <2>. QED BY <2>2 DEF Promise!Next
<1>6. CASE Exit
  <2>1. Session \in {"ended", "failed"} /\ Session' = "over" /\ builds = 0
    BY <1>6 DEF Exit, BuildsOver, Session, Alive
  <2>2. Promise!Leave
    BY <1>1, <1>2, <2>1 DEF Promise!Leave, Promise!Settled
  <2>. QED BY <2>2 DEF Promise!Next
<1>7. CASE Blame \/ Cancel
  BY <1>3, <1>7 DEF Blame, Cancel, Session, Alive
<1>8. CASE ReadShutdown
  BY <1>4, <1>8 DEF ReadShutdown, Session, Alive
<1>9. CASE CheckWrites
  <2>1. /\ Session = "open"
        /\ Session' \in {"open", "failed"}
    BY <1>0, <1>9 DEF CheckWrites, Session, Alive
  <2>. QED BY <1>3, <1>4, <2>1
<1>10. CASE \E why \in {"ended", "malformed"} : ReadEnd(why)
  <2>1. /\ Session = "open"
        /\ Session' \in {"ended", "failed"}
    BY <1>10 DEF ReadEnd, Session, Alive
  <2>. QED BY <1>4, <2>1
<1>11. CASE \E c \in Calls : AnswerUnknown(c)
  <2>1. /\ Session = "open"
        /\ Session' = "failed"
    BY <1>11 DEF AnswerUnknown, Session, Alive
  <2>. QED BY <1>4, <2>1
<1>12. CASE \E wish \in {"plain", "callbacks", "refused"} : Handshake(wish)
  BY <1>3, <1>12 DEF Handshake, Session
<1>. QED BY <1>5, <1>6, <1>7, <1>8, <1>9, <1>10, <1>11, <1>12

\* The steps of a build's thread.
LEMMA BuildMaps ==
  ASSUME IInv, Explained, NEW b \in Builds, BuildStep(b) \/ Panic(b)
  PROVE  Promise!Next \/ UNCHANGED Seen
<1>. USE DEF IInv, TypeOK, Types
<1>0. None \notin {"ended", "cancelled"} /\ None \notin Builds
  BY SessionAssumption
<1>1. CASE FinishBuild(b)
  <2>1. Session' = Session /\ Requested' = Requested
    BY <1>1 DEF FinishBuild, Session, Requested, Alive
  <2>. QED BY <1>1, <2>1 DEF FinishBuild, Seen
<1>2. CASE ClearActive(b)
  <2>1. Session' = Session /\ Requested' = Requested
    BY <1>2 DEF ClearActive, Session, Requested, Alive
  <2>2. Session # "over" /\ active = b /\ active' = None /\ UNCHANGED <<output, reply, asked>>
    BY <1>2 DEF ClearActive, Cleared, ActiveBuild, Session, Alive
  <2>3. Promise!Conclude
    BY <1>0, <2>1, <2>2 DEF Promise!Conclude
  <2>. QED BY <2>3 DEF Promise!Next
<1>3. CASE Respond(b)
  <2>. DEFINE kind == IF outcome[b] = "cancelled" /\ b \in blamed THEN "failed" ELSE outcome[b]
  <2>1. /\ Alive /\ stage[b] = "cleared" /\ UNCHANGED <<reader, verdict, active, output>>
        /\ Reply(b, kind) /\ stage' = [stage EXCEPT ![b] = "responded"]
    BY <1>3 DEF Respond
  <2>2. kind \in {"result", "cancelled", "failed"}
    BY <2>1 DEF Explained
  <2>3. kind = "failed" => Session = "failed"
    BY <2>1 DEF Explained, Session, Reader
  <2>4. kind = "cancelled" => Session \in {"shutdown", "ended"}
    <3>1. kind = "cancelled" => b \in cancelled \ blamed
      BY <1>0 DEF Causes
    <3>2. kind = "cancelled" => verdict \in {None, "ended"} /\ reader \notin {"read", "check"}
      BY <3>1 DEF Causes, Reader
    <3>. QED BY <2>1, <3>2 DEF Session, Explained, Alive
  <2>5. Session' = Session /\ Session # "over" /\ Requested[b] = "open" /\ b # active
    BY <2>1 DEF Session, Alive, Requested, ActiveBuild
  <2>. HIDE DEF kind
  <2>6. Promise!Says(b, kind) /\ asked' = asked
    BY <2>1, <2>2, ReplyMaps
  <2>7. Promise!Respond(b, kind)
    BY <2>1, <2>3, <2>4, <2>5, <2>6 DEF Promise!Respond
  <2>. QED BY <2>2, <2>7 DEF Promise!Next
<1>4. CASE Leave(b)
  <2>1. Session' = Session /\ Requested' = Requested
    BY <1>4 DEF Leave, Session, Requested, Alive
  <2>. QED BY <1>4, <2>1 DEF Leave, Seen
<1>5. CASE Panic(b)
  <2>1. Session # "over" /\ Session' = "over" /\ Requested' = Requested
    BY <1>5 DEF Panic, Session, Requested, Alive
  <2>2. active = b /\ UNCHANGED <<active, output, reply, asked>>
    BY <1>5 DEF Panic, ActiveBuild
  <2>3. Promise!Crash
    BY <1>0, <2>1, <2>2 DEF Promise!Crash
  <2>. QED BY <2>3 DEF Promise!Next
<1>. QED BY <1>1, <1>2, <1>3, <1>4, <1>5 DEF BuildStep

\* A callback is asked of the client while its build is the current one.
LEMMA CallMaps ==
  ASSUME IInv, Explained, NEW c \in Calls, SendCall(c)
  PROVE  Promise!Next \/ UNCHANGED Seen
<1>. USE DEF IInv, TypeOK, Types
<1>1. Session' = Session /\ Requested' = Requested /\ UNCHANGED <<active, output, reply>>
  BY DEF SendCall, Session, Requested, Alive, Fails
<1>2. Session # "over" /\ active # None /\ c \notin asked
  BY SessionAssumption DEF SendCall, Alive, Session, OpenCalls, ActiveBuild, Explained
<1>3. CASE output = "closed"
  BY <1>1, <1>3 DEF SendCall, Fails, Seen
<1>4. CASE output = "open"
  <2>1. asked' = asked \cup {c}
    BY <1>4 DEF SendCall
  <2>2. Promise!Ask(c)
    BY <1>1, <1>2, <1>4, <2>1 DEF Promise!Ask
  <2>. QED BY <2>2 DEF Promise!Next
<1>. QED BY <1>3, <1>4

LEMMA StepMaps == ASSUME IInv, Explained, [Next]_vars PROVE Promise!Next \/ UNCHANGED Seen
<1>1. CASE \E b \in Builds : RefuseBuild(b) \/ RefuseBusy(b) \/ StartBuild(b) \/ SpawnFails(b)
  BY <1>1, ReadingMaps
<1>2. ASSUME \/ ReaderStep \/ ReadShutdown
             \/ \E why \in {"ended", "malformed"} : ReadEnd(why)
             \/ \E c \in Calls : AnswerUnknown(c)
             \/ \E wish \in {"plain", "callbacks", "refused"} : Handshake(wish)
      PROVE  Promise!Next \/ UNCHANGED Seen
  <2>1. UNCHANGED <<stage, active, output>>
    BY <1>2 DEF ReaderStep, ReadShutdown, ReadEnd, AnswerUnknown, Handshake, CheckWrites,
                AnswerShutdown, Blame, Cancel, Exit
  <2>2. UNCHANGED <<reply, asked>>
    BY <1>2, SayTyped DEF ReaderStep, ReadShutdown, ReadEnd, AnswerUnknown, Handshake, CheckWrites,
                AnswerShutdown, Blame, Cancel, Exit
  <2>. QED BY <1>2, <2>1, <2>2, StoppingMaps DEF ReaderStep
<1>3. CASE \E b \in Builds : BuildStep(b) \/ Panic(b)
  BY <1>3, BuildMaps
<1>4. CASE \E c \in Calls : SendCall(c)
  BY <1>4, CallMaps
<1>5. CASE UNCHANGED <<reader, verdict, stage, active, output, reply, asked>>
  BY <1>5 DEF Seen, Session, Requested, Alive
<1>6. CASE ClientDies
  <2>1. /\ Session # "over" /\ output = "open" /\ output' = "closed"
        /\ Session' = Session /\ Requested' = Requested /\ UNCHANGED <<active, reply, asked>>
    BY <1>6 DEF ClientDies, Session, Requested, Alive
  <2>2. Promise!Disconnect
    BY <2>1 DEF Promise!Disconnect
  <2>. QED BY <2>2 DEF Promise!Next
<1>7. CASE \E b \in Builds : StartCall(b)
  BY <1>5, <1>7 DEF StartCall
<1>8. CASE \E c \in Calls : \/ AnswerArrives(c) \/ CheckCall(c) \/ TakeAnswer(c) \/ Withdraw(c)
                            \/ GiveUp(c, BuildCancelled(c)) \/ GiveUp(c, c \in Slow)
  BY <1>5, <1>8 DEF AnswerArrives, CheckCall, TakeAnswer, Withdraw, GiveUp
<1>9. CASE Over \/ UNCHANGED vars
  BY <1>5, <1>9 DEF Over, vars
<1>. QED BY <1>1, <1>2, <1>3, <1>4, <1>6, <1>7, <1>8, <1>9 DEF Next, CallStep

\* For any number of requests and callbacks the session does what BuildService
\* promises its client: one build at a time, one response each with the true cause,
\* nothing after the last answer (buildapi.rs as a whole).
THEOREM Refinement == Spec => ImplementsBuildService
<1>1. Spec => []Explained
  <2>1. Init => Explained
    BY SessionAssumption DEF Init, Explained
  <2>2. IInv /\ LateAnswers /\ Explained /\ [Next]_vars => Explained'
    BY ExplainedInductive
  <2>. QED BY <2>1, <2>2, Invariance, StopInvariance, PTL DEF Spec
<1>2. IInv /\ Explained /\ [Next]_vars => [Promise!Next]_(Promise!vars)
  BY StepMaps DEF Seen, Promise!vars
<1>. QED BY <1>1, <1>2, InitMaps, Invariance, PTL DEF Spec, ImplementsBuildService, Promise!Spec
=============================================================================
