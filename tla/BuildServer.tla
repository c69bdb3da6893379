----------------------------- MODULE BuildServer -----------------------------
(***************************************************************************)
(* rotor_cli's buildapi.rs with the build function of api_server.rs: one   *)
(* session of the build API.  The reader thread handles one message after  *)
(* another, every accepted build runs on a thread of its own, and the      *)
(* threads of a build call back into the client and wait for its answers.  *)
(* The client is any client: a message exists when the reader reads it, a  *)
(* line reaches the client when it is written.  The client uses an id for  *)
(* one request and answers a callback once, after it got it.               *)
(***************************************************************************)
EXTENDS Naturals, FiniteSets

CONSTANTS Builds,    \* the ids of the build requests
          MaxCalls,  \* how many callbacks the session makes
          Slow,      \* the callbacks that may take longer than their deadline
          None

Calls == 1 .. MaxCalls

ASSUME SessionAssumption ==
  /\ IsFiniteSet(Builds) /\ None \notin Builds
  /\ MaxCalls \in Nat
  /\ Slow \subseteq Calls
  /\ None \notin {"brokenPipe", "busy", "cancelled", "shutdown",
                 "ended", "malformed", "unknownId", "writeError"}

VARIABLES
  reader,       \* where the reader thread is in run, serve and its handlers
  verdict,      \* how serve ended
  initialized,  \* the flag, with what the client asked for
  active,       \* Server::active, the id of its build
  builds,       \* Server::builds, the threads that shutdown waits for
  cancelled,    \* the builds whose Cancellation is cancelled
  blamed,       \* the builds whose cause is set
  stage,        \* where the thread of each build is
  outcome,      \* what the build function returned
  nextCallback, \* Server::next_callback
  callbacks,    \* Server::callbacks, the calls whose sender is listed
  call, caller, \* where each call_transformer is, and the build it belongs to
  arrived,      \* the calls whose channel holds an answer
  output,       \* whether the client's end of our output is open or closed
  writeError,   \* Server::write_error
  replies,      \* history: the number of responses to each build request
  reply,        \* history: the last of them
  last,         \* history: the last line written
  asked,        \* history: the callback requests that reached the client
  answered,     \* history: those that the client has answered
  overlapping   \* history: the requests made while another had no response

reading == <<reader, verdict, initialized>>
building == <<active, builds, cancelled, blamed, stage, outcome>>
calling == <<nextCallback, callbacks, call, caller, arrived>>
lines == <<writeError, replies, reply, last, asked>>
client == <<output, answered, overlapping>>
vars == <<reading, building, calling, lines, client>>

Init ==
  /\ reader = "read" /\ verdict = None /\ initialized = "no"
  /\ active = None /\ builds = 0 /\ cancelled = {} /\ blamed = {}
  /\ stage = [b \in Builds |-> "unsent"]
  /\ outcome = [b \in Builds |-> None]
  /\ nextCallback = 0 /\ callbacks = {} /\ arrived = {}
  /\ call = [c \in Calls |-> "none"]
  /\ caller = [c \in Calls |-> None]
  /\ output = "open" /\ writeError = None
  /\ replies = [b \in Builds |-> 0]
  /\ reply = [b \in Builds |-> None]
  /\ last = None /\ asked = {} /\ answered = {} /\ overlapping = {}

\* write_line: a line reaches the client, or the first error is kept.
Fails == writeError' = "brokenPipe" /\ UNCHANGED <<replies, reply, last, asked>>

Reply(b, kind) ==
  IF output = "closed" THEN Fails
  ELSE /\ replies' = [replies EXCEPT ![b] = @ + 1]
       /\ reply' = [reply EXCEPT ![b] = kind]
       /\ last' = "response"
       /\ UNCHANGED <<writeError, asked>>

Say(line) ==
  IF output = "closed" THEN Fails
  ELSE last' = line /\ UNCHANGED <<writeError, replies, reply, asked>>

Alive == reader \notin {"exited", "crashed"}
-----------------------------------------------------------------------------
(* The reader: serve reads a message.                                       *)

\* initialize answers a handshake; only the first good one counts.
Handshake(wish) ==
  /\ reader = "read"
  /\ initialized' = IF initialized = "no" /\ wish # "refused" THEN wish ELSE initialized
  /\ Say("handshake")
  /\ reader' = "check"
  /\ UNCHANGED <<verdict, building, calling, client>>

Unanswered == {b \in Builds : stage[b] # "unsent" /\ replies[b] = 0}

\* start_build reads a request, made perhaps while another has no response.
Request(b) ==
  /\ reader = "read" /\ stage[b] = "unsent"
  /\ overlapping' = IF Unanswered = {} THEN overlapping ELSE overlapping \cup {b}
  /\ reader' = "check"
  /\ UNCHANGED <<verdict, initialized, cancelled, blamed, outcome, calling, output, answered>>

\* A request before initialize, or one whose parameters do not decode.
RefuseBuild(b) ==
  /\ Request(b)
  /\ Reply(b, "refused")
  /\ stage' = [stage EXCEPT ![b] = "over"]
  /\ UNCHANGED <<active, builds>>

Busy == active # None

RefuseBusy(b) ==
  /\ Request(b) /\ initialized # "no" /\ Busy
  /\ Reply(b, "busy")
  /\ stage' = [stage EXCEPT ![b] = "over"]
  /\ UNCHANGED <<active, builds>>

StartBuild(b) ==
  /\ Request(b) /\ initialized # "no" /\ ~Busy
  /\ active' = b
  /\ builds' = builds + 1
  /\ stage' = [stage EXCEPT ![b] = "building"]
  /\ UNCHANGED lines

SpawnLeaks(b) ==
  /\ Request(b) /\ initialized # "no" /\ ~Busy
  /\ active' = None
  /\ builds' = builds + 1
  /\ Reply(b, "failed")
  /\ stage' = [stage EXCEPT ![b] = "over"]

\* The thread does not start: the build is neither active nor counted.
SpawnFails(b) ==
  /\ Request(b) /\ initialized # "no" /\ ~Busy
  /\ active' = None
  /\ builds' = builds
  /\ Reply(b, "failed")
  /\ stage' = [stage EXCEPT ![b] = "over"]

\* complete_callback takes the sender off the table and hands it the answer; the
\* loop goes on without a look at the write error.
AnswerArrives(c) ==
  /\ reader = "read" /\ c \in asked \ answered /\ c \in callbacks
  /\ answered' = answered \cup {c}
  /\ callbacks' = callbacks \ {c}
  /\ arrived' = arrived \cup {c}
  /\ UNCHANGED <<reading, building, nextCallback, call, caller, lines, output, overlapping>>

\* An answer nobody is listed for ends the session.
AnswerUnknown(c) ==
  /\ reader = "read" /\ c \in asked \ answered /\ c \notin callbacks
  /\ answered' = answered \cup {c}
  /\ verdict' = "unknownId" /\ reader' = "served"
  /\ UNCHANGED <<initialized, building, calling, lines, output, overlapping>>

\* After a request, serve ends if a write failed, on whatever thread.
CheckWrites ==
  /\ reader = "check"
  /\ IF writeError # None THEN verdict' = "writeError" /\ reader' = "served"
                   ELSE verdict' = verdict /\ reader' = "read"
  /\ UNCHANGED <<initialized, building, calling, lines, client>>

\* The end of the input, a message that does not decode, or a shutdown.
ReadEnd(why) ==
  /\ reader = "read"
  /\ verdict' = why /\ reader' = "served"
  /\ UNCHANGED <<initialized, building, calling, lines, client>>

ReadShutdown ==
  /\ reader = "read"
  /\ cancelled' = cancelled \cup ({active} \ {None})
  /\ reader' = "shutdown"
  /\ UNCHANGED <<verdict, initialized, active, builds, blamed, stage, outcome, calling, lines, client>>

\* wait_builds: the count is under the mutex of the condition variable.
NoneActive == active = None
BuildsOver == builds = 0

AnswerShutdown ==
  /\ reader = "shutdown" /\ BuildsOver
  /\ Say("shutdown")
  /\ verdict' = "ended" /\ reader' = "served"
  /\ UNCHANGED <<initialized, building, calling, client>>

\* run after serve: stop_active_build stores the error as the cause and then
\* cancels, both while it holds the lock of active.
Unblamed == blamed
Blamed == IF verdict = "ended" THEN blamed ELSE blamed \cup ({active} \ {None})

Blame ==
  /\ reader = "served"
  /\ blamed' = Blamed
  /\ reader' = "stopping"
  /\ UNCHANGED <<verdict, initialized, active, builds, cancelled, stage, outcome, calling, lines, client>>

Cancel ==
  /\ reader = "stopping"
  /\ cancelled' = cancelled \cup ({active} \ {None})
  /\ reader' = "waiting"
  /\ UNCHANGED <<verdict, initialized, active, builds, blamed, stage, outcome, calling, lines, client>>

Exit ==
  /\ reader = "waiting" /\ BuildsOver
  /\ reader' = "exited"
  /\ UNCHANGED <<verdict, initialized, building, calling, lines, client>>

ReaderStep == CheckWrites \/ AnswerShutdown \/ Blame \/ Cancel \/ Exit
-----------------------------------------------------------------------------
(* The thread of a build.                                                    *)

\* The drain ends when its projects have ended.  run_api_build then looks at the
\* cancellation; a request whose setup fails has its result without that look.
FinishBuild(b) ==
  /\ Alive /\ stage[b] = "building"
  /\ \A c \in Calls : caller[c] = b => call[c] = "back"
  /\ \E o \in {"result"} \cup (IF b \in cancelled THEN {"cancelled"} ELSE {}) :
       outcome' = [outcome EXCEPT ![b] = o]
  /\ stage' = [stage EXCEPT ![b] = "built"]
  /\ UNCHANGED <<reading, active, builds, cancelled, blamed, calling, lines, client>>

\* A panic ends the process.
Panic(b) ==
  /\ Alive /\ stage[b] = "building"
  /\ reader' = "crashed"
  /\ UNCHANGED <<verdict, initialized, building, calling, lines, client>>

StillActive(b) == active
Cleared(b) == IF active = b THEN None ELSE active

\* The lock of active is the reader's while it stops the build.
ClearActive(b) ==
  /\ Alive /\ stage[b] = "built" /\ reader # "stopping"
  /\ active' = Cleared(b)
  /\ stage' = [stage EXCEPT ![b] = "cleared"]
  /\ UNCHANGED <<reading, builds, cancelled, blamed, outcome, calling, lines, client>>

\* A build that was cancelled with a cause failed with it.
Respond(b) ==
  /\ Alive /\ stage[b] = "cleared"
  /\ Reply(b, IF outcome[b] = "cancelled" /\ b \in blamed THEN "failed" ELSE outcome[b])
  /\ stage' = [stage EXCEPT ![b] = "responded"]
  /\ UNCHANGED <<reading, active, builds, cancelled, blamed, outcome, calling, client>>

Leave(b) ==
  /\ Alive /\ stage[b] = "responded"
  /\ builds' = builds - 1
  /\ stage' = [stage EXCEPT ![b] = "over"]
  /\ UNCHANGED <<reading, active, cancelled, blamed, outcome, calling, lines, client>>

BuildStep(b) == FinishBuild(b) \/ ClearActive(b) \/ Respond(b) \/ Leave(b)
-----------------------------------------------------------------------------
(* call_transformer, on a thread that builds a project.                      *)

\* Its id is fresh, and its sender is listed before its request is written.
StartCall(b) ==
  /\ Alive /\ stage[b] = "building" /\ initialized = "callbacks"
  /\ nextCallback < MaxCalls
  /\ nextCallback' = nextCallback + 1
  /\ callbacks' = callbacks \cup {nextCallback + 1}
  /\ call' = [call EXCEPT ![nextCallback + 1] = "listed"]
  /\ caller' = [caller EXCEPT ![nextCallback + 1] = b]
  /\ UNCHANGED <<reading, building, arrived, lines, client>>

SendCall(c) ==
  /\ Alive /\ call[c] = "listed"
  /\ IF output = "closed" THEN Fails
     ELSE /\ asked' = asked \cup {c}
          /\ last' = "callback"
          /\ UNCHANGED <<writeError, replies, reply>>
  /\ call' = [call EXCEPT ![c] = "sent"]
  /\ UNCHANGED <<reading, building, nextCallback, callbacks, caller, arrived, client>>

\* A write error, of whatever thread, ends the call.
WriteFailed == writeError # None

CheckCall(c) ==
  /\ Alive /\ call[c] = "sent"
  /\ IF WriteFailed
     THEN callbacks' = callbacks \ {c} /\ call' = [call EXCEPT ![c] = "back"]
     ELSE callbacks' = callbacks /\ call' = [call EXCEPT ![c] = "waiting"]
  /\ UNCHANGED <<reading, building, nextCallback, caller, arrived, lines, client>>

TakeAnswer(c) ==
  /\ Alive /\ call[c] = "waiting" /\ c \in arrived
  /\ arrived' = arrived \ {c}
  /\ call' = [call EXCEPT ![c] = "back"]
  /\ UNCHANGED <<reading, building, nextCallback, callbacks, caller, lines, client>>

\* Every 20 milliseconds without an answer, the call looks at its cancellation:
\* its build's, or its own deadline.
DeadlineOnly(c) == FALSE
BuildCancelled(c) == caller[c] \in cancelled

GiveUp(c, why) ==
  /\ Alive /\ call[c] = "waiting" /\ c \notin arrived /\ why
  /\ call' = [call EXCEPT ![c] = "givingUp"]
  /\ UNCHANGED <<reading, building, nextCallback, callbacks, caller, arrived, lines, client>>

Unlisted(c) == callbacks \ {c}

\* It takes its sender off the table, and reads the cause under active's lock.
Withdraw(c) ==
  /\ Alive /\ call[c] = "givingUp" /\ reader # "stopping"
  /\ callbacks' = Unlisted(c)
  /\ call' = [call EXCEPT ![c] = "back"]
  /\ UNCHANGED <<reading, building, nextCallback, caller, arrived, lines, client>>

CallStep(c) ==
  \/ SendCall(c) \/ CheckCall(c) \/ TakeAnswer(c)
  \/ GiveUp(c, BuildCancelled(c)) \/ Withdraw(c)
-----------------------------------------------------------------------------
\* The client goes away; what it sent before can still be read.
ClientDies ==
  /\ Alive /\ output = "open"
  /\ output' = "closed"
  /\ UNCHANGED <<reading, building, calling, lines, answered, overlapping>>

Over == ~Alive /\ UNCHANGED vars

Next ==
  \/ \E wish \in {"plain", "callbacks", "refused"} : Handshake(wish)
  \/ \E b \in Builds : RefuseBuild(b) \/ RefuseBusy(b) \/ StartBuild(b) \/ SpawnFails(b)
  \/ \E c \in Calls : AnswerArrives(c) \/ AnswerUnknown(c)
  \/ \E why \in {"ended", "malformed"} : ReadEnd(why)
  \/ ReadShutdown
  \/ ReaderStep
  \/ \E b \in Builds : BuildStep(b) \/ Panic(b) \/ StartCall(b)
  \/ \E c \in Calls : CallStep(c) \/ GiveUp(c, c \in Slow)
  \/ ClientDies
  \/ Over

Spec == Init /\ [][Next]_vars

\* The operating system runs every thread that can run, and a drain whose calls
\* have come back ends.  The client owes nothing, not even an answer.
FairSpec ==
  /\ Spec
  /\ WF_vars(ReaderStep)
  /\ \A b \in Builds : WF_vars(BuildStep(b))
  /\ \A c \in Calls : WF_vars(CallStep(c))
-----------------------------------------------------------------------------
\* What the client can tell of the session and of each request.
Session ==
  IF reader \in {"read", "check"} THEN "open"
  ELSE IF reader = "shutdown" THEN "shutdown"
  ELSE IF ~Alive THEN "over"
  ELSE IF verdict = "ended" THEN "ended"
  ELSE "failed"

Requested ==
  [b \in Builds |->
     IF stage[b] \in {"building", "built", "cleared"} THEN "open"
     ELSE IF stage[b] = "unsent" THEN "unsent" ELSE "closed"]

Promise == INSTANCE BuildService WITH
  session <- Session, request <- Requested, current <- active, connected <- output = "open"

\* The threads, the locks and the table of callbacks together do what the protocol says
\* to a client: one build at a time and one response each, never a busy answer for a
\* build that is over, the true cause of its end, and nothing after the last answer
\* (module comment, "the versioned build protocol and its session lifecycle").
ImplementsBuildService == Promise!Spec
-----------------------------------------------------------------------------
Running == {b \in Builds : stage[b] \in {"building", "built", "cleared", "responded"}}

Types ==
  /\ reader \in {"read", "check", "shutdown", "served", "stopping", "waiting", "exited", "crashed"}
  /\ verdict \in {None, "ended", "malformed", "unknownId", "writeError"}
  /\ initialized \in {"no", "plain", "callbacks"}
  /\ active \in Builds \cup {None}
  /\ builds \in Nat
  /\ cancelled \subseteq Builds /\ blamed \subseteq Builds
  /\ stage \in [Builds -> {"unsent", "building", "built", "cleared", "responded", "over"}]
  /\ outcome \in [Builds -> {None, "result", "cancelled"}]
  /\ nextCallback \in 0 .. MaxCalls
  /\ callbacks \subseteq Calls /\ arrived \subseteq Calls
  /\ call \in [Calls -> {"none", "listed", "sent", "waiting", "givingUp", "back"}]
  /\ caller \in [Calls -> Builds \cup {None}]
  /\ output \in {"open", "closed"} /\ writeError \in {None, "brokenPipe"}
  /\ replies \in [Builds -> Nat]
  /\ reply \in [Builds -> {None, "refused", "busy", "failed", "result", "cancelled"}]
  /\ last \in {None, "handshake", "response", "callback", "shutdown"}
  /\ asked \subseteq Calls /\ answered \subseteq Calls
  /\ overlapping \subseteq Builds

\* The types of the variables, and the count of the builds: it is the number of the
\* threads that run, so that shutdown waits for all of them and for no others.
TypeOK == Types /\ builds = Cardinality(Running)

\* "A session builds at most one request at a time" (module comment).
OneBuild ==
  \A a, b \in Builds : stage[a] = "building" /\ stage[b] = "building" => a = b

\* No request is answered twice; when the session has ended without a write error,
\* every request that was read has had its response.
AnsweredOnce ==
  \A b \in Builds :
    /\ replies[b] <= 1
    /\ reader = "exited" /\ writeError = None /\ stage[b] # "unsent" => replies[b] = 1

\* Nothing is written after the answer to shutdown: no response of a build that
\* was still at it, no callback.
ShutdownLast == [][last = "shutdown" => UNCHANGED <<last, replies, asked>>]_vars

\* A client that waits for each response is never told that the session has an
\* active build: the build that answered is not active any more.
SerialClientServed == \A b \in Builds : reply[b] = "busy" => b \in overlapping

\* A build that a failing session stops is not reported as cancelled (run: "No
\* cause reports the active build as cancelled; any other cause is its failure").
FailureNotCancellation ==
  \A b \in Builds : reply[b] = "cancelled" => verdict \in {None, "ended"}

\* The table of callbacks does not grow: whatever is listed in it has a thread
\* that waits for it.
ListedAreWaitedFor ==
  \A c \in callbacks : call[c] \in {"listed", "sent", "waiting", "givingUp"}

\* When the client has closed its end or asked for shutdown, or a message was
\* bad, the server ends, with calls open that nobody will answer.
SessionEnds == (reader \in {"shutdown", "served"}) ~> ~Alive
=============================================================================
