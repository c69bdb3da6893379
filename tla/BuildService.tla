---------------------------- MODULE BuildService ----------------------------
(***************************************************************************)
(* What a session of the build API promises its client, with no threads,   *)
(* locks or tables: one build at a time, one response to each request,     *)
(* which names what became of it, callbacks only while a build is at it,   *)
(* and an end that waits for the last response.  BuildServer implements    *)
(* it.                                                                     *)
(***************************************************************************)
CONSTANTS Builds,    \* the build requests
          Calls,     \* the callbacks
          None

VARIABLES session,   \* "open" until it is to end: by a "shutdown", because the
                     \* client "ended" it, or because it "failed"; then "over"
          request,   \* "unsent", "open" until it has its response, then "closed"
          current,   \* the request that is being built
          connected, \* whether the client reads what is written
          reply,     \* the response to each request
          asked      \* the callbacks that reached the client

vars == <<session, request, current, connected, reply, asked>>

Init ==
  /\ session = "open" /\ current = None /\ connected = TRUE
  /\ request = [b \in Builds |-> "unsent"]
  /\ reply = [b \in Builds |-> None]
  /\ asked = {}

Settled == \A b \in Builds : request[b] # "open"

\* A response is lost once the client is gone.
Says(b, kind) ==
  /\ request' = [request EXCEPT ![b] = "closed"]
  /\ reply' = IF connected THEN [reply EXCEPT ![b] = kind] ELSE reply

\* A request is refused for itself, or because another is being built.
Refuse(b, kind) ==
  /\ session = "open" /\ request[b] = "unsent"
  /\ kind = "busy" => current # None
  /\ Says(b, kind)
  /\ UNCHANGED <<session, current, connected, asked>>

Accept(b) ==
  /\ session = "open" /\ request[b] = "unsent" /\ current = None
  /\ request' = [request EXCEPT ![b] = "open"]
  /\ current' = b
  /\ UNCHANGED <<session, connected, reply, asked>>

Ask(c) ==
  /\ session # "over" /\ current # None /\ connected
  /\ c \notin asked
  /\ asked' = asked \cup {c}
  /\ UNCHANGED <<session, request, current, connected, reply>>

\* The next request may be accepted before this one's response is written.
Conclude ==
  /\ session # "over" /\ current # None
  /\ current' = None
  /\ UNCHANGED <<session, request, connected, reply, asked>>

\* Only a session that its client stopped has a cancelled build, and only one that
\* failed has a build that fails.
Respond(b, kind) ==
  /\ session # "over" /\ request[b] = "open" /\ b # current
  /\ kind = "cancelled" => session \in {"shutdown", "ended"}
  /\ kind = "failed" => session = "failed"
  /\ Says(b, kind)
  /\ UNCHANGED <<session, current, connected, asked>>

Stop(why) ==
  /\ session = "open"
  /\ session' = why
  /\ UNCHANGED <<request, current, connected, reply, asked>>

\* The answer to shutdown, and the end.
AnswerShutdown ==
  /\ session = "shutdown" /\ Settled
  /\ session' = "ended"
  /\ UNCHANGED <<request, current, connected, reply, asked>>

Leave ==
  /\ session \in {"ended", "failed"} /\ Settled
  /\ session' = "over"
  /\ UNCHANGED <<request, current, connected, reply, asked>>

\* A build that panics takes the session with it.
Crash ==
  /\ session # "over" /\ current # None
  /\ session' = "over"
  /\ UNCHANGED <<request, current, connected, reply, asked>>

Disconnect ==
  /\ session # "over" /\ connected
  /\ connected' = FALSE
  /\ UNCHANGED <<session, request, current, reply, asked>>

Next ==
  \/ \E b \in Builds :
       \/ \E kind \in {"refused", "busy", "failed"} : Refuse(b, kind)
       \/ Accept(b)
       \/ \E kind \in {"result", "cancelled", "failed"} : Respond(b, kind)
  \/ \E c \in Calls : Ask(c)
  \/ Conclude
  \/ \E why \in {"shutdown", "ended", "failed"} : Stop(why)
  \/ AnswerShutdown \/ Leave \/ Crash \/ Disconnect

Spec == Init /\ [][Next]_vars
=============================================================================
