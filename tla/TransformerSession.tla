-------------------------- MODULE TransformerSession --------------------------
(***************************************************************************)
(* rotor_compile's sidecar.rs, transformer_host.rs and                     *)
(* transformer_host_sidecar.rs, with tools/sidecar/lib/session.js: the     *)
(* worker that runs a project's TypeScript transformers, and the tracker   *)
(* that decides which texts each request must send it.  The worker reads   *)
(* the disk by itself and keeps what it read; a request sends only the     *)
(* files whose stamp moved since the last one, and the overlays: texts     *)
(* that exist nowhere on disk.  Files change while all this goes on.       *)
(*                                                                         *)
(* The host is either a worker process of the compiler, closed whenever a  *)
(* round trip fails and then started afresh, or the client of the build    *)
(* API, whose worker lives as long as the session.  A file is its version  *)
(* on disk, 0 while it is missing; its stamp is the version it was taken   *)
(* of.  A text is the version it was made from, and whether a native pass  *)
(* rewrote it.                                                             *)
(***************************************************************************)
EXTENDS Naturals, FiniteSets

CONSTANTS Files,               \* the .ts files of one project
          NoText,              \* where there is no text
          MaxEdits, MaxBuilds  \* bounds on the history explored

ASSUME SessionAssumption ==
  /\ MaxEdits \in Nat /\ MaxBuilds \in Nat
  /\ Files # {}

VARIABLES
  disk, edits,        \* the files, and how often they changed
  host,               \* "worker" or "callback"
  session,            \* SlotState::session: "none", "live", or "dead"
  stamps,             \* SidecarSession::stamps, 0 where there is none
  overlaid,           \* SidecarSession::overlaid
  override,           \* session.js: overrides, by file
  cached,             \* session.js: what the LanguageService read from disk
  configured,         \* session.js: the file names of the parsed tsconfig
  programRequired,    \* session.js: some plugin has read its program
  pc,                 \* where the request in the slot is
  prog, compile,      \* the texts of the build's program, the files to compile
  suffix, more,       \* this is the stage after the native pass; one follows
  scanned,            \* SidecarBuildState::disk_scanned
  attempt, cancelled, \* of this request
  overlays,           \* what merge_sidecar_overlays returned
  fresh,              \* collect_changed_files: no stamps when it began
  skip,               \* collect_changed_files: skip_disk_scan
  probe,              \* what the first of two calls on a file found, by file
  changed,            \* the changed_files of the request
  used,               \* the text of each file that the accepted answer is about
  builds,             \* how many builds have begun
  gone,               \* history: files this build could not find on disk
  slipped             \* history: stamped at a version the worker was not sent

tree == <<disk, edits>>
tracker == <<session, stamps, overlaid>>
worker == <<override, cached, configured, programRequired>>
build == <<prog, compile, suffix, more, builds>>
request == <<overlays, fresh, skip, probe, changed>>
vars == <<tree, host, tracker, worker, pc, build, scanned, attempt, cancelled,
          request, used, gone, slipped>>

Versions == 0 .. MaxEdits + 1
Texts == [of : Versions \ {0}, native : BOOLEAN]
ASSUME NoTextAssumption == NoText \notin Texts
Plain(version) == [of |-> version, native |-> FALSE]
Native(version) == [of |-> version, native |-> TRUE]
Nothing == [f \in Files |-> NoText]
Held(texts) == {f \in Files : texts[f] # NoText}
Present == {f \in Files : disk[f] # 0}
Stamped == {f \in Files : stamps[f] # 0}

\* What texts g holds, and where it holds none, those of f.
Over(g, f) == [k \in Files |-> IF g[k] # NoText THEN g[k] ELSE f[k]]

Init ==
  /\ disk = [f \in Files |-> 1] /\ edits = 0
  /\ host \in {"worker", "callback"}
  /\ session = "none"
  /\ stamps = [f \in Files |-> 0] /\ overlaid = {}
  /\ override = Nothing /\ cached = [f \in Files |-> 0]
  /\ configured = {} /\ programRequired = FALSE
  /\ pc = "idle"
  /\ prog = [f \in Files |-> 0] /\ compile = {}
  /\ suffix = FALSE /\ more = FALSE
  /\ scanned = FALSE /\ attempt = 0 /\ cancelled = FALSE
  /\ overlays = Nothing /\ fresh = FALSE /\ skip = FALSE
  /\ probe = Nothing /\ changed = Nothing
  /\ used = Nothing /\ builds = 0 /\ gone = {} /\ slipped = {}

-----------------------------------------------------------------------------
(* The tree                                                                *)

Saved(f, version) ==
  /\ edits < MaxEdits /\ edits' = edits + 1
  /\ disk' = [disk EXCEPT ![f] = version]
  /\ UNCHANGED <<host, tracker, worker, pc, build, scanned, attempt, cancelled,
                 request, used, gone, slipped>>

\* A file is saved, created again, or removed; no version comes back.
Edit(f) == Saved(f, edits + 2)
Remove(f) == disk[f] # 0 /\ Saved(f, 0)

-----------------------------------------------------------------------------
(* The slot's session                                                      *)

\* A process that just started: nothing sent, nothing read, nothing stamped.
NewSession(state) ==
  /\ session' = state
  /\ stamps' = [f \in Files |-> 0] /\ overlaid' = {}
  /\ override' = Nothing /\ cached' = [f \in Files |-> 0]
  /\ configured' = {} /\ programRequired' = FALSE
  /\ slipped' = {}

SameSession == UNCHANGED <<tracker, worker, slipped>>

\* What the request was made of is dropped.
NoRequest ==
  /\ overlays' = Nothing /\ fresh' = FALSE /\ skip' = FALSE
  /\ probe' = Nothing /\ changed' = Nothing

\* The build is over, with its answers or with an error.
EndBuild ==
  /\ pc' = "idle" /\ scanned' = FALSE /\ attempt' = 0 /\ cancelled' = FALSE
  /\ prog' = [f \in Files |-> 0] /\ compile' = {}
  /\ suffix' = FALSE /\ more' = FALSE
  /\ NoRequest /\ used' = Nothing /\ gone' = {}
  /\ UNCHANGED <<tree, host, builds>>

\* A build has loaded its program, selected the files to compile, and asks for
\* the transformers before its native pass, after it, or on both sides.
StartBuild ==
  /\ pc = "idle" /\ builds < MaxBuilds /\ Present # {}
  /\ builds' = builds + 1
  /\ prog' = disk
  /\ \E selected \in SUBSET Present : selected # {} /\ compile' = selected
  /\ \E before, after \in BOOLEAN :
       (before \/ after) /\ suffix' = ~before /\ more' = (before /\ after)
  /\ pc' = "open"
  /\ SameSession
  /\ UNCHANGED <<tree, host, scanned, attempt, cancelled, request, used, gone>>

\* The session of the last build is used again, or a new worker is spawned.
Open ==
  /\ pc = "open"
  /\ IF session = "live" THEN SameSession ELSE NewSession("live")
  /\ pc' = "merge"
  /\ UNCHANGED <<tree, host, build, scanned, attempt, cancelled, request, used, gone>>

SpawnFails ==
  /\ pc = "open" /\ host = "worker" /\ session # "live"
  /\ NewSession("none")
  /\ EndBuild

\* warm_transformer_workers: a worker that is ready before the first request.
Warm ==
  /\ pc = "idle" /\ host = "worker" /\ session # "live"
  /\ \E state \in {"live", "none"} : NewSession(state)
  /\ UNCHANGED <<tree, host, pc, build, scanned, attempt, cancelled, request, used, gone>>

\* A worker asked to validate its plugins reads the config again, and a new list
\* of files throws away what its LanguageService has read.
Validate ==
  /\ pc = "idle" /\ session = "live"
  /\ \/ host = "worker" /\ \E state \in {"live", "dead", "none"} : NewSession(state)
     \/ /\ configured' = Present
        /\ cached' = IF configured = Present THEN cached ELSE [f \in Files |-> 0]
        /\ UNCHANGED <<tracker, override, programRequired, slipped>>
  /\ UNCHANGED <<tree, host, pc, build, scanned, attempt, cancelled, request, used, gone>>

-----------------------------------------------------------------------------
(* The request                                                             *)

\* skip_disk_scan: the files were scanned for an earlier stage of this build.
SkipStamped == Stamped # {}
SkipScan == scanned /\ Stamped # {}

\* merge_sidecar_overlays: after the native pass, its rewrites; before it, the
\* text of a compiled file that the disk no longer holds.
Merge ==
  /\ pc = "merge"
  /\ overlays' = [f \in Files |->
       IF f \notin compile THEN NoText
       ELSE IF suffix THEN Native(prog[f])
       ELSE IF disk[f] \in {0, prog[f]} THEN NoText ELSE Plain(prog[f])]
  /\ fresh' = (Stamped = {})
  /\ skip' = SkipScan
  /\ pc' = "revert"
  /\ SameSession
  /\ UNCHANGED <<tree, host, build, scanned, attempt, cancelled, probe, changed, used, gone>>

\* The overlays the worker still holds and this request no longer carries.
NoneDropped == {}
Dropped == overlaid \ Held(overlays)

\* revert_dropped_overlays reads what is on disk for each of them ...
RevertRead ==
  /\ pc = "revert"
  /\ probe' = [f \in Files |->
       IF f \in Dropped \cap Present THEN Plain(disk[f]) ELSE NoText]
  /\ gone' = gone \cup (Dropped \ Present)
  /\ pc' = "stat"
  /\ SameSession
  /\ UNCHANGED <<tree, host, build, scanned, attempt, cancelled, overlays, fresh, skip, changed, used>>

\* ... and stamps it as it is by then.
RevertStat ==
  /\ pc = "stat"
  /\ LET sent == Held(probe) \cap Present
     IN /\ changed' = Over(overlays, [f \in Files |-> IF f \in sent THEN probe[f] ELSE NoText])
        /\ stamps' = [f \in Files |->
             IF f \in sent THEN disk[f] ELSE IF f \in Dropped THEN 0 ELSE stamps[f]]
        /\ overlaid' = Held(overlays)
        /\ slipped' = slipped \cup {f \in sent : disk[f] # probe[f].of}
        /\ gone' = gone \cup (Held(probe) \ Present)
  /\ probe' = Nothing
  /\ pc' = IF skip THEN "send" ELSE "scan"
  /\ UNCHANGED <<tree, host, session, worker, build, scanned, attempt, cancelled,
                 overlays, fresh, skip, used>>

\* What the worker's overrides become once it has the request.
Overridden == Over(changed, override)

\* collect_changed_files stats the files of the program.  A request that finds no stamps
\* only stamps them, since the worker will read them from disk; but one that has read a
\* file before, or holds an override of it, does not look again ...
Scanned == {f \in Files : prog[f] # 0} \ Held(overlays)
Moved == {f \in Scanned \cap Present : stamps[f] # disk[f]}

ScanStat ==
  /\ pc = "scan"
  /\ IF fresh
     THEN /\ stamps' = [f \in Files |-> IF f \in Moved THEN disk[f] ELSE stamps[f]]
          /\ slipped' = slipped \cup {f \in Moved : cached[f] # 0 \/ Overridden[f] # NoText}
          /\ pc' = "send" /\ UNCHANGED probe
     ELSE /\ probe' = [f \in Files |-> IF f \in Moved THEN Plain(disk[f]) ELSE NoText]
          /\ pc' = "read" /\ UNCHANGED <<stamps, slipped>>
  /\ gone' = gone \cup (Scanned \ Present)
  /\ UNCHANGED <<tree, host, session, overlaid, worker, build, scanned, attempt, cancelled,
                 overlays, fresh, skip, changed, used>>

ReadAnyway == TRUE
AllRead == Held(probe) \subseteq Present

\* ... a later one reads what moved, and stamps it as it was before the read.
ScanRead ==
  /\ pc = "read" /\ AllRead
  /\ changed' = Over([f \in Files |-> IF probe[f] # NoText THEN Plain(disk[f]) ELSE NoText], changed)
  /\ stamps' = [f \in Files |-> IF probe[f] # NoText THEN probe[f].of ELSE stamps[f]]
  /\ probe' = Nothing
  /\ pc' = "send"
  /\ UNCHANGED <<tree, host, session, overlaid, worker, build, scanned, attempt, cancelled,
                 overlays, fresh, skip, used, gone, slipped>>

\* A file that is gone by the time it is read ends the build.  The files before
\* it are stamped, the dropped overlays are forgotten, and nothing was sent.
ScanFails ==
  /\ pc = "read"
  /\ \E lost \in Held(probe) \ Present : \E before \in SUBSET (Held(probe) \cap Present) :
       /\ stamps' = [f \in Files |-> IF f \in before THEN probe[f].of ELSE stamps[f]]
       /\ slipped' = slipped \cup before \cup (Held(changed) \ Held(overlays))
  /\ UNCHANGED <<session, overlaid, worker>>
  /\ EndBuild

-----------------------------------------------------------------------------
(* The worker                                                              *)

\* A plugin that never looks at its program gets each file parsed by itself.
Programless ==
  /\ ~programRequired
  /\ compile \subseteq Held(Overridden) \cup Present
  /\ used' = [f \in Files |->
       IF f \notin compile THEN NoText
       ELSE IF Overridden[f] # NoText THEN Overridden[f] ELSE Plain(disk[f])]
  /\ UNCHANGED <<cached, configured, programRequired>>

\* Otherwise the LanguageService loads the compiled files and what they import:
\* the overrides, and what it read before of the files that have none.
WithProgram ==
  LET kept == [f \in Files |-> IF configured = Present /\ cached[f] # 0 THEN cached[f] ELSE disk[f]]
      readable == Held(Overridden) \cup Present
  IN /\ \E imported \in SUBSET readable :
          LET loaded == imported \cup (compile \cap readable) IN
          /\ used' = [f \in Files |->
               IF f \notin loaded THEN NoText
               ELSE IF Overridden[f] # NoText THEN Overridden[f] ELSE Plain(kept[f])]
          /\ cached' = [f \in Files |->
               IF f \in loaded /\ Overridden[f] = NoText THEN kept[f] ELSE 0]
     /\ configured' = Present
     /\ programRequired' = TRUE

\* SidecarProjectSession.handleRequest, and the line it answers with.
Answer ==
  /\ pc = "send" /\ ~cancelled
  /\ override' = Overridden
  /\ Programless \/ WithProgram
  /\ slipped' = slipped \ {f \in Held(changed) : f \in overlaid \/ changed[f].of >= stamps[f]}
  /\ scanned' = TRUE
  /\ pc' = "answered"
  /\ UNCHANGED <<tree, host, tracker, build, attempt, cancelled, request, gone>>

AlwaysRetry(failure) == failure # "deadline"
MayRetry(failure) == attempt = 0 /\ failure # "deadline"

\* write_and_read fails: the session is closed, and the request made once more
\* for a fresh worker unless this was the second time or the deadline passed.
RoundTripFails(failure) ==
  /\ pc = "send" /\ host = "worker"
  /\ cancelled => failure = "cancel"
  /\ NewSession("none")
  /\ IF MayRetry(failure)
     THEN /\ attempt' = 1 /\ pc' = "open"
          /\ cancelled' = (failure = "cancel")
          /\ NoRequest
          /\ UNCHANGED <<tree, host, build, scanned, used, gone>>
     ELSE EndBuild

\* A line that is no response leaves a dead session behind; the callback of a
\* client that answers with an error has nevertheless seen the request.
AnswerRejected ==
  /\ pc = "answered"
  /\ IF host = "worker" THEN NewSession("dead") ELSE SameSession
  /\ EndBuild

\* The answer is the build's, which goes on to its native pass and may come back.
Accept ==
  /\ pc = "answered"
  /\ IF more
     THEN /\ suffix' = TRUE /\ more' = FALSE
          /\ pc' = "open" /\ attempt' = 0 /\ NoRequest /\ used' = Nothing
          /\ UNCHANGED <<tree, host, prog, compile, builds, scanned, cancelled, gone>>
     ELSE EndBuild
  /\ SameSession

-----------------------------------------------------------------------------
Step ==
  \/ StartBuild \/ Open \/ SpawnFails
  \/ Merge \/ RevertRead \/ RevertStat \/ ScanStat \/ ScanRead \/ ScanFails
  \/ Answer \/ AnswerRejected \/ Accept
  \/ \E failure \in {"transport", "cancel", "deadline"} : RoundTripFails(failure)

Next ==
  \/ Step \/ Warm \/ Validate
  \/ \E f \in Files : Edit(f) \/ Remove(f)

Spec == Init /\ [][Next]_vars

\* A request is worked on by its thread, and the worker answers or is given up.
FairSpec == Spec /\ WF_vars(Step)

-----------------------------------------------------------------------------
(* Properties                                                              *)

\* Types; stamps, overrides and reads are of versions that have existed.
TypeOK ==
  /\ disk \in [Files -> 0 .. edits + 1]
  /\ host \in {"worker", "callback"} /\ session \in {"none", "live", "dead"}
  /\ stamps \in [Files -> 0 .. edits + 1] /\ overlaid \subseteq Files
  /\ override \in [Files -> Texts \cup {NoText}]
  /\ cached \in [Files -> 0 .. edits + 1]
  /\ configured \subseteq Files /\ programRequired \in BOOLEAN
  /\ pc \in {"idle", "open", "merge", "revert", "stat", "scan", "read", "send", "answered"}
  /\ prog \in [Files -> 0 .. edits + 1] /\ compile \subseteq Files
  /\ suffix \in BOOLEAN /\ more \in BOOLEAN /\ scanned \in BOOLEAN
  /\ attempt \in {0, 1} /\ cancelled \in BOOLEAN
  /\ overlays \in [Files -> Texts \cup {NoText}]
  /\ fresh \in BOOLEAN /\ skip \in BOOLEAN
  /\ probe \in [Files -> Texts \cup {NoText}]
  /\ changed \in [Files -> Texts \cup {NoText}]
  /\ used \in [Files -> Texts \cup {NoText}]
  /\ builds \in Nat /\ gone \subseteq Files /\ slipped \subseteq Files

\* Answers are about the right texts of the program's files: an overlay of this
\* request where there is one, and otherwise what a person saved, no older than
\* the build's program.  Of a file that was removed the worker keeps its text,
\* as revert_dropped_overlays says, and nobody compiles it.
AnswersCurrent ==
  pc = "answered" =>
    \A f \in (Held(used) \ (gone \cup slipped)) \cap {g \in Files : prog[g] # 0} :
      IF overlays[f] # NoText THEN used[f] = overlays[f]
      ELSE ~used[f].native /\ used[f].of >= prog[f]

\* Between requests, what the worker holds of a stamped file is a text from disk
\* at least as new as the stamp.
HasSeen(f) ==
  /\ override[f] # NoText => ~override[f].native /\ override[f].of >= stamps[f]
  /\ override[f] = NoText /\ cached[f] # 0 => cached[f] >= stamps[f]
TrackerHonest ==
  pc = "idle" => \A f \in Stamped \ (overlaid \cup slipped) : HasSeen(f)

\* A build's transformer request ends, with its answer or an error, whatever
\* workers die under it and whatever is edited.
RequestEnds == pc # "idle" ~> pc = "idle"
===============================================================================
