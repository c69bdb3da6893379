-------------------------- MODULE ArtifactTransaction --------------------------
(***************************************************************************)
(* rotor_flamework's artifacts.rs with artifacts_stage.rs,                 *)
(* artifacts_commit.rs and artifacts_identity.rs: persist_artifacts writes *)
(* and deletes the files of one project "as one transaction".  It stages   *)
(* the new files beside the old, puts them in place one rename after       *)
(* another, and takes all of it back when one fails, without touching what *)
(* somebody else has written meanwhile.  A mutex leaves one transaction at *)
(* a time in a process; other processes and the user are Others.           *)
(*                                                                         *)
(* A file is an identity (device and inode) and its contents; a digest is  *)
(* the contents it was taken of.                                           *)
(***************************************************************************)
EXTENDS Naturals, FiniteSets

CONSTANTS N,               \* the artifacts are 1 .. N, in the order of the request
          Data,            \* what files contain
          Requests,        \* what is asked for: [1 .. N -> Data \cup {Absent}]
          Dirs, Home,      \* the directories, and which each artifact is in
          Absent, NoFile,
          MaxOthers, MaxFaults   \* bounds: steps of others, failing system calls

Artifacts == 1 .. N

ASSUME ArtifactAssumption ==
  /\ N \in Nat \ {0} /\ Absent \notin Data
  /\ Requests \subseteq [Artifacts -> Data \cup {Absent}]
  /\ Home \in [Artifacts -> Dirs]
  /\ NoFile \notin [id : Nat, data : Data]

Slots == {"file", "temp", "undo"}  \* the artifact, and the temporaries beside it

VARIABLES
  disk,       \* [Slots -> [Artifacts -> the file there, or NoFile]]
  dir,        \* the identity of each directory, 0 when it does not exist
  next,       \* the next fresh identity
  wanted,     \* the request
  pc, left,   \* the phase, and the artifacts it has yet to handle
  staged,     \* the artifacts with a StagedArtifact
  dest,       \* StagedArtifact::destination with prior: the file to be replaced
  parent,     \* StagedArtifact::parent
  temp,       \* StagedArtifact::temp
  created,    \* the artifacts with created_directories
  committed,  \* those whose commit_artifact returned Ok
  result,     \* "ok" or "failed"
  reported,   \* those rollback_artifacts reports an error for
  before,     \* history: the files when the transaction began
  touched,    \* history: the artifacts that others changed since
  raced,      \* history: ... between a check and the rename or removal it guards
  unverified, \* history: in place, but the look at it afterwards failed
  others, faults

entries == <<staged, dest, parent, temp, created>>
outcome == <<result, reported, unverified>>
history == <<before, touched, raced>>
vars == <<disk, dir, next, wanted, pc, left, entries, committed, outcome, history, others, faults>>

Files == [id : Nat, data : Data] \cup {NoFile}
File(a) == disk["file"][a]
Put(slot, a, file) == [disk EXCEPT ![slot][a] = file]
Remembered(f, a, x) == [f EXCEPT ![a] = x]

First == CHOOSE a \in left : \A b \in left : a <= b
Last == CHOOSE a \in left : \A b \in left : b <= a

Init ==
  /\ dir \in [Dirs -> {0, 1}]
  /\ \E file \in [Artifacts -> {[id |-> 1, data |-> x] : x \in Data} \cup {NoFile}] :
       /\ \A a \in Artifacts : dir[Home[a]] = 0 => file[a] = NoFile
       /\ disk = [s \in Slots |-> IF s = "file" THEN file ELSE [a \in Artifacts |-> NoFile]]
  /\ next = 2 /\ wanted \in Requests
  /\ pc = "begin" /\ left = {}
  /\ staged = {} /\ created = {} /\ committed = {}
  /\ dest = [a \in Artifacts |-> NoFile] /\ temp = [a \in Artifacts |-> NoFile]
  /\ parent = [a \in Artifacts |-> 0]
  /\ result = "ok" /\ reported = {} /\ unverified = {}
  /\ before = disk["file"] /\ touched = {} /\ raced = {}
  /\ others = 0 /\ faults = 0

-----------------------------------------------------------------------------
(* Everybody else                                                          *)

\* The artifact that was checked and is about to be replaced or removed.
Current == IF pc = "replace" THEN {First} ELSE IF pc = "undo" THEN {Last} ELSE {}

Touch(S) ==
  /\ pc # "returned" /\ others < MaxOthers /\ others' = others + 1
  /\ touched' = touched \cup S
  /\ raced' = raced \cup (S \cap Current)
  /\ UNCHANGED <<wanted, pc, left, entries, committed, outcome, before, faults>>

\* A file is overwritten in place, replaced by another one, or removed.
TouchFile(slot, a) ==
  /\ dir[Home[a]] # 0 /\ (slot = "file" \/ disk[slot][a] # NoFile)
  /\ \E file \in {[id |-> i, data |-> x] : i \in {next} \cup {f.id : f \in {disk[slot][a]} \ {NoFile}},
                                            x \in Data} \cup {NoFile} :
       file # disk[slot][a] /\ disk' = Put(slot, a, file)
  /\ next' = next + 1 /\ UNCHANGED dir
  /\ Touch({a})

\* A directory is removed with all that is in it, or replaced by another one.
TouchDir(d) ==
  /\ dir[d] # 0
  /\ dir' \in {[dir EXCEPT ![d] = i] : i \in {0, next}}
  /\ disk' = [s \in Slots |-> [a \in Artifacts |-> IF Home[a] = d THEN NoFile ELSE disk[s][a]]]
  /\ next' = next + 1
  /\ Touch({a \in Artifacts : Home[a] = d})

Others ==
  \/ \E a \in Artifacts, slot \in Slots : TouchFile(slot, a)
  \/ \E d \in Dirs : TouchDir(d)

-----------------------------------------------------------------------------
(* persist_artifacts                                                       *)

Mine == UNCHANGED <<wanted, history, others>>
NoFault == UNCHANGED faults
Fault == faults < MaxFaults /\ faults' = faults + 1
Kept == UNCHANGED <<disk, dir, next>>

\* changed_artifacts: a file that holds its bytes is left alone.
Changed == {a \in Artifacts : wanted[a] = Absent \/ File(a) \notin [id : Nat, data : {wanted[a]}]}
Begin ==
  /\ pc = "begin" /\ pc' = "stage"
  /\ left' = Changed
  /\ Kept /\ Mine /\ NoFault /\ UNCHANGED <<entries, committed, outcome>>

\* The transaction did not get into place: clean up what was staged.
ToCleanAll == Artifacts
ToClean == staged
Abandon == result' = "failed" /\ pc' = "cleanup" /\ left' = ToClean

\* stage_artifact: the old file is read and read again once the directory is made;
\* the new one is written beside it.
Stage ==
  /\ pc = "stage" /\ left # {}
  /\ LET a == First
         d == Home[a]
         file == IF wanted[a] = Absent THEN NoFile ELSE [id |-> next + 1, data |-> wanted[a]]
     IN /\ dest' = Remembered(dest, a, File(a))
        /\ dir' = IF dir[d] = 0 THEN [dir EXCEPT ![d] = next] ELSE dir
        /\ created' = IF dir[d] = 0 THEN created \cup {a} ELSE created
        /\ parent' = Remembered(parent, a, dir'[d])
        /\ disk' = Put("temp", a, file) /\ temp' = Remembered(temp, a, file)
        /\ next' = next + 2
        /\ staged' = staged \cup {a} /\ left' = left \ {a}
  /\ Mine /\ NoFault /\ UNCHANGED <<pc, committed, outcome>>

\* It takes back what it made when a call fails or the file changes under it.
StageFails ==
  /\ pc = "stage" /\ left # {} /\ Fault
  /\ Abandon
  /\ Kept /\ Mine /\ UNCHANGED <<entries, committed, reported, unverified>>

StageEnds ==
  /\ pc = "stage" /\ left = {}
  /\ pc' = "commit" /\ left' = staged
  /\ Kept /\ Mine /\ NoFault /\ UNCHANGED <<entries, committed, outcome>>

\* commit_artifact returns an error: rollback_artifacts gets what was committed.
ToUndoButLast == {a \in committed : \E b \in committed : a < b}
ToUndo == committed
CommitFails == result' = "failed" /\ pc' = "rollback" /\ left' = ToUndo

Done(a) == committed' = committed \cup {a} /\ left' = left \ {a} /\ pc' = "commit"

\* revalidate_directory, revalidate_regular or require_artifact_missing, and the
\* staged file
Intact(a) ==
  /\ dir[Home[a]] = parent[a]
  /\ File(a) = dest[a]
  /\ wanted[a] # Absent => disk["temp"][a] = temp[a]

Check ==
  /\ pc = "commit" /\ left # {}
  /\ \/ /\ Intact(First) /\ NoFault
        /\ IF wanted[First] = Absent /\ dest[First] = NoFile
           THEN Done(First) /\ UNCHANGED result
           ELSE pc' = "replace" /\ UNCHANGED <<left, committed, result>>
     \/ /\ ~Intact(First) /\ NoFault
        /\ CommitFails /\ UNCHANGED committed
     \/ /\ Fault /\ CommitFails /\ UNCHANGED committed
  /\ Kept /\ Mine /\ UNCHANGED <<entries, reported, unverified>>

\* The rename, or the removal of the old file; there may be nothing to rename now.
Replace ==
  /\ pc = "replace"
  /\ LET a == First
         from == IF wanted[a] = Absent THEN "file" ELSE "temp"
     IN \/ /\ disk[from][a] # NoFile /\ NoFault
           /\ disk' = IF from = "file" THEN Put("file", a, NoFile)
                      ELSE [disk EXCEPT !["file"][a] = disk["temp"][a], !["temp"][a] = NoFile]
           /\ IF from = "file" THEN Done(a) ELSE pc' = "verify" /\ UNCHANGED <<left, committed>>
           /\ UNCHANGED result
        \/ /\ IF disk[from][a] = NoFile THEN NoFault ELSE Fault
           /\ CommitFails /\ UNCHANGED <<disk, committed>>
  /\ Mine /\ UNCHANGED <<dir, next, entries, reported, unverified>>

\* The file in place must be the staged one.  When it is not, or cannot be looked at,
\* the error comes before it counts as committed.
Verify ==
  /\ pc = "verify"
  /\ \/ File(First) = temp[First] /\ NoFault /\ Done(First) /\ UNCHANGED <<result, unverified>>
     \/ /\ IF File(First) = temp[First] THEN Fault ELSE NoFault
        /\ CommitFails /\ unverified' = unverified \cup {First} /\ UNCHANGED committed
  /\ Kept /\ Mine /\ UNCHANGED <<entries, reported>>

CommitEnds ==
  /\ pc = "commit" /\ left = {}
  /\ pc' = "cleanup" /\ left' = ToClean
  /\ Kept /\ Mine /\ NoFault /\ UNCHANGED <<entries, committed, outcome>>

\* rollback_artifacts, last first.  What it put in place must still be there.  (A
\* deletion that found nothing to delete has no identity to compare: its rollback
\* always reports an error.)
Placed(a) == IF wanted[a] = Absent THEN NoFile ELSE temp[a]
UnchangedUnasked(a) == dest[a] = NoFile => Placed(a) # NoFile
Unchanged(a) ==
  /\ File(a) = Placed(a)
  /\ dest[a] = NoFile => Placed(a) # NoFile
  /\ dest[a] # NoFile => dir[Home[a]] = parent[a]

Undone(a) == left' = left \ {a} /\ pc' = "rollback"
Report(a) == Undone(a) /\ reported' = reported \cup {a}

Rollback ==
  /\ pc = "rollback" /\ left # {}
  /\ \/ Unchanged(Last) /\ NoFault /\ pc' = "undo" /\ UNCHANGED <<left, reported>>
     \/ ~Unchanged(Last) /\ NoFault /\ Report(Last)
     \/ Fault /\ Report(Last)
  /\ Kept /\ Mine /\ UNCHANGED <<entries, committed, result, unverified>>

\* remove_owned_artifact, or restore_artifact, whose temporary stays behind when it
\* cannot be written to its end.
Undo ==
  /\ pc = "undo"
  /\ LET a == Last
         old == IF dest[a] = NoFile THEN NoFile ELSE [id |-> next, data |-> dest[a].data]
         possible == IF old = NoFile THEN File(a) # NoFile ELSE dir[Home[a]] = parent[a]
     IN \/ /\ possible /\ NoFault
           /\ disk' = Put("file", a, old)
           /\ Undone(a) /\ UNCHANGED reported
        \/ /\ ~possible /\ NoFault /\ Report(a) /\ UNCHANGED disk
        \/ /\ possible /\ Fault /\ Report(a)
           /\ disk' \in {disk, Put("undo", a, old)}
  /\ next' = next + 1
  /\ Mine /\ UNCHANGED <<dir, entries, committed, result, unverified>>

RollbackEnds ==
  /\ pc = "rollback" /\ left = {}
  /\ pc' = "cleanup" /\ left' = ToClean
  /\ Kept /\ Mine /\ NoFault /\ UNCHANGED <<entries, committed, outcome>>

\* cleanup_staged_artifacts: the temporary, if it is still ours, and the directory,
\* if it is empty, of the last one first.
Empty(d, files) == \A a \in Artifacts, s \in Slots : Home[a] = d => files[s][a] = NoFile
Cleanup ==
  /\ pc = "cleanup" /\ left # {}
  /\ LET a == Last
         d == Home[a]
     IN /\ disk' = IF disk["temp"][a] = temp[a] THEN Put("temp", a, NoFile) ELSE disk
        /\ dir' = IF a \in created /\ Empty(d, disk') THEN [dir EXCEPT ![d] = 0] ELSE dir
        /\ left' = left \ {a}
  /\ Mine /\ NoFault /\ UNCHANGED <<next, pc, entries, committed, outcome>>

Return ==
  /\ pc = "cleanup" /\ left = {}
  /\ pc' = "returned"
  /\ Kept /\ Mine /\ NoFault /\ UNCHANGED <<left, entries, committed, outcome>>

Persist ==
  \/ Begin \/ Stage \/ StageFails \/ StageEnds
  \/ Check \/ Replace \/ Verify \/ CommitEnds
  \/ Rollback \/ Undo \/ RollbackEnds \/ Cleanup \/ Return

Over == pc = "returned" /\ UNCHANGED vars

Next == Persist \/ Others \/ Over

Spec == Init /\ [][Next]_vars

-----------------------------------------------------------------------------
(* Properties                                                              *)

\* Types; a phase handles only what the phases before it have handed over, so that
\* nothing is put in place, taken back or cleaned up that was not staged.
TypeOK ==
  /\ disk \in [Slots -> [Artifacts -> Files]]
  /\ dir \in [Dirs -> Nat] /\ next \in Nat \ {0}
  /\ wanted \in Requests
  /\ pc \in {"begin", "stage", "commit", "replace", "verify", "rollback", "undo", "cleanup", "returned"}
  /\ left \subseteq Artifacts /\ staged \subseteq Artifacts
  /\ pc \in {"replace", "verify", "undo"} => left # {}
  /\ pc \in {"commit", "replace", "verify", "cleanup"} => left \subseteq staged
  /\ pc \in {"rollback", "undo"} => left \subseteq committed
  /\ dest \in [Artifacts -> Files] /\ temp \in [Artifacts -> Files]
  /\ parent \in [Artifacts -> Nat]
  /\ created \subseteq staged /\ committed \subseteq staged
  /\ result \in {"ok", "failed"} /\ reported \subseteq committed
  /\ before \in [Artifacts -> Files]
  /\ touched \subseteq Artifacts /\ raced \subseteq touched /\ unverified \subseteq staged
  /\ others \in Nat /\ faults \in Nat

Holds(file, x) == IF x = Absent THEN file = NoFile ELSE file # NoFile /\ file.data = x
Same(f, g) == f = g \/ (f # NoFile /\ g # NoFile /\ f.data = g.data)

\* "As one transaction" (artifacts.rs): a success has put every artifact in place, a
\* failure every one back, except those that somebody else changed, that the error
\* names, or that got in place and could not be looked at (artifacts_commit.rs:34-45).
AllOrNothing ==
  pc = "returned" =>
    \A a \in Artifacts \ touched :
      IF result = "ok" THEN Holds(File(a), wanted[a])
      ELSE a \in reported \cup unverified \/ Same(File(a), before[a])

\* A transaction leaves no temporary and no empty directory of its own behind, but
\* where others interfered or the restoring of a file was reported.
NothingLeft ==
  pc = "returned" =>
    \A a \in Artifacts \ (touched \cup reported) :
      /\ disk["temp"][a] = NoFile /\ disk["undo"][a] = NoFile
      /\ a \in created /\ dir[Home[a]] # 0 =>
           (~Empty(Home[a], disk) \/ \E b \in touched : Home[b] = Home[a])

Transaction == AllOrNothing /\ NothingLeft

\* "File identities that detect a swapped or rewritten artifact"
\* (artifacts_identity.rs:1): whatever step the transaction takes, the file it removes
\* or replaces is the one it staged against or put there itself, unless it was changed
\* in the moment between the check and the rename.
OthersKept ==
  [][others' = others =>
       \A a \in Artifacts : File(a)' # File(a) =>
         File(a) \in {NoFile, dest[a], temp[a]} \/ a \in raced]_vars
===============================================================================
