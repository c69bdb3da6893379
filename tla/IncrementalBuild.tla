--------------------------- MODULE IncrementalBuild ---------------------------
(***************************************************************************)
(* rotor_compile's output.rs, outputwriter*.rs, incremental_manifest.rs,   *)
(* incremental_signature.rs and copyfilesgate.rs: one incremental build of *)
(* a project after another.  A build hashes the sources of its program,    *)
(* selects the files whose outputs may differ from those the manifest      *)
(* describes, compiles and writes them one by one, and replaces the        *)
(* manifest last.  Sources, outputs and options change at any moment, and  *)
(* a build may end at any step: compile errors, failed writes, crashes.    *)
(*                                                                         *)
(* A text is a version; ApiOf and ImportsOf say what it declares and       *)
(* imports.  A hash is the content it was taken of.  The declaration of a  *)
(* file is printed from the APIs of the files it Spells; an importer's     *)
(* Luau depends on those it Shows, which are more when a declaration names *)
(* another module instead of copying what it exports.                      *)
(***************************************************************************)
EXTENDS Naturals, FiniteSets

CONSTANTS Files, Versions,       \* the sources of one project, their texts
          ApiOf, ImportsOf,      \* [Files -> [Versions -> ...]]
          Spells, Shows,         \* [Files -> [Versions -> SUBSET Files]]
          NoOutput, Torn,        \* a missing output, one nobody wrote whole
          MaxEdits, MaxBuilds    \* bounds on the history explored

\* 0 is the version of a file that does not exist.
ASSUME TextsAssumption == 0 \notin Versions

Kinds == {"luau", "d.ts"}
Modes == {"all", "declarations"}   \* declarations: emitDeclarationOnly

VARIABLES
  disk, shape,        \* the sources; the last creation or removal, from 1
  options,            \* the options of the next build, all that its salt covers
  output,             \* the outputs on disk
  manifest,           \* the .tsbuildinfo: salt, files (versions), outputs
  gate,               \* rbxts.copyfiles.json: the shape it saw, 0 if none
  pc,                 \* where the build is
  mode, prog,         \* its options, the versions of its program
  valid,              \* OutputWriter::previous: recorded hashes found on disk
  recorded,           \* OutputWriter::current: the hashes it will record
  selected, todo,     \* the files to compile, the outputs still to be written
  skip, seen,         \* CopyFilesGateOutputs: skip_cleanup, and the shape it saw
  edits, builds,      \* how many there were
  disturbed, unseen   \* history: see Disturb and Select, and Vanish

tree == <<disk, shape>>
stored == <<manifest, gate>>
plan == <<mode, prog, valid, recorded, selected, skip, seen>>
history == <<disturbed, unseen>>
vars == <<tree, options, output, stored, pc, plan, todo, edits, builds, history>>

Program == [Files -> Versions \cup {0}]
Present(p) == {f \in Files : p[f] # 0}
Api(p, f) == IF p[f] = 0 THEN 0 ELSE ApiOf[f][p[f]]
Refs(p, f) == IF p[f] = 0 THEN {} ELSE ImportsOf[f][p[f]]

\* What a full build writes for f: its declaration, and its Luau.
Declaration(p, f) == [g \in Spells[f][p[f]] |-> Api(p, g)]
Compiled(p, f) ==
  <<p[f], [g \in UNION {Shows[h][p[h]] : h \in Refs(p, f) \cap Present(p)} |-> Api(p, g)]>>
Content(k, p, f) == IF k = "luau" THEN Compiled(p, f) ELSE Declaration(p, f)
ASSUME ContentAssumption ==
  \A k \in Kinds, p \in Program, f \in Files : p[f] # 0 => Content(k, p, f) # NoOutput

Nothing == [k \in Kinds |-> [f \in Files |-> NoOutput]]
NoManifest == [salt |-> "none", files |-> [f \in Files |-> 0], outputs |-> Nothing]

Init ==
  /\ disk \in [Files -> Versions] /\ shape = 1 /\ options = "all"
  /\ output = Nothing
  /\ manifest = NoManifest /\ gate = 0
  /\ pc = "idle" /\ mode = "all"
  /\ prog = [f \in Files |-> 0]
  /\ valid = [k \in Kinds |-> {}] /\ recorded = Nothing
  /\ selected = {} /\ todo = {} /\ skip = FALSE /\ seen = 0
  /\ edits = 0 /\ builds = 0 /\ disturbed = {} /\ unseen = {}

-----------------------------------------------------------------------------
(* What happens around a build                                             *)

\* The outputs that a running build cannot answer for any more.
Disturb(lost) == disturbed' = IF pc = "idle" THEN disturbed ELSE disturbed \cup lost

\* A source that is removed after the program was loaded, before the gate looks.
Vanish(f) == unseen' = IF pc \in {"select", "clean"} THEN unseen \cup {f} ELSE unseen

Save(f, version) ==
  /\ edits < MaxEdits /\ edits' = edits + 1
  /\ disk[f] # version /\ disk' = [disk EXCEPT ![f] = version]
  /\ shape' = IF disk[f] = 0 \/ version = 0 THEN shape + 1 ELSE shape
  /\ UNCHANGED <<options, output, stored, pc, plan, todo, builds>>

Edit(f) == \E v \in Versions : Save(f, v) /\ UNCHANGED history
Remove(f) == Save(f, 0) /\ Disturb(Kinds \X {f}) /\ Vanish(f)

\* Somebody overwrites or removes an output.
Tamper(k, f) ==
  /\ edits < MaxEdits /\ edits' = edits + 1
  /\ output[k][f] # NoOutput
  /\ \E o \in {NoOutput, Torn} \ {output[k][f]} : output' = [output EXCEPT ![k][f] = o]
  /\ Disturb({<<k, f>>})
  /\ UNCHANGED <<tree, options, stored, pc, plan, todo, builds, unseen>>

\* The options change, or the manifest is removed to have everything built again.
ChangeOptions ==
  /\ edits < MaxEdits /\ edits' = edits + 1
  /\ \/ options' \in Modes \ {options} /\ UNCHANGED manifest
     \/ manifest # NoManifest /\ pc = "idle" /\ manifest' = NoManifest /\ UNCHANGED options
  /\ UNCHANGED <<tree, output, gate, pc, plan, todo, builds, history>>

-----------------------------------------------------------------------------
(* Selection                                                               *)

Usable == manifest.salt = mode
Previous == IF Usable THEN manifest ELSE NoManifest

\* changed_source_paths
Changed == {f \in Files : Previous.files[f] # prog[f]}

\* recovered_input_paths: the sources of recorded outputs that are gone, or
\* are not what was recorded.
NoneRecovered(good) == {}
Recovered(good) ==
  {f \in Files : \E k \in Kinds : Previous.outputs[k][f] # NoOutput /\ f \notin good[k]}

\* accumulate_reverse_deps, over the imports of both programs
Importers(f) == {g \in Files : f \in Refs(prog, g) \cup Refs(Previous.files, g)}

\* signature_held: the declaration prints as it is recorded.
HeldOrUnrecorded(f) == prog[f] # 0 /\ Previous.outputs["d.ts"][f] \in {NoOutput, Declaration(prog, f)}
Held(f) == prog[f] # 0 /\ Previous.outputs["d.ts"][f] = Declaration(prog, f)

\* The least set that holds the seeds and the importers of its members in Through.
Closed(S, Through) == \A f \in S \cap Through : Importers(f) \subseteq S
Closure(seeds, Through) ==
  {f \in Files : \A S \in SUBSET Files : seeds \subseteq S /\ Closed(S, Through) => f \in S}

\* select_by_declaration_signature walks in waves, and stands down when it cannot
\* emit a declaration, or has nothing to compare one with.
NarrowedUncut(good) == Closure(Changed \cup Recovered(good), {f \in Files : ~Held(f)})
Narrowed(good) ==
  Closure(Changed \cup Recovered(good), {f \in Files : ~Held(f)}) \cap Present(prog)
Widened(good) == (Closure(Changed, Files) \cup Recovered(good)) \cap Present(prog)
Selections(good) ==
  IF ~Usable THEN {Present(prog)}
  ELSE IF Previous.outputs = Nothing THEN {Widened(good)}
  ELSE {Narrowed(good), Widened(good)}

-----------------------------------------------------------------------------
(* The build                                                               *)

StartBuild ==
  /\ pc = "idle" /\ builds < MaxBuilds /\ builds' = builds + 1
  /\ prog' = disk /\ mode' = options
  /\ pc' = "select"
  /\ UNCHANGED <<tree, options, output, stored, valid, recorded, selected, todo, skip, seen, edits>>
  /\ disturbed' = {} /\ UNCHANGED unseen

\* The manifest is read, its outputs are validated, and the files selected.  An
\* output the manifest does not list is not looked at: nothing restores it.
Select ==
  /\ pc = "select"
  /\ LET good == [k \in Kinds |-> {f \in Files : output[k][f] \notin {NoOutput, Torn}
                                               /\ output[k][f] = Previous.outputs[k][f]}]
     IN /\ valid' = good
        /\ recorded' = Previous.outputs
        /\ disturbed' = disturbed \cup
             {o \in Kinds \X Files : Usable /\ Previous.files[o[2]] # 0
                                            /\ Previous.outputs[o[1]][o[2]] = NoOutput}
        /\ IF mode = "declarations"
           THEN /\ selected' = {} /\ todo' = {"d.ts"} \X Present(prog) /\ pc' = "write"
                /\ skip' = FALSE
           ELSE /\ selected' \in Selections(good) /\ pc' = "clean"
                /\ UNCHANGED <<todo, skip>>
  /\ UNCHANGED <<tree, options, output, stored, mode, prog, seen, edits, builds, unseen>>

\* load_copy_files_gate_pre_build and cleanup_outputs: outputs without a source go,
\* unless nothing is selected in a source tree of the same shape.
GateUnlessSelected == selected = {}
GateOpen == gate = shape /\ selected = {}
Clean ==
  /\ pc = "clean"
  /\ skip' = GateOpen /\ seen' = shape
  /\ output' = IF GateOpen THEN output
               ELSE [k \in Kinds |-> [f \in Files |-> IF disk[f] = 0 THEN NoOutput ELSE output[k][f]]]
  /\ unseen' = IF GateOpen THEN unseen ELSE {f \in unseen : disk[f] = 0 /\ prog[f] # 0}
  /\ pc' = "compile"
  /\ UNCHANGED <<tree, options, stored, mode, prog, valid, recorded, selected, todo, edits, builds, disturbed>>

\* Every selected file compiles, or none is written.
Broken(f) == ~(Refs(prog, f) \subseteq Present(prog))
Compile ==
  /\ pc = "compile" /\ \A f \in selected : ~Broken(f)
  /\ todo' = Kinds \X selected
  /\ pc' = "write"
  /\ UNCHANGED <<tree, options, output, stored, plan, edits, builds, history>>

\* OutputWriter::write: a validated output with the same hash is left alone.
Unwritten(k, f) == f \in valid[k] /\ recorded[k][f] = Content(k, prog, f) /\ output[k][f] # NoOutput
Write(k, f) ==
  /\ pc = "write" /\ <<k, f>> \in todo /\ todo' = todo \ {<<k, f>>}
  /\ output' = IF Unwritten(k, f) THEN output ELSE [output EXCEPT ![k][f] = Content(k, prog, f)]
  /\ recorded' = [recorded EXCEPT ![k][f] = Content(k, prog, f)]
  /\ UNCHANGED <<tree, options, stored, pc, mode, prog, valid, selected, skip, seen, edits, builds, history>>

\* prune_missing_outputs, by what the validation found or by what is there now
Existing(k) == IF skip THEN valid[k] ELSE {f \in Files : output[k][f] # NoOutput}
Prune ==
  /\ pc = "write" /\ todo = {}
  /\ recorded' = [k \in Kinds |->
       [f \in Files |-> IF f \in Existing(k) THEN recorded[k][f] ELSE NoOutput]]
  /\ pc' = IF mode = "declarations" THEN "manifest" ELSE "gate"
  /\ UNCHANGED <<tree, options, output, stored, mode, prog, valid, selected, todo, skip, seen,
                 edits, builds, history>>

\* The deferred steps of a solution: the gate, then the manifest by one rename.
SaveGate ==
  /\ pc = "gate" /\ gate' = seen /\ pc' = "manifest"
  /\ UNCHANGED <<tree, options, output, manifest, plan, todo, edits, builds, history>>

NoBuild == mode' = "all" /\ prog' = [f \in Files |-> 0] /\ valid' = [k \in Kinds |-> {}]
           /\ recorded' = Nothing /\ selected' = {} /\ skip' = FALSE /\ seen' = 0

SaveManifest ==
  /\ pc = "manifest" /\ pc' = "idle"
  /\ manifest' = [salt |-> mode, files |-> prog, outputs |-> recorded]
  /\ NoBuild
  /\ UNCHANGED <<tree, options, output, gate, todo, edits, builds, history>>

\* Compile errors, a failed write, a solution that forgets what it deferred, or the
\* end of the process: the manifest stays, and one output may be half written.
Abort ==
  /\ pc # "idle" /\ pc' = "idle" /\ todo' = {}
  /\ output' \in {output} \cup {[output EXCEPT ![o[1]][o[2]] = Torn] : o \in todo}
  /\ NoBuild
  /\ UNCHANGED <<tree, options, stored, edits, builds, history>>

Build ==
  \/ Select \/ Clean \/ Compile \/ Prune \/ SaveGate \/ SaveManifest
  \/ \E k \in Kinds, f \in Files : Write(k, f)

Next ==
  \/ StartBuild \/ Build \/ Abort \/ ChangeOptions
  \/ \E f \in Files : Edit(f) \/ Remove(f) \/ \E k \in Kinds : Tamper(k, f)

Spec == Init /\ [][Next]_vars

-----------------------------------------------------------------------------
(* Properties                                                              *)

\* Types; a build selects and writes only files of its program, so that it never
\* emits for a source that is gone.
TypeOK ==
  /\ disk \in Program /\ shape \in Nat /\ options \in Modes
  /\ manifest.salt \in Modes \cup {"none"} /\ manifest.files \in Program
  /\ gate \in Nat
  /\ pc \in {"idle", "select", "clean", "compile", "write", "gate", "manifest"}
  /\ mode \in Modes /\ prog \in Program
  /\ valid \in [Kinds -> SUBSET Files]
  /\ selected \subseteq Present(prog) /\ todo \subseteq Kinds \X Present(prog)
  /\ skip \in BOOLEAN /\ seen \in Nat
  /\ disturbed \subseteq Kinds \X Files /\ unseen \subseteq Files

\* Written: the build has written its outputs.
Written == pc \in {"gate", "manifest"}
Wanted == IF mode = "all" THEN Kinds ELSE {"d.ts"}

\* "The same bytes" (incremental_signature.rs:6): when a build is done, the outputs
\* of its whole program are those of a full build, whatever it selected.
OutputsOfFullBuild ==
  Written => \A k \in Wanted, f \in Present(prog) :
    <<k, f>> \notin disturbed => output[k][f] = Content(k, prog, f)

\* What a manifest records of a file is what a full build of its sources writes, so
\* that no history of failed builds makes a later one trust a stale output.
ManifestVouches ==
  manifest.salt # "none" =>
    \A k \in Kinds, f \in Present(manifest.files) :
      manifest.outputs[k][f] \in {NoOutput, Content(k, manifest.files, f)}

\* No output of a source that is gone survives a build.
NoOrphans ==
  Written /\ mode = "all" =>
    \A k \in Kinds, f \in Files :
      prog[f] = 0 /\ disk[f] = 0 /\ f \notin unseen /\ <<k, f>> \notin disturbed => output[k][f] = NoOutput
===============================================================================
