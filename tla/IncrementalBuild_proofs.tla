----------------------- MODULE IncrementalBuild_proofs -----------------------
(***************************************************************************)
(* For any sources, texts and imports, and any history of edits, failures  *)
(* and crashes: where a declaration copies what it exports, a build leaves *)
(* what a full build writes, and its manifest records nothing else.        *)
(***************************************************************************)
EXTENDS IncrementalBuild, TLAPS

USE DEF tree, stored, plan, history

\* What the selection relies on: the declaration of a file spells all that its
\* importers can see through it, of its own and of the files it imports.
DeclarationsCopy ==
  \A f \in Files, v \in Versions :
    /\ Shows[f][v] = Spells[f][v]
    /\ f \in Spells[f][v] /\ Spells[f][v] \subseteq {f} \cup ImportsOf[f][v]

-----------------------------------------------------------------------------
(* Types                                                                   *)

Contents == {Content(k, p, f) : k \in Kinds, p \in Program, f \in Files}
Tables == [Kinds -> [Files -> Contents \cup {NoOutput, Torn}]]

\* The types of the outputs and of what is recorded of them; between builds there
\* is no plan.
Types ==
  /\ TypeOK
  /\ output \in Tables /\ manifest.outputs \in Tables /\ recorded \in Tables
  /\ pc = "idle" => prog = [f \in Files |-> 0]
  /\ pc \in {"idle", "select"} => selected = {}
  /\ pc # "write" => todo = {}
  /\ todo # {} /\ mode = "all" => todo \subseteq Kinds \X selected
  /\ shape > 0 /\ (pc \in {"idle", "select", "clean"} => seen = 0)
  /\ mode = "declarations" =>
       seen = 0 /\ pc \notin {"clean", "compile", "gate"} /\ todo \subseteq {"d.ts"} \X Files

LEMMA NothingTyped == Nothing \in Tables
BY DEF Nothing, Tables

LEMMA NoManifestTyped == NoManifest.outputs = Nothing /\ NoManifest.salt = "none"
                         /\ NoManifest.files = [f \in Files |-> 0]
BY DEF NoManifest

LEMMA PreviousTyped == ASSUME Types
                       PROVE  Previous.outputs \in Tables /\ Previous.files \in Program
BY NothingTyped, NoManifestTyped DEF Previous, Types, TypeOK, Program

LEMMA Selected == ASSUME NEW good, NEW S \in Selections(good)
                  PROVE  S \subseteq Present(prog)
BY DEF Selections, Narrowed, Widened, Present

LEMMA SaveTyped == ASSUME Types, NEW f \in Files, NEW v \in Versions \cup {0}, Save(f, v)
                   PROVE  /\ disk' \in Program /\ shape' \in Nat /\ shape' > 0
                          /\ shape' >= shape /\ (v = 0 \/ disk[f] = 0 => shape' > shape)
BY DEF Types, TypeOK, Program, Save

LEMMA TypesInductive == ASSUME Types, [Next]_vars PROVE Types'
<1>1. CASE StartBuild
  BY <1>1 DEF StartBuild, Types, TypeOK, Present
<1>2. CASE Select
  <2>. DEFINE good == [k \in Kinds |-> {f \in Files : output[k][f] \notin {NoOutput, Torn}
                                               /\ output[k][f] = Previous.outputs[k][f]}]
  <2>1. valid' = good /\ recorded' = Previous.outputs
    BY <1>2 DEF Select
  <2>2. disturbed' \subseteq Kinds \X Files
    BY <1>2 DEF Select, Types, TypeOK
  <2>3. good \in [Kinds -> SUBSET Files]
    OBVIOUS
  <2>4. CASE mode = "declarations"
    <3>1. /\ selected' = {} /\ todo' = {"d.ts"} \X Present(prog) /\ pc' = "write" /\ skip' = FALSE
      BY <1>2, <2>4 DEF Select
    <3>. HIDE DEF good
    <3>. QED BY <1>2, <2>1, <2>2, <2>3, <2>4, <3>1, PreviousTyped DEF Select, Types, TypeOK, Kinds, Present
  <2>5. CASE mode = "all"
    <3>1. selected' \in Selections(good) /\ pc' = "clean" /\ UNCHANGED <<todo, skip>>
      BY <1>2, <2>5 DEF Select
    <3>2. selected' \subseteq Present(prog)
      BY <3>1, Selected
    <3>. HIDE DEF good
    <3>. QED BY <1>2, <2>1, <2>2, <2>3, <2>5, <3>1, <3>2, PreviousTyped DEF Select, Types, TypeOK, Present
  <2>. QED BY <2>4, <2>5 DEF Types, TypeOK, Modes
<1>3. CASE Clean
  <2>1. output' \in Tables
    BY <1>3 DEF Clean, Types, Tables
  <2>2. unseen' \subseteq Files
    BY <1>3 DEF Clean, Types, TypeOK
  <2>. QED BY <1>3, <2>1, <2>2 DEF Clean, Types, TypeOK, Present, GateOpen
<1>4. CASE Compile
  BY <1>4 DEF Compile, Types, TypeOK, Present
<1>5. CASE \E k \in Kinds, f \in Files : Write(k, f)
  <2>. PICK k \in Kinds, f \in Files : Write(k, f)
    BY <1>5
  <2>1. Content(k, prog, f) \in Contents
    BY DEF Contents, Types, TypeOK
  <2>2. output' \in Tables /\ recorded' \in Tables
    BY <2>1 DEF Write, Types, Tables
  <2>. QED BY <2>2 DEF Write, Types, TypeOK, Present
<1>6. CASE Prune
  <2>1. recorded' \in Tables
    BY <1>6 DEF Prune, Types, Tables
  <2>. QED BY <1>6, <2>1 DEF Prune, Types, TypeOK, Present
<1>7. CASE SaveGate
  BY <1>7 DEF SaveGate, Types, TypeOK, Present
<1>8. CASE SaveManifest
  <2>1. manifest'.salt = mode /\ manifest'.files = prog /\ manifest'.outputs = recorded
    BY <1>8 DEF SaveManifest
  <2>. QED BY <1>8, <2>1, NothingTyped DEF SaveManifest, NoBuild, Types, TypeOK, Present, Program, Modes
<1>9. CASE Abort
  <2>1. output' \in Tables
    <3>1. CASE output' = output
      BY <3>1 DEF Types
    <3>2. CASE \E o \in todo : output' = [output EXCEPT ![o[1]][o[2]] = Torn]
      <4>1. PICK k \in Kinds, f \in Files : output' = [output EXCEPT ![k][f] = Torn]
        BY <3>2 DEF Types, TypeOK, Present
      <4>. QED BY <4>1 DEF Types, Tables
    <3>. QED BY <1>9, <3>1, <3>2 DEF Abort
  <2>. QED BY <1>9, <2>1, NothingTyped DEF Abort, NoBuild, Types, TypeOK, Present, Program, Modes
<1>10. CASE ChangeOptions
  BY <1>10, NothingTyped, NoManifestTyped DEF ChangeOptions, Types, TypeOK, Present, Program
<1>11. ASSUME NEW f \in Files, Edit(f) PROVE Types'
  BY <1>11, SaveTyped DEF Edit, Save, Types, TypeOK, Present
<1>12. ASSUME NEW f \in Files, Remove(f) PROVE Types'
  <2>1. disturbed' \subseteq Kinds \X Files /\ unseen' \subseteq Files
    BY <1>12 DEF Remove, Disturb, Vanish, Types, TypeOK
  <2>. QED BY <1>12, <2>1, SaveTyped DEF Remove, Save, Types, TypeOK, Present
<1>13. ASSUME NEW f \in Files, NEW k \in Kinds, Tamper(k, f) PROVE Types'
  <2>1. output' \in Tables /\ disturbed' \subseteq Kinds \X Files
    BY <1>13 DEF Tamper, Disturb, Types, TypeOK, Tables
  <2>. QED BY <1>13, <2>1 DEF Tamper, Types, TypeOK, Present
<1>14. CASE UNCHANGED vars
  BY <1>14 DEF vars, Types, TypeOK, Present
<1>. QED BY <1>1, <1>2, <1>3, <1>4, <1>5, <1>6, <1>7, <1>8, <1>9, <1>10, <1>11, <1>12, <1>13, <1>14
         DEF Next, Build

LEMMA TypesAtInit == ASSUME Init PROVE Types
<1>1. disk \in Program /\ prog \in Program /\ manifest.files \in Program
  BY NoManifestTyped DEF Init, Program
<1>2. output \in Tables /\ manifest.outputs \in Tables /\ recorded \in Tables
  BY NothingTyped, NoManifestTyped DEF Init
<1>3. TypeOK
  BY <1>1, NoManifestTyped DEF Init, TypeOK, Modes, Present
<1>. QED BY <1>1, <1>2, <1>3 DEF Init, Types

\* Every variable keeps its type: a build selects and writes only files of its program.
THEOREM TypeCorrect == Spec => []TypeOK
<1>1. Types => TypeOK
  BY DEF Types
<1>. QED BY <1>1, TypesAtInit, TypesInductive, PTL DEF Spec

-----------------------------------------------------------------------------
(* Selection                                                               *)

LEMMA ClosureHoldsSeeds == ASSUME NEW seeds \in SUBSET Files, NEW Through
                           PROVE  seeds \subseteq Closure(seeds, Through)
BY DEF Closure

LEMMA ClosureIsClosed == ASSUME NEW seeds, NEW Through, NEW f \in Closure(seeds, Through), f \in Through
                         PROVE  Importers(f) \subseteq Closure(seeds, Through)
<1>. SUFFICES ASSUME NEW g \in Importers(f), NEW S \in SUBSET Files,
                     seeds \subseteq S, Closed(S, Through)
              PROVE  g \in S
  BY DEF Closure, Importers
<1>. QED BY DEF Closure, Closed

\* S holds what changed, and the importers of what it holds unless they are Held.
Covers(S) ==
  /\ Changed \subseteq S
  /\ \A f \in S : ~Held(f) => Importers(f) \subseteq S

\* The manifest describes a whole build, with these options, of sources that are there.
Complete(m) == \A f \in Present(m.files) : Refs(m.files, f) \subseteq Present(m.files)
Vouched(m) ==
  \A k \in Kinds, f \in Present(m.files) : m.outputs[k][f] \in {NoOutput, Content(k, m.files, f)}

\* A file outside what a selection covers is as the manifest has it; so is the API of
\* all it can see, which makes its outputs those the manifest records.
LEMMA OutsideIsSettled ==
  ASSUME DeclarationsCopy, Types, Usable, Complete(manifest), Vouched(manifest),
         NEW S \in SUBSET Files, Covers(S), NEW f \in Present(prog), f \notin S
  PROVE  /\ f \in Present(manifest.files)
         /\ \A k \in Kinds : Content(k, prog, f) = Content(k, manifest.files, f)
         /\ Refs(prog, f) \subseteq Present(prog)
<1>. DEFINE files == manifest.files
            Kept(g) == g \in Files /\ (g \notin S \/ Held(g))
<1>1. Previous = manifest /\ files \in Program /\ prog \in Program
  BY DEF Previous, Types, TypeOK
<1>2. \A g \in Files \ S : prog[g] = files[g]
  BY <1>1 DEF Covers, Changed
<1>3. ASSUME NEW g \in Present(prog), g \notin S, NEW h \in Refs(prog, g)
      PROVE  h \in Present(files) /\ Kept(h)
  <2>1. g \in Present(files) /\ Refs(files, g) = Refs(prog, g)
    BY <1>2, <1>3 DEF Present, Refs
  <2>2. h \in Present(files)
    BY <2>1 DEF Complete
  <2>3. g \in Importers(h)
    BY <1>1 DEF Importers, Present
  <2>. QED BY <1>3, <2>2, <2>3 DEF Covers, Present
<1>4. ASSUME NEW g \in Present(files), Held(g)
      PROVE  /\ g \in Present(prog) /\ Spells[g][prog[g]] = Spells[g][files[g]]
             /\ \A h \in Spells[g][prog[g]] : Api(prog, h) = Api(files, h)
  <2>1. prog[g] # 0 /\ g \in Files /\ manifest.outputs["d.ts"][g] = Declaration(prog, g)
    BY <1>1, <1>4 DEF Held, Present
  <2>2. Declaration(prog, g) # NoOutput
    BY <1>1, <2>1, ContentAssumption DEF Content, Kinds
  <2>3. manifest.outputs["d.ts"][g] \in {NoOutput, Declaration(files, g)}
    BY DEF Vouched, Content, Kinds
  <2>4. Declaration(prog, g) = Declaration(files, g)
    BY <2>1, <2>2, <2>3
  <2>. DEFINE D(p) == [h \in Spells[g][p[g]] |-> Api(p, h)]
  <2>5. DOMAIN D(prog) = DOMAIN D(files) /\ \A h \in DOMAIN D(prog) : D(prog)[h] = D(files)[h]
    BY <2>4 DEF Declaration
  <2>. QED BY <2>1, <2>5 DEF Present
<1>5. ASSUME NEW g \in Present(files), Kept(g)
      PROVE  g \in Present(prog) /\ Api(prog, g) = Api(files, g)
  <2>1. CASE g \notin S
    BY <1>2, <2>1 DEF Present, Api
  <2>2. CASE Held(g)
    <3>1. g \in Spells[g][prog[g]]
      BY <1>1, <1>4, <2>2 DEF DeclarationsCopy, Present, Program
    <3>. QED BY <1>4, <2>2, <3>1
  <2>. QED BY <1>5, <2>1, <2>2
<1>6. ASSUME NEW g \in Present(files), Kept(g)
      PROVE  /\ g \in Present(prog) /\ Shows[g][prog[g]] = Shows[g][files[g]]
             /\ Spells[g][prog[g]] = Spells[g][files[g]]
             /\ Shows[g][prog[g]] = Spells[g][prog[g]]
             /\ \A h \in Spells[g][prog[g]] : Api(prog, h) = Api(files, h)
  <2>1. g \in Present(prog) /\ g \in Files /\ prog[g] \in Versions /\ files[g] \in Versions
    BY <1>1, <1>5, <1>6 DEF Present, Program
  <2>2. Spells[g][prog[g]] = Spells[g][files[g]]
    BY <1>2, <1>4, <1>6
  <2>3. \A h \in Spells[g][prog[g]] : Api(prog, h) = Api(files, h)
    <3>1. CASE g \notin S
      <4>. SUFFICES ASSUME NEW h \in Spells[g][prog[g]] PROVE Api(prog, h) = Api(files, h)
        OBVIOUS
      <4>1. h = g \/ h \in Refs(prog, g)
        BY <2>1 DEF DeclarationsCopy, Refs, Present
      <4>. QED BY <1>3, <1>5, <1>6, <2>1, <3>1, <4>1
    <3>. QED BY <1>4, <1>6, <3>1
  <2>. QED BY <2>1, <2>2, <2>3 DEF DeclarationsCopy
<1>7. f \in Present(files) /\ prog[f] = files[f] /\ Kept(f)
  BY <1>2 DEF Present
<1>8. Refs(prog, f) = Refs(files, f) /\ Refs(prog, f) \subseteq Present(files)
  BY <1>7 DEF Refs, Complete
<1>9. \A h \in Refs(prog, f) : Kept(h) /\ h \in Present(prog)
  BY <1>3, <1>5
<1>10. Declaration(prog, f) = Declaration(files, f)
  BY <1>6, <1>7 DEF Declaration
<1>11. Compiled(prog, f) = Compiled(files, f)
  <2>. DEFINE Seen(p) == UNION {Shows[h][p[h]] : h \in Refs(p, f) \cap Present(p)}
  <2>1. Refs(prog, f) \cap Present(prog) = Refs(files, f) \cap Present(files)
    BY <1>8, <1>9
  <2>2. \A h \in Refs(prog, f) : Shows[h][prog[h]] = Shows[h][files[h]]
    BY <1>6, <1>8, <1>9
  <2>3. Seen(prog) = Seen(files)
    BY <2>1, <2>2
  <2>4. \A g \in Seen(prog) : Api(prog, g) = Api(files, g)
    BY <1>6, <1>8, <1>9
  <2>5. [g \in Seen(prog) |-> Api(prog, g)] = [g \in Seen(files) |-> Api(files, g)]
    <3>. HIDE DEF Seen
    <3>. QED BY <2>3, <2>4
  <2>. QED BY <1>7, <2>5 DEF Compiled
<1>. QED BY <1>7, <1>9, <1>10, <1>11 DEF Content

\* The outputs that Select finds as the manifest describes them.
Found == [k \in Kinds |-> {f \in Files : output[k][f] \notin {NoOutput, Torn}
                                         /\ output[k][f] = Previous.outputs[k][f]}]

LEMMA SelectionCovers ==
  ASSUME Types, Select, mode = "all", NEW f \in Present(prog), f \notin selected'
  PROVE  /\ Usable /\ f \notin Recovered(Found)
         /\ \E S \in SUBSET Files : Covers(S) /\ f \notin S
<1>1. selected' \in Selections(Found) /\ Usable /\ f \in Files
  BY DEF Select, Found, Selections, Present
<1>. DEFINE Unheld == {g \in Files : ~Held(g)}
<1>2. Changed \subseteq Files /\ Recovered(Found) \subseteq Files
  BY DEF Changed, Recovered
<1>3. CASE selected' = Narrowed(Found)
  <2>. DEFINE S == Closure(Changed \cup Recovered(Found), Unheld)
  <2>1. Changed \cup Recovered(Found) \subseteq S /\ S \subseteq Files
    BY <1>2, ClosureHoldsSeeds DEF Closure
  <2>2. \A g \in S : ~Held(g) => Importers(g) \subseteq S
    BY <2>1, ClosureIsClosed
  <2>3. f \notin S
    BY <1>3 DEF Narrowed
  <2>. HIDE DEF S
  <2>. QED BY <1>1, <2>1, <2>2, <2>3 DEF Covers
<1>4. CASE selected' = Widened(Found)
  <2>. DEFINE S == Closure(Changed, Files)
  <2>1. Changed \subseteq S /\ S \subseteq Files
    BY <1>2, ClosureHoldsSeeds DEF Closure
  <2>2. \A g \in S : Importers(g) \subseteq S
    BY <2>1, ClosureIsClosed
  <2>3. f \notin S /\ f \notin Recovered(Found)
    BY <1>4 DEF Widened
  <2>. HIDE DEF S
  <2>. QED BY <1>1, <2>1, <2>2, <2>3 DEF Covers
<1>. QED BY <1>1, <1>3, <1>4 DEF Selections

-----------------------------------------------------------------------------
(* The manifest                                                            *)

Started == pc \notin {"idle", "select"}

\* The outputs that the build has still to write, or to decide about.
Pending == IF pc \in {"clean", "compile"} THEN Kinds \X selected ELSE todo

\* A manifest is believed because a build that did not fail wrote it: it vouches
\* for its outputs, of files whose imports were all there.
Trusted ==
  /\ ManifestVouches
  /\ manifest.salt = "all" => Complete(manifest)
  /\ manifest.salt = "declarations" => \A f \in Files : manifest.outputs["luau"][f] = NoOutput

\* What a build will record is right of all but what it has still to write.
Recording ==
  Started =>
    /\ \A k \in Kinds, f \in Present(prog) :
         <<k, f>> \notin Pending => recorded[k][f] \in {NoOutput, Content(k, prog, f)}
    /\ mode = "all" =>
         \A f \in Present(prog) : Refs(prog, f) \subseteq Present(prog)
                                  \/ (pc \in {"clean", "compile"} /\ f \in selected)
    /\ mode = "declarations" => \A f \in Files : recorded["luau"][f] = NoOutput

LEMMA TrustedVouched == Trusted /\ Types => (manifest.salt # "none" => Vouched(manifest))
BY DEF Trusted, ManifestVouches, Vouched

LEMMA NoManifestTrusted == ASSUME manifest' = NoManifest PROVE Trusted'
BY NoManifestTyped DEF Trusted, ManifestVouches

LEMMA SelectRecords == ASSUME DeclarationsCopy, Types, Trusted, Select PROVE Recording'
<1>1. /\ recorded' = Previous.outputs /\ UNCHANGED <<prog, mode>> /\ mode \in Modes
  BY DEF Select, Types, TypeOK
<1>2. CASE mode = "declarations"
  <2>1. selected' = {} /\ todo' = {"d.ts"} \X Present(prog) /\ pc' = "write"
    BY <1>2 DEF Select
  <2>2. \A f \in Files : recorded'["luau"][f] = NoOutput
    <3>1. CASE Usable
      BY <1>1, <1>2, <3>1 DEF Usable, Previous, Trusted
    <3>2. CASE ~Usable
      BY <1>1, <3>2, NoManifestTyped DEF Previous, Nothing, Kinds
    <3>. QED BY <3>1, <3>2
  <2>. QED BY <1>1, <1>2, <2>1, <2>2 DEF Recording, Pending, Kinds, Present
<1>3. CASE mode = "all"
  <2>1. pc' = "clean" /\ Pending' = Kinds \X selected'
    BY <1>3 DEF Select, Pending
  <2>2. ASSUME NEW f \in Present(prog), f \notin selected'
        PROVE  /\ Refs(prog, f) \subseteq Present(prog)
               /\ \A k \in Kinds : recorded'[k][f] \in {NoOutput, Content(k, prog, f)}
    <3>1. Usable
      BY <1>3, <2>2, SelectionCovers
    <3>2. PICK S \in SUBSET Files : Covers(S) /\ f \notin S
      BY <1>3, <2>2, SelectionCovers
    <3>3. Complete(manifest) /\ Vouched(manifest) /\ Previous = manifest
      BY <1>3, <3>1, TrustedVouched DEF Usable, Trusted, Previous
    <3>4. /\ f \in Present(manifest.files) /\ Refs(prog, f) \subseteq Present(prog)
          /\ \A k \in Kinds : Content(k, prog, f) = Content(k, manifest.files, f)
      BY <3>1, <3>2, <3>3, OutsideIsSettled
    <3>. QED BY <1>1, <3>3, <3>4 DEF Vouched
  <2>3. \A k \in Kinds, f \in Present(prog) :
          <<k, f>> \notin Pending' => recorded'[k][f] \in {NoOutput, Content(k, prog, f)}
    BY <2>1, <2>2
  <2>. QED BY <1>1, <1>3, <2>1, <2>2, <2>3 DEF Recording
<1>. QED BY <1>1, <1>2, <1>3 DEF Modes

LEMMA RecordingInductive ==
  ASSUME DeclarationsCopy, Types, Types', Trusted, Recording, [Next]_vars
  PROVE  Trusted' /\ Recording'
<1>1. CASE StartBuild
  BY <1>1 DEF StartBuild, Trusted, ManifestVouches, Recording, Started
<1>2. CASE Select
  BY <1>2, SelectRecords DEF Select, Trusted, ManifestVouches
<1>3. CASE Clean
  <2>1. Pending' = Pending /\ pc' = "compile"
    BY <1>3 DEF Clean, Pending
  <2>. QED BY <1>3, <2>1 DEF Clean, Trusted, ManifestVouches, Recording, Started
<1>4. CASE Compile
  <2>1. Pending' = Pending /\ pc' = "write" /\ UNCHANGED <<manifest, prog, mode, recorded, selected>>
    BY <1>4 DEF Compile, Pending
  <2>2. \A f \in selected : Refs(prog, f) \subseteq Present(prog)
    BY <1>4 DEF Compile, Broken
  <2>. QED BY <1>4, <2>1, <2>2 DEF Compile, Trusted, ManifestVouches, Recording, Started
<1>5. CASE \E k \in Kinds, f \in Files : Write(k, f)
  <2>. PICK k \in Kinds, f \in Files : Write(k, f)
    BY <1>5
  <2>1. /\ Pending' = Pending \ {<<k, f>>} /\ pc' = pc /\ pc = "write"
        /\ UNCHANGED <<manifest, prog, mode, selected>>
    BY DEF Write, Pending
  <2>2. \A l \in Kinds, g \in Files :
          recorded'[l][g] = IF <<l, g>> = <<k, f>> THEN Content(k, prog, f) ELSE recorded[l][g]
    BY DEF Write, Types, Tables
  <2>3. mode = "declarations" => k = "d.ts"
    BY DEF Write, Types
  <2>. QED BY <2>1, <2>2, <2>3 DEF Trusted, ManifestVouches, Recording, Started, Present, Kinds
<1>6. CASE Prune
  <2>1. Pending' = {} /\ Pending = {} /\ UNCHANGED <<manifest, prog, mode>> /\ pc = "write"
        /\ pc' \in {"manifest", "gate"}
    BY <1>6 DEF Prune, Pending
  <2>2. \A k \in Kinds, f \in Files : recorded'[k][f] \in {recorded[k][f], NoOutput}
    BY <1>6 DEF Prune
  <2>. QED BY <2>1, <2>2 DEF Trusted, ManifestVouches, Recording, Started, Present, Kinds
<1>7. CASE SaveGate
  BY <1>7 DEF SaveGate, Trusted, ManifestVouches, Recording, Started, Pending
<1>8. CASE SaveManifest
  <2>1. manifest'.salt = mode /\ manifest'.files = prog /\ manifest'.outputs = recorded
    BY <1>8 DEF SaveManifest
  <2>2. pc = "manifest" /\ Pending = {} /\ pc' = "idle"
    BY <1>8 DEF SaveManifest, Pending, Types
  <2>. QED BY <2>1, <2>2 DEF Trusted, ManifestVouches, Recording, Started, Complete
<1>9. CASE Abort
  BY <1>9 DEF Abort, Trusted, ManifestVouches, Recording, Started
<1>10. CASE ChangeOptions
  <2>1. Recording'
    BY <1>10 DEF ChangeOptions, Recording, Started, Pending
  <2>2. CASE manifest' = manifest
    BY <2>1, <2>2 DEF Trusted, ManifestVouches
  <2>. QED BY <1>10, <2>1, <2>2, NoManifestTrusted DEF ChangeOptions
<1>11. ASSUME UNCHANGED <<manifest, pc, plan, todo>> PROVE Trusted' /\ Recording'
  BY <1>11 DEF Trusted, ManifestVouches, Recording, Started, Pending
<1>12. ASSUME NEW f \in Files, Edit(f) \/ Remove(f) \/ \E k \in Kinds : Tamper(k, f)
       PROVE  UNCHANGED <<manifest, pc, plan, todo>>
  BY <1>12 DEF Edit, Remove, Save, Tamper
<1>. QED BY <1>1, <1>2, <1>3, <1>4, <1>5, <1>6, <1>7, <1>8, <1>9, <1>10, <1>11, <1>12
         DEF Next, Build, vars

LEMMA TrustedAtInit == ASSUME Init PROVE Trusted /\ Recording
BY NoManifestTyped DEF Init, Trusted, ManifestVouches, Recording, Started

\* Whatever builds failed, were cut off or ran with other options: a manifest records
\* of a file what a full build of its sources writes, or nothing.
THEOREM ManifestIsBelieved == ASSUME DeclarationsCopy PROVE Spec => []ManifestVouches
<1>1. Trusted => ManifestVouches
  BY DEF Trusted
<1>2. Types /\ Trusted /\ Recording /\ [Next]_vars => Types' /\ Trusted' /\ Recording'
  BY TypesInductive, RecordingInductive
<1>. QED BY <1>1, <1>2, TypesAtInit, TrustedAtInit, PTL DEF Spec

-----------------------------------------------------------------------------
(* The outputs                                                             *)

\* An output nobody disturbed is what its hash says, until it is what it should be.
Settled(k, f) ==
  /\ <<k, f>> \in Pending /\ f \in valid[k] => output[k][f] = recorded[k][f]
  /\ <<k, f>> \notin Pending => output[k][f] = Content(k, prog, f)
Outputs == Started => \A k \in Wanted, f \in Present(prog) : <<k, f>> \notin disturbed => Settled(k, f)

\* A source that went away in the course of the build takes its outputs with it.
Gone == pc # "idle" => \A f \in Present(prog) : disk[f] = 0 => \A k \in Kinds : <<k, f>> \in disturbed

LEMMA WantedKinds == Wanted \subseteq Kinds
BY DEF Wanted, Kinds

LEMMA SelectSettles == ASSUME DeclarationsCopy, Types, Trusted, Select PROVE Outputs'
<1>1. /\ recorded' = Previous.outputs /\ UNCHANGED <<prog, mode, output>> /\ mode \in Modes
      /\ valid' = Found /\ Wanted' = Wanted
      /\ disturbed' = disturbed \cup
             {o \in Kinds \X Files : Usable /\ Previous.files[o[2]] # 0
                                            /\ Previous.outputs[o[1]][o[2]] = NoOutput}
  BY DEF Select, Types, TypeOK, Found, Wanted
<1>2. SUFFICES ASSUME NEW k \in Kinds, k \in Wanted, NEW f \in Present(prog), <<k, f>> \notin disturbed'
               PROVE  Settled(k, f)'
  BY <1>1, WantedKinds DEF Outputs
<1>3. f \in valid'[k] => output'[k][f] = recorded'[k][f]
  BY <1>1 DEF Found
<1>4. CASE mode = "declarations"
  <2>1. Pending' = {"d.ts"} \X Present(prog) /\ k = "d.ts"
    BY <1>2, <1>4 DEF Select, Pending, Wanted
  <2>. QED BY <1>3, <2>1 DEF Settled
<1>5. CASE mode = "all"
  <2>1. Pending' = Kinds \X selected'
    BY <1>5 DEF Select, Pending
  <2>2. ASSUME f \notin selected' PROVE output'[k][f] = Content(k, prog, f)
    <3>1. Usable /\ f \notin Recovered(Found) /\ f \in Files
      BY <1>5, <2>2, SelectionCovers DEF Present
    <3>2. PICK S \in SUBSET Files : Covers(S) /\ f \notin S
      BY <1>5, <2>2, SelectionCovers
    <3>3. Complete(manifest) /\ Vouched(manifest) /\ Previous = manifest
      BY <1>5, <3>1, TrustedVouched DEF Usable, Trusted, Previous
    <3>4. f \in Present(manifest.files) /\ Content(k, prog, f) = Content(k, manifest.files, f)
      BY <3>1, <3>2, <3>3, OutsideIsSettled
    <3>5. manifest.outputs[k][f] # NoOutput
      BY <1>1, <1>2, <3>1, <3>3, <3>4 DEF Present
    <3>6. f \in Found[k]
      BY <3>1, <3>3, <3>5 DEF Recovered
    <3>7. output[k][f] = manifest.outputs[k][f]
      BY <3>3, <3>6 DEF Found
    <3>. QED BY <1>1, <3>3, <3>4, <3>5, <3>7 DEF Vouched
  <2>. QED BY <1>1, <1>3, <2>1, <2>2 DEF Settled
<1>. QED BY <1>1, <1>4, <1>5 DEF Modes

LEMMA OutputsInductive ==
  ASSUME DeclarationsCopy, Types, Types', Trusted, Outputs, Gone, [Next]_vars
  PROVE  Outputs' /\ Gone'
<1>1. CASE StartBuild
  BY <1>1 DEF StartBuild, Outputs, Gone, Started, Present
<1>2. CASE Select
  BY <1>2, SelectSettles DEF Select, Gone
<1>3. CASE Clean
  <2>1. /\ Pending' = Pending /\ pc' = "compile" /\ pc = "clean" /\ Wanted' = Wanted
        /\ UNCHANGED <<disk, prog, valid, recorded, disturbed>>
    BY <1>3 DEF Clean, Pending, Wanted
  <2>2. \A k \in Kinds, f \in Files : disk[f] # 0 => output'[k][f] = output[k][f]
    BY <1>3 DEF Clean
  <2>3. \A k \in Kinds, f \in Present(prog) : <<k, f>> \notin disturbed => disk[f] # 0
    BY <2>1 DEF Gone
  <2>. QED BY <2>1, <2>2, <2>3, WantedKinds DEF Outputs, Gone, Started, Settled, Present
<1>4. CASE Compile
  <2>1. Pending' = Pending /\ pc' = "write" /\ pc = "compile" /\ Wanted' = Wanted
    BY <1>4 DEF Compile, Pending, Wanted
  <2>. QED BY <1>4, <2>1 DEF Compile, Outputs, Gone, Started, Settled
<1>5. CASE \E k \in Kinds, f \in Files : Write(k, f)
  <2>. PICK k \in Kinds, f \in Files : Write(k, f)
    BY <1>5
  <2>1. /\ <<k, f>> \in Pending /\ Pending' = Pending \ {<<k, f>>} /\ pc' = pc /\ pc = "write"
        /\ Wanted' = Wanted /\ UNCHANGED <<disk, prog, valid, disturbed>>
    BY DEF Write, Pending, Wanted
  <2>2. \A l \in Kinds, g \in Files : <<l, g>> # <<k, f>> =>
          recorded'[l][g] = recorded[l][g] /\ output'[l][g] = output[l][g]
    BY DEF Write, Types, Tables
  <2>3. output'[k][f] = IF Unwritten(k, f) THEN output[k][f] ELSE Content(k, prog, f)
    BY DEF Write, Types, Tables
  <2>4. ASSUME k \in Wanted, f \in Present(prog), <<k, f>> \notin disturbed
        PROVE  output'[k][f] = Content(k, prog, f)
    BY <2>1, <2>3, <2>4 DEF Outputs, Started, Settled, Unwritten
  <2>5. Outputs'
    <3>. SUFFICES ASSUME NEW l \in Wanted, NEW g \in Present(prog), <<l, g>> \notin disturbed
                  PROVE  Settled(l, g)'
      BY <2>1 DEF Outputs
    <3>1. l \in Kinds /\ g \in Files /\ Settled(l, g)
      BY <2>1, WantedKinds DEF Outputs, Started, Present
    <3>2. CASE <<l, g>> = <<k, f>>
      BY <2>1, <2>4, <3>2 DEF Settled
    <3>3. CASE <<l, g>> # <<k, f>>
      BY <2>1, <2>2, <3>1, <3>3 DEF Settled
    <3>. QED BY <3>2, <3>3
  <2>. QED BY <2>1, <2>5 DEF Gone
<1>6. CASE Prune
  <2>1. Pending' = {} /\ Pending = {} /\ pc = "write" /\ Wanted' = Wanted
        /\ UNCHANGED <<disk, prog, output, disturbed>>
    BY <1>6 DEF Prune, Pending, Wanted
  <2>. QED BY <2>1 DEF Outputs, Gone, Started, Settled
<1>7. CASE SaveGate
  <2>1. Pending' = Pending /\ pc = "gate" /\ Wanted' = Wanted
    BY <1>7 DEF SaveGate, Pending, Wanted
  <2>. QED BY <1>7, <2>1 DEF SaveGate, Outputs, Gone, Started, Settled
<1>8. CASE SaveManifest \/ Abort
  BY <1>8 DEF SaveManifest, Abort, Outputs, Gone, Started
<1>9. CASE ChangeOptions
  <2>1. Pending' = Pending /\ Wanted' = Wanted
    BY <1>9 DEF ChangeOptions, Pending, Wanted
  <2>. QED BY <1>9, <2>1 DEF ChangeOptions, Outputs, Gone, Started, Settled
<1>10. ASSUME NEW f \in Files, Edit(f) PROVE Outputs' /\ Gone'
  <2>1. Pending' = Pending /\ Wanted' = Wanted /\ UNCHANGED <<pc, prog, valid, recorded, output, disturbed>>
    BY <1>10 DEF Edit, Save, Pending, Wanted
  <2>2. \A g \in Files : disk'[g] = 0 => disk[g] = 0
    BY <1>10, TextsAssumption DEF Edit, Save, Types, TypeOK, Program
  <2>. QED BY <2>1, <2>2 DEF Outputs, Gone, Started, Settled, Present
<1>11. ASSUME NEW f \in Files, Remove(f) PROVE Outputs' /\ Gone'
  <2>1. Pending' = Pending /\ Wanted' = Wanted /\ UNCHANGED <<pc, prog, valid, recorded, output>>
    BY <1>11 DEF Remove, Save, Pending, Wanted
  <2>2. disturbed \subseteq disturbed' /\ (pc # "idle" => \A k \in Kinds : <<k, f>> \in disturbed')
    BY <1>11 DEF Remove, Disturb
  <2>3. \A g \in Files : g # f => disk'[g] = disk[g]
    BY <1>11 DEF Remove, Save, Types, TypeOK, Program
  <2>. QED BY <2>1, <2>2, <2>3 DEF Outputs, Gone, Started, Settled, Present
<1>12. ASSUME NEW f \in Files, NEW k \in Kinds, Tamper(k, f) PROVE Outputs' /\ Gone'
  <2>1. Pending' = Pending /\ Wanted' = Wanted /\ UNCHANGED <<disk, pc, prog, valid, recorded>>
    BY <1>12 DEF Tamper, Pending, Wanted
  <2>2. disturbed \subseteq disturbed' /\ (pc # "idle" => <<k, f>> \in disturbed')
    BY <1>12 DEF Tamper, Disturb
  <2>3. \A l \in Kinds, g \in Files : <<l, g>> # <<k, f>> => output'[l][g] = output[l][g]
    BY <1>12 DEF Tamper, Types, Tables
  <2>. QED BY <2>1, <2>2, <2>3, WantedKinds DEF Outputs, Gone, Started, Settled, Present
<1>13. CASE UNCHANGED vars
  <2>1. Pending' = Pending /\ Wanted' = Wanted
    BY <1>13 DEF vars, Pending, Wanted
  <2>. QED BY <1>13, <2>1 DEF vars, Outputs, Gone, Started, Settled
<1>. QED BY <1>1, <1>2, <1>3, <1>4, <1>5, <1>6, <1>7, <1>8, <1>9, <1>10, <1>11, <1>12, <1>13
         DEF Next, Build

\* However little it selected: when a build has written its outputs, those that nobody
\* disturbed meanwhile are what a full build writes, of every file of the program.
THEOREM SameAsFullBuild == ASSUME DeclarationsCopy PROVE Spec => []OutputsOfFullBuild
<1>1. Init => Outputs /\ Gone
  BY DEF Init, Outputs, Gone, Started
<1>2. Types /\ Outputs => OutputsOfFullBuild
  <2>. SUFFICES ASSUME Types, Outputs, Written, NEW k \in Wanted, NEW f \in Present(prog),
                       <<k, f>> \notin disturbed
                PROVE  output[k][f] = Content(k, prog, f)
    BY DEF OutputsOfFullBuild
  <2>1. Started /\ Pending = {}
    BY DEF Written, Started, Pending, Types
  <2>. QED BY <2>1 DEF Outputs, Settled
<1>3. Types /\ Trusted /\ Recording /\ Outputs /\ Gone /\ [Next]_vars
        => Types' /\ Trusted' /\ Recording' /\ Outputs' /\ Gone'
  BY TypesInductive, RecordingInductive, OutputsInductive
<1>. QED BY <1>1, <1>2, <1>3, TypesAtInit, TrustedAtInit, PTL DEF Spec

-----------------------------------------------------------------------------
(* Outputs without a source                                                *)

\* In the source tree of shape s, whatever has no source has no output.
Swept(s) == s = shape => \A k \in Kinds, f \in Files :
              disk[f] = 0 /\ f \notin unseen => output[k][f] = NoOutput

\* A file of the program that is gone: the saved gate is older than its removal, and
\* the gate of this build has either not seen it go or knows that it may be written.
Leaving ==
  \A f \in Present(prog) : disk[f] = 0 =>
    /\ pc \notin {"idle", "manifest"} => gate < shape
    /\ pc \in {"select", "clean"} \/ seen = shape => f \in unseen

Sweeping ==
  /\ gate <= shape /\ seen <= shape
  /\ Swept(gate) /\ Swept(seen)
  /\ Leaving

\* From the clean-up on, a build keeps out what has no source.
Orphans ==
  pc \in {"compile", "write", "gate", "manifest"} /\ mode = "all" =>
    \A k \in Kinds, f \in Files :
      prog[f] = 0 /\ disk[f] = 0 /\ f \notin unseen /\ <<k, f>> \notin disturbed => output[k][f] = NoOutput

\* What touches neither the tree nor the outputs changes nothing of this.
LEMMA SweepingKept ==
  ASSUME Sweeping, UNCHANGED <<disk, shape, output, unseen, gate, seen>>, pc' # "select" \/ pc = "select",
         prog' = prog \/ prog' = [f \in Files |-> 0],
         pc' \in {"idle", "manifest"} \/ pc \notin {"idle", "manifest"} \/ pc' = pc,
         pc' # "clean" \/ pc \in {"select", "clean"}
  PROVE  Sweeping'
BY DEF Sweeping, Swept, Leaving, Present

LEMMA SweepingInductive == ASSUME Types, Types', Sweeping, Orphans, [Next]_vars
                           PROVE  Sweeping' /\ Orphans'
<1>. USE DEF Types, TypeOK
<1>1. CASE StartBuild
  <2>1. \A f \in Files : prog'[f] = disk'[f]
    BY <1>1 DEF StartBuild
  <2>. QED BY <1>1, <2>1 DEF StartBuild, Sweeping, Swept, Leaving, Orphans, Present
<1>2. CASE Select
  <2>1. UNCHANGED <<disk, shape, output, unseen, gate, seen, prog>> /\ pc = "select" /\ pc' \in {"clean", "write"}
    BY <1>2 DEF Select
  <2>2. pc' = "write" => mode' = "declarations"
    BY <1>2 DEF Select
  <2>. QED BY <2>1, <2>2, SweepingKept DEF Orphans
<1>3. CASE Clean
  <2>1. /\ seen' = shape /\ pc = "clean" /\ pc' = "compile"
        /\ UNCHANGED <<disk, shape, gate, prog, mode, disturbed>>
    BY <1>3 DEF Clean
  <2>2. CASE GateOpen
    <3>1. output' = output /\ unseen' = unseen /\ gate = shape
      BY <1>3, <2>2 DEF Clean, GateOpen
    <3>. QED BY <2>1, <3>1 DEF Sweeping, Swept, Leaving, Orphans, Present
  <2>3. CASE ~GateOpen
    <3>1. /\ \A k \in Kinds, f \in Files : output'[k][f] = IF disk[f] = 0 THEN NoOutput ELSE output[k][f]
          /\ unseen' = {f \in unseen : disk[f] = 0 /\ prog[f] # 0}
      BY <1>3, <2>3 DEF Clean
    <3>. QED BY <2>1, <3>1 DEF Sweeping, Swept, Leaving, Orphans, Present
  <2>. QED BY <2>2, <2>3
<1>4. CASE Compile \/ Prune
  <2>1. UNCHANGED <<disk, shape, output, unseen, gate, seen, prog, mode, disturbed>>
    BY <1>4 DEF Compile, Prune
  <2>2. pc \in {"compile", "write"} /\ pc' \in {"write", "gate", "manifest"}
    BY <1>4 DEF Compile, Prune
  <2>. QED BY <2>1, <2>2, SweepingKept DEF Orphans
<1>5. CASE \E k \in Kinds, f \in Files : Write(k, f)
  <2>. PICK k \in Kinds, f \in Files : Write(k, f)
    BY <1>5
  <2>1. /\ f \in Present(prog) /\ pc = "write" /\ pc' = pc
        /\ UNCHANGED <<disk, shape, unseen, gate, seen, prog, mode, disturbed>>
    BY DEF Write, Present
  <2>2. \A l \in Kinds, g \in Files : g # f => output'[l][g] = output[l][g]
    BY DEF Write, Tables
  <2>3. disk[f] = 0 => gate < shape /\ (seen = shape => f \in unseen)
    BY <2>1 DEF Sweeping, Leaving
  <2>. QED BY <2>1, <2>2, <2>3 DEF Sweeping, Swept, Leaving, Orphans, Present
<1>6. CASE SaveGate
  <2>1. /\ gate' = seen /\ pc = "gate" /\ pc' = "manifest"
        /\ UNCHANGED <<disk, shape, output, unseen, seen, prog, mode, disturbed>>
    BY <1>6 DEF SaveGate
  <2>. QED BY <2>1 DEF Sweeping, Swept, Leaving, Orphans, Present
<1>7. CASE SaveManifest
  <2>1. /\ UNCHANGED <<disk, shape, output, unseen, gate>> /\ pc' = "idle" /\ seen' = 0
        /\ prog' = [f \in Files |-> 0]
    BY <1>7 DEF SaveManifest, NoBuild
  <2>. QED BY <2>1 DEF Sweeping, Swept, Leaving, Orphans, Present
<1>8. CASE Abort
  <2>1. /\ UNCHANGED <<disk, shape, unseen, gate>> /\ pc' = "idle" /\ pc # "idle" /\ seen' = 0
        /\ prog' = [f \in Files |-> 0]
    BY <1>8 DEF Abort, NoBuild
  <2>2. output' = output \/ \E o \in todo : output' = [output EXCEPT ![o[1]][o[2]] = Torn]
    BY <1>8 DEF Abort
  <2>3. Swept(gate)'
    <3>1. CASE output' = output
      BY <2>1, <3>1 DEF Sweeping, Swept
    <3>2. CASE \E o \in todo : output' = [output EXCEPT ![o[1]][o[2]] = Torn]
      <4>1. PICK k \in Kinds, f \in Present(prog) : output' = [output EXCEPT ![k][f] = Torn]
        BY <3>2
      <4>2. \A l \in Kinds, g \in Files : g # f => output'[l][g] = output[l][g]
        BY <4>1 DEF Tables, Present
      <4>3. todo # {}
        BY <3>2
      <4>4. disk[f] = 0 => gate < shape
        BY <4>3 DEF Sweeping, Leaving
      <4>. QED BY <2>1, <4>2, <4>4 DEF Sweeping, Swept
    <3>. QED BY <2>2, <3>1, <3>2
  <2>. QED BY <2>1, <2>3 DEF Sweeping, Swept, Leaving, Orphans, Present
<1>9. CASE ChangeOptions
  <2>1. UNCHANGED <<disk, shape, output, unseen, gate, seen, prog, mode, disturbed, pc>>
    BY <1>9 DEF ChangeOptions
  <2>. QED BY <2>1, SweepingKept DEF Orphans
<1>10. ASSUME NEW f \in Files, Edit(f) PROVE Sweeping' /\ Orphans'
  <2>1. /\ UNCHANGED <<output, unseen, gate, seen, prog, mode, disturbed, pc>>
        /\ shape' >= shape /\ (disk[f] = 0 => shape' > shape) /\ disk'[f] # 0
        /\ \A g \in Files : g # f => disk'[g] = disk[g]
    BY <1>10, SaveTyped, TextsAssumption DEF Edit, Save, Program
  <2>2. (shape' \in Nat /\ shape' # shape) \/ \A g \in Files : disk'[g] = 0 <=> disk[g] = 0
    BY <2>1
  <2>. QED BY <2>1, <2>2 DEF Sweeping, Swept, Leaving, Orphans, Present
<1>11. ASSUME NEW f \in Files, Remove(f) PROVE Sweeping' /\ Orphans'
  <2>1. /\ UNCHANGED <<output, gate, seen, prog, mode, pc>>
        /\ shape' > shape /\ disk'[f] = 0
        /\ \A g \in Files : g # f => disk'[g] = disk[g]
    BY <1>11, SaveTyped DEF Remove, Save, Program
  <2>2. /\ unseen \subseteq unseen' /\ (pc \in {"select", "clean"} => f \in unseen')
        /\ disturbed \subseteq disturbed' /\ (pc # "idle" => \A k \in Kinds : <<k, f>> \in disturbed')
    BY <1>11 DEF Remove, Vanish, Disturb
  <2>3. Sweeping'
    BY <2>1, <2>2 DEF Sweeping, Swept, Leaving, Present
  <2>4. Orphans'
    BY <2>1, <2>2 DEF Orphans
  <2>. QED BY <2>3, <2>4
<1>12. ASSUME NEW f \in Files, NEW k \in Kinds, Tamper(k, f) PROVE Sweeping' /\ Orphans'
  <2>1. /\ UNCHANGED <<disk, shape, unseen, gate, seen, prog, mode, pc>> /\ output[k][f] # NoOutput
    BY <1>12 DEF Tamper
  <2>2. disturbed \subseteq disturbed'
    BY <1>12 DEF Tamper, Disturb
  <2>3. \A l \in Kinds, g \in Files : <<l, g>> # <<k, f>> => output'[l][g] = output[l][g]
    BY <1>12 DEF Tamper, Tables
  <2>4. Sweeping'
    BY <2>1, <2>3 DEF Sweeping, Swept, Leaving, Present
  <2>5. Orphans'
    BY <2>1, <2>2, <2>3 DEF Orphans
  <2>. QED BY <2>4, <2>5
<1>13. CASE UNCHANGED vars
  BY <1>13 DEF vars, Sweeping, Swept, Leaving, Orphans, Present
<1>. QED BY <1>1, <1>2, <1>3, <1>4, <1>5, <1>6, <1>7, <1>8, <1>9, <1>10, <1>11, <1>12, <1>13
         DEF Next, Build

\* Although cleaning is skipped when nothing is selected: no output of a source that is
\* gone survives a build, for the shape of the tree tells when cleaning was due.
THEOREM NothingLeftBehind == Spec => []NoOrphans
<1>1. Init => Sweeping /\ Orphans
  <2>. SUFFICES ASSUME Init PROVE Sweeping /\ Orphans
    OBVIOUS
  <2>1. Present(prog) = {} /\ gate = 0 /\ seen = 0 /\ shape = 1 /\ pc = "idle"
    BY DEF Init, Present
  <2>. QED BY <2>1 DEF Sweeping, Swept, Leaving, Orphans
<1>2. Orphans => NoOrphans
  BY DEF Orphans, NoOrphans, Written
<1>3. Types /\ Sweeping /\ Orphans /\ [Next]_vars => Types' /\ Sweeping' /\ Orphans'
  BY TypesInductive, SweepingInductive
<1>. QED BY <1>1, <1>2, <1>3, TypesAtInit, PTL DEF Spec
===============================================================================
