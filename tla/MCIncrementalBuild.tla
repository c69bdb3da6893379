-------------------------- MODULE MCIncrementalBuild --------------------------
(* main imports lib, and another version of main imports nothing.  lib's     *)
(* second version changes its body, its third its API; main's third prints   *)
(* a type of lib.                                                            *)
EXTENDS IncrementalBuild, TLC
CONSTANTS lib, mid, main

MCFiles == {lib, main}
MCVersions == {1, 2, 3}
MCApi == lib :> <<1, 1, 2>> @@ main :> <<1, 1, 1>>
MCImports == lib :> <<{}, {}, {}>> @@ main :> <<{lib}, {}, {lib}>>
MCOwn == lib :> <<{lib}, {lib}, {lib}>> @@ main :> <<{main}, {main}, {main, lib}>>

\* main imports mid, and mid says `export * from "./lib"`.
ReFiles == {lib, mid, main}
ReVersions == {1, 2}
ReApi == lib :> <<1, 2>> @@ mid :> <<1, 1>> @@ main :> <<1, 1>>
ReImports == lib :> <<{}, {}>> @@ mid :> <<{lib}, {lib}>> @@ main :> <<{mid}, {mid}>>
ReSpells == [f \in ReFiles |-> [v \in ReVersions |-> {f}]]
ReShows == [f \in ReFiles |-> [v \in ReVersions |-> IF f = mid THEN {lib, mid} ELSE {f}]]
===============================================================================
