---------------------------- MODULE MCParseCache ----------------------------
(* A library that emits one declaration file, a project that reads it and a  *)
(* file of node_modules on two threads, and a project that reads only the    *)
(* latter.                                                                   *)
EXTENDS ParseCache, TLC

CONSTANTS decl, pkg, l1, l2, l3

MCProjects == 1 .. 3
MCBarriers == <<{}, {1}, {}>>
MCFiles == {decl, pkg}
MCWriter == decl :> 1 @@ pkg :> Nobody
MCReads == <<{}, {decl, pkg}, {pkg}>>
MCLoaders == {l1, l2, l3}
MCOwner == l1 :> 2 @@ l2 :> 2 @@ l3 :> 3
=============================================================================
