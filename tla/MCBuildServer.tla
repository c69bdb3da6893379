---------------------------- MODULE MCBuildServer ----------------------------
(* A session of two build requests, with up to two callbacks, of one build *)
(* or of both, open at once.                                               *)
EXTENDS BuildServer
=============================================================================
