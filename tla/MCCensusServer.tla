---------------------------- MODULE MCCensusServer ----------------------------
(* A tsconfig with one file or with two.                                     *)
EXTENDS CensusServer, TLC
CONSTANTS f1, f2, c1

Single == f1 :> c1
Lists == c1 :> {f1}
OneOwner == f1 :> c1 @@ f2 :> c1
Together == c1 :> {f1, f2}
=============================================================================
