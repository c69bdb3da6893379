------------------------- MODULE MCTransformerSession -------------------------
EXTENDS TransformerSession, TLC

CONSTANTS f1, f2

MCFiles == {f1, f2}
Symmetry == Permutations(MCFiles)
===============================================================================
