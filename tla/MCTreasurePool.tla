--------------------------- MODULE MCTreasurePool ---------------------------
EXTENDS TreasurePool, TLC

CONSTANTS a, b, plain, rare, ex
Symmetry == Permutations(Chars)
=============================================================================
