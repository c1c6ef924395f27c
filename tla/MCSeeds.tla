------------------------------ MODULE MCSeeds ------------------------------
EXTENDS Seeds, TLC

CONSTANTS c1, c2

MCCreators == {c1, c2}

Symmetry == Permutations(MCCreators)
=============================================================================
