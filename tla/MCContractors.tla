--------------------------- MODULE MCContractors ---------------------------
EXTENDS Contractors, TLC

Symmetry == Permutations(Workers)
=============================================================================
