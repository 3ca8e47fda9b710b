----------------------------- MODULE MCCatalog -----------------------------
EXTENDS Catalog, TLC

Symmetry == Permutations(Workers)
=============================================================================
