---------------------------- MODULE MCAftercare ----------------------------
EXTENDS Aftercare, TLC

Symmetry == Permutations(Workers) \union Permutations(Clerks) \union Permutations(Bookings)
=============================================================================
