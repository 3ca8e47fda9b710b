----------------------------- MODULE MCAccounts -----------------------------
(* Accounts on a small instance for TLC. *)
EXTENDS Accounts, TLC

Symmetry == Permutations(Accounts) \union Permutations(Requests)
=============================================================================
