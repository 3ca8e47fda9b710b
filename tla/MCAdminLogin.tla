---------------------------- MODULE MCAdminLogin ----------------------------
(* AdminLogin on a small instance for TLC. *)
EXTENDS AdminLogin, TLC

Symmetry == Permutations(Requests)
=============================================================================
