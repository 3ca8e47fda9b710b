----------------------------- MODULE MCPayments -----------------------------
(* Small instances of Payments for TLC; the configurations choose what the  *)
(* bank, the provider and the processes may do.                             *)
EXTENDS Payments
=============================================================================
