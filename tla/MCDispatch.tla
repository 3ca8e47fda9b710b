----------------------------- MODULE MCDispatch -----------------------------
(* A small instance of Dispatch for TLC: three contractors, so that one may *)
(* hold the booking while a second is asked and a third is found.           *)
EXTENDS Dispatch
=============================================================================
