---------------------------- MODULE MCSuperusers ----------------------------
(* Superusers on a small instance for TLC. *)
EXTENDS Superusers
=============================================================================
