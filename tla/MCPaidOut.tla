----------------------------- MODULE MCPaidOut -----------------------------
(* The job, its payout and the payout account on a small instance: two      *)
(* workers that may race to release the payout, and two account events.     *)
EXTENDS PaidOut
=============================================================================
