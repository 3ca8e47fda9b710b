------------------------------ MODULE PaidOut ------------------------------
(***************************************************************************)
(* Fulfilment composed with Connect: whether a payout may leave is no      *)
(* longer a flag that flips but the status of the contractor's account,    *)
(* which the provider's events write while releases are under way.         *)
(***************************************************************************)
EXTENDS Fulfilment, Connect

PaidOutInit == FulfilmentInit /\ ConnectInit /\ enabled = FALSE

\* account.status == ENABLED, what _submit_payout reads
IsEnabled == status = "ENABLED"

FulfilmentStep ==
    /\ \/ JobStep \/ PayoutStep
       \/ TaskDies \/ (\E w \in Workers : WorkerDies(w))
       \/ PaymentChanges
    /\ UNCHANGED connectVars

ConnectStep ==
    /\ ConnectNext
    /\ enabled' = IsEnabled'
    /\ UNCHANGED <<jobVars, payoutVars, paid, crashes>>

PaidOutNext == FulfilmentStep \/ ConnectStep

PaidOutSpec == PaidOutInit /\ [][PaidOutNext]_<<vars, connectVars>>

FairPaidOutSpec == PaidOutSpec /\ FulfilmentFairness
-----------------------------------------------------------------------------
\* Money goes out only to an account that exists at the provider, that the row
\* names, and that events have called ENABLED at some time; a contractor whose
\* onboarding broke between the provider and the commit is not paid.
PaidIntoAccount ==
    made # {} => linked /\ OneAccount /\ \E e \in seen : sent[e] = "ENABLED"
=============================================================================
