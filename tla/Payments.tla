------------------------------ MODULE Payments ------------------------------
(***************************************************************************)
(* Charging the customer of one booking, composed with the life of that    *)
(* booking (apps/payments: services/payments.py, services/admin.py,        *)
(* adapters/stripe_adapter.py; apps/bookings: cancel_booking, the repair   *)
(* task).                                                                  *)
(*                                                                         *)
(* A charge is a call that leaves the database: it is sent, it reaches the *)
(* provider, it is answered or breaks, and its outcome is recorded, with   *)
(* every other handler free to run in between unless a row lock stops it.  *)
(* The first attempt runs inside start_charge_for_booking's transaction,   *)
(* which locks the booking and shows its Payment row to nobody until it    *)
(* commits; a retry commits its row first and then holds nothing.          *)
(***************************************************************************)
EXTENDS Dispatch

CONSTANTS
  MaxAttempts,         \* bound on Payment.attempt_number
  MaxCrashes,          \* bound on processes dying while they call the provider
  CardsMayNeedAction,  \* may a bank ask for 3-D Secure
  WebhooksMayBeLate    \* may an event arrive after its attempt was retried

ASSUME AttemptsAssumption == MaxAttempts \in Nat \ {0}
ASSUME CrashesAssumption  == MaxCrashes \in Nat
ASSUME ProviderAssumption ==
  CardsMayNeedAction \in BOOLEAN /\ WebhooksMayBeLate \in BOOLEAN

VARIABLES
  payStatus,   \* Payment.status, "none" while no row is committed
  attempt,     \* Payment.attempt_number, 0 without a row
  ref,         \* the attempt whose intent is provider_reference, 0 for null
  unknown,     \* failure_reason starts with provider_error
  call,        \* each attempt's call of adapter.charge
  intent,      \* each attempt's PaymentIntent at the provider
  cancelling,  \* cancel_booking has read the payment and is about to commit
  crashes      \* processes that died so far

payVars == <<payStatus, attempt, ref, unknown, call, intent, cancelling, crashes>>
rowVars == <<payStatus, attempt, ref, unknown>>
vars    == <<dispatchVars, payVars>>

Attempts == 1 .. MaxAttempts
Answers  == {"succeeded", "action", "failed", "refused"}
UnderWay == Answers \union {"sent", "broken"}

PaymentsTypeOK ==
  /\ TypeOK
  /\ payStatus \in {"none", "PROCESSING", "REQUIRES_ACTION", "SUCCEEDED",
                    "FAILED", "REFUNDED"}
  /\ attempt \in 0 .. MaxAttempts
  /\ ref \in 0 .. MaxAttempts
  /\ unknown \in BOOLEAN
  /\ call \in [Attempts -> UnderWay \union {"idle", "recorded", "dead"}]
  /\ intent \in [Attempts -> {"none", "captured", "action", "declined", "refunded"}]
  /\ cancelling \in BOOLEAN
  /\ crashes \in 0 .. MaxCrashes

(* The booking row is locked by the first charge or by a cancellation.     *)
BookingLocked == call[1] \in UnderWay \/ cancelling

RowExists  == payStatus # "none"
Charged(n) == intent[n] \in {"captured", "refunded"}

(* The conditions that the handlers depend on most, some after a slip in   *)
(* it, "Bad...", that some property must catch.                            *)

(* A reserved booking without a payment: what the repair task looks for    *)
(* and start_charge_for_booking checks again.                              *)
BadChargeMissing == BookingIsReserved(offers) /\ ~RowExists /\ crashes = 0  \* no repair
ChargeMissing    == BookingIsReserved(offers) /\ ~RowExists

(* RETRYABLE_PAYMENT_STATUSES.                                             *)
Retryable == {"FAILED", "REQUIRES_ACTION"}

(* What adapter.charge returns for an intent in state s.                   *)
BadAnswerFor(s) == IF s = "declined" THEN "failed" ELSE "succeeded"  \* 3-D Secure unseen
AnswerFor(s) ==
  CASE s \in {"captured", "refunded"} -> "succeeded"
    [] s = "action"   -> "action"
    [] s = "declined" -> "failed"

(* The status that an answer gives the payment.                            *)
StatusAfter(answer) ==
  CASE answer = "succeeded" -> "SUCCEEDED"
    [] answer = "action"    -> "REQUIRES_ACTION"
    [] OTHER                -> "FAILED"

(* confirm_payment may assign.                                             *)
BadMayConfirm  == payStatus \in {"PROCESSING", "SUCCEEDED"}    \* before the money
BadMayConfirm2 == payStatus = "SUCCEEDED" /\ visit # "passed"  \* only in time
MayConfirm     == payStatus = "SUCCEEDED"

PaymentsInit ==
  /\ Init
  /\ payStatus = "none" /\ attempt = 0 /\ ref = 0 /\ unknown = FALSE
  /\ call = [n \in Attempts |-> "idle"]
  /\ intent = [n \in Attempts |-> "none"]
  /\ cancelling = FALSE
  /\ crashes = 0

----------------------------------------------------------------------------
(***************************************************************************)
(* A charge, attempt by attempt                                            *)
(***************************************************************************)

(* start_charge_for_booking, from accept_offer's hook or the repair task.  *)
StartCharge ==
  /\ ~BookingLocked
  /\ ChargeMissing
  /\ call' = [call EXCEPT ![1] = "sent"]
  /\ UNCHANGED <<dispatchVars, rowVars, intent, cancelling, crashes>>

(* retry_payment commits PROCESSING under the payment's lock alone.        *)
PrepareRetry ==
  /\ payStatus \in Retryable
  /\ BookingIsReserved(offers)
  /\ attempt < MaxAttempts
  /\ attempt' = attempt + 1
  /\ payStatus' = "PROCESSING"
  /\ call' = [call EXCEPT ![attempt + 1] = "sent"]
  /\ UNCHANGED <<dispatchVars, ref, unknown, intent, cancelling, crashes>>

(* adapter.charge reaches the provider: a key it has seen is answered from *)
(* the first time; a card that cannot be attached makes no intent at all.  *)
ProviderCharges(n, outcome) ==
  /\ call[n] = "sent"
  /\ outcome \in {"captured", "declined", "none"}
                   \union (IF CardsMayNeedAction THEN {"action"} ELSE {})
  /\ IF intent[n] = "none"
     THEN /\ intent' = [intent EXCEPT ![n] = outcome]
          /\ call' = [call EXCEPT ![n] =
                        IF outcome = "none" THEN "refused" ELSE AnswerFor(outcome)]
     ELSE /\ call' = [call EXCEPT ![n] = AnswerFor(intent[n])]
          /\ UNCHANGED intent
  /\ UNCHANGED <<dispatchVars, rowVars, cancelling, crashes>>

(* The call raises: it never arrived, or its answer never came back.       *)
CallBreaks(n) ==
  /\ call[n] \in Answers \union {"sent"}
  /\ call' = [call EXCEPT ![n] = "broken"]
  /\ UNCHANGED <<dispatchVars, rowVars, intent, cancelling, crashes>>

(* The process dies.  The first attempt's transaction rolls back and takes *)
(* the row with it; a retry leaves its PROCESSING row as it stands.        *)
ProcessDies(n) ==
  /\ call[n] \in UnderWay
  /\ crashes < MaxCrashes
  /\ call' = [call EXCEPT ![n] = IF n = 1 THEN "idle" ELSE "dead"]
  /\ crashes' = crashes + 1
  /\ UNCHANGED <<dispatchVars, rowVars, intent, cancelling>>

(* The end of _attempt_charge: an exception only notes provider_error, an  *)
(* answer overwrites the row from memory, whatever happened to it since.   *)
RecordOutcome(n) ==
  /\ call[n] \in Answers \union {"broken"}
  /\ call' = [call EXCEPT ![n] = "recorded"]
  /\ attempt' = IF n = 1 THEN 1 ELSE attempt
  /\ IF call[n] = "broken"
     THEN /\ unknown' = TRUE
          /\ payStatus' = IF n = 1 THEN "PROCESSING" ELSE payStatus
          /\ UNCHANGED ref
     ELSE /\ unknown' = FALSE
          /\ payStatus' = StatusAfter(call[n])
          /\ ref' = IF call[n] = "refused" THEN 0 ELSE n
  /\ UNCHANGED <<dispatchVars, intent, cancelling, crashes>>

----------------------------------------------------------------------------
(***************************************************************************)
(* The customer, the provider's events and the back office                 *)
(***************************************************************************)

(* 3-D Secure ends at the provider, for any intent shown to the customer.  *)
CustomerAnswers(n, outcome) ==
  /\ intent[n] = "action" /\ call[n] = "recorded"
  /\ outcome \in {"captured", "declined"}
  /\ intent' = [intent EXCEPT ![n] = outcome]
  /\ UNCHANGED <<dispatchVars, rowVars, call, cancelling, crashes>>

(* confirm_payment_action asks the provider about provider_reference.      *)
ConfirmPaymentAction ==
  /\ payStatus = "REQUIRES_ACTION"
  /\ ref # 0
  /\ payStatus' = StatusAfter(AnswerFor(intent[ref]))
  /\ unknown' = IF intent[ref] = "action" THEN unknown ELSE FALSE
  /\ UNCHANGED <<dispatchVars, attempt, ref, call, intent, cancelling, crashes>>

(* The payment an event about attempt n finds: by reference, else by key.  *)
PaymentForEvent(n) == RowExists /\ (ref = n \/ attempt = n)

(* handle_provider_webhook: events come late, repeatedly or never.         *)
HandleProviderWebhook(n) ==
  /\ intent[n] \in {"captured", "refunded", "declined"}
  /\ WebhooksMayBeLate \/ attempt = n
  /\ PaymentForEvent(n)
  /\ \/ /\ Charged(n)
        /\ payStatus \in {"PROCESSING", "REQUIRES_ACTION", "FAILED"}
        /\ payStatus' = "SUCCEEDED"
     \/ /\ intent[n] = "declined"
        /\ payStatus \in {"PROCESSING", "REQUIRES_ACTION"}
        /\ payStatus' = "FAILED"
  /\ ref' = IF ref = 0 THEN n ELSE ref
  /\ unknown' = FALSE
  /\ UNCHANGED <<dispatchVars, attempt, call, intent, cancelling, crashes>>

(* confirm_payment, from a commit hook or the repair task.                 *)
ConfirmPayment(c) ==
  /\ ~BookingLocked
  /\ MayConfirm
  /\ ConfirmAssignment(c)
  /\ UNCHANGED payVars

(* reconcile_payment records what the superuser saw at the provider; a     *)
(* success tries to confirm the booking in the same transaction.           *)
ReconcilePayment ==
  /\ payStatus = "PROCESSING" /\ unknown
  /\ unknown' = FALSE
  /\ \/ /\ ~Charged(attempt)
        /\ payStatus' = "FAILED"
        /\ UNCHANGED <<dispatchVars, ref>>
     \/ /\ Charged(attempt) /\ ~BookingLocked
        /\ payStatus' = "SUCCEEDED"
        /\ ref' = attempt
        /\ IF status = "PENDING" /\ BookingIsReserved(offers)
           THEN \E c \in Contractors : ConfirmAssignment(c)
           ELSE UNCHANGED dispatchVars
  /\ UNCHANGED <<attempt, call, intent, cancelling, crashes>>

(* refund_payment, in full: the provider pays back, then the row commits   *)
(* or the process dies and the row still says SUCCEEDED.                   *)
RefundPayment ==
  /\ payStatus = "SUCCEEDED"
  /\ ref # 0 /\ Charged(ref)
  /\ intent' = [intent EXCEPT ![ref] = "refunded"]
  /\ \/ payStatus' = "REFUNDED" /\ UNCHANGED crashes
     \/ crashes < MaxCrashes /\ crashes' = crashes + 1 /\ UNCHANGED payStatus
  /\ UNCHANGED <<dispatchVars, attempt, ref, unknown, call, cancelling>>

----------------------------------------------------------------------------
(***************************************************************************)
(* The booking's own handlers, with the payment they look at               *)
(***************************************************************************)

(* cancel_booking locks the booking, and reads the payment without a lock. *)
BeginCancel ==
  /\ ~BookingLocked
  /\ status = "PENDING"
  /\ payStatus \in {"none", "FAILED"}
  /\ cancelling' = TRUE
  /\ UNCHANGED <<dispatchVars, rowVars, call, intent, crashes>>

BadFinishCancel ==                                             \* the offers stay open
  /\ cancelling
  /\ status' = "CANCELLED"
  /\ cancelling' = FALSE
  /\ UNCHANGED <<dispatchStatus, visit, assigned, offers, available, calls,
                 rowVars, call, intent, crashes>>

FinishCancel ==
  /\ cancelling
  /\ CancelBooking
  /\ cancelling' = FALSE
  /\ UNCHANGED <<rowVars, call, intent, crashes>>

Reschedule ==
  /\ ~BookingLocked
  /\ payStatus # "SUCCEEDED"
  /\ RescheduleBooking
  /\ UNCHANGED payVars

(* Handlers that lock the booking row wait for it.                         *)
LockingStep ==
  /\ ~BookingLocked
  /\ \/ RunCall
     \/ \E c \in Contractors : AcceptOffer(c) \/ DeclineOffer(c)
  /\ UNCHANGED payVars

(* The sweep, the clock and the contractors' availability do not.          *)
UnlockedStep ==
  /\ \/ LoseCall
     \/ SelectStranded
     \/ VisitTimePasses
     \/ \E c \in Contractors :
          ExpireOffer(c) \/ OfferLapses(c) \/ AvailabilityChanges(c)
  /\ UNCHANGED payVars

PaymentsNext ==
  \/ StartCharge \/ PrepareRetry
  \/ \E n \in Attempts :
       \/ \E outcome \in {"captured", "action", "declined", "none"} :
            ProviderCharges(n, outcome)
       \/ CallBreaks(n)
       \/ ProcessDies(n)
       \/ RecordOutcome(n)
       \/ \E outcome \in {"captured", "declined"} : CustomerAnswers(n, outcome)
       \/ HandleProviderWebhook(n)
  \/ ConfirmPaymentAction
  \/ \E c \in Contractors : ConfirmPayment(c)
  \/ ReconcilePayment \/ RefundPayment
  \/ BeginCancel \/ FinishCancel \/ Reschedule
  \/ LockingStep \/ UnlockedStep

PaymentsSpec == PaymentsInit /\ [][PaymentsNext]_vars

(***************************************************************************)
(* The repair task runs every few minutes, so a missing charge is started  *)
(* and a paid booking is confirmed; a call ends and is recorded, and a     *)
(* transaction that holds the lock commits.  Webhooks, customers and the   *)
(* back office owe nothing.                                                *)
(***************************************************************************)
PaymentsFairness ==
  /\ WF_vars(StartCharge)
  /\ WF_vars(FinishCancel)
  /\ WF_vars(\E c \in Contractors : ConfirmPayment(c))
  /\ \A n \in Attempts :
       /\ WF_vars(CallBreaks(n))
       /\ WF_vars(RecordOutcome(n))

FairPaymentsSpec == PaymentsSpec /\ PaymentsFairness

----------------------------------------------------------------------------
(***************************************************************************)
(* Safety                                                                  *)
(***************************************************************************)

(* Nobody is sent to work unpaid: a contractor is assigned only after the  *)
(* provider captured the customer's money, whatever events, retries and    *)
(* reconciliations did to the payment row meanwhile.                       *)
AssignedIsCharged == status = "CONFIRMED" => \E n \in Attempts : Charged(n)

(* The payment says SUCCEEDED or REFUNDED only if the provider really took *)
(* the money, in one of the attempts made so far.                          *)
SucceededIsCharged ==
  payStatus \in {"SUCCEEDED", "REFUNDED"} => \E n \in 1 .. attempt : Charged(n)

(* A payment of a live booking stays with the offer it pays for: while a   *)
(* row exists, or a charge is under way, the booking is reserved, assigned *)
(* or cancelled and never searching again.                                 *)
PaymentKeepsReservation ==
  RowExists \/ call[1] \in UnderWay =>
    status = "CANCELLED" \/ BookingIsReserved(offers)

(* One charge at most, as "one booking = one payment" is meant to ensure.  *)
ChargedOnce ==
  \A m, n \in Attempts : Charged(m) /\ Charged(n) => m = n

(* The PROCESSING row is there before the provider is touched              *)
(* (start_charge_for_booking's docstring).                                 *)
RecordedBeforeCharged == \A n \in Attempts : intent[n] # "none" => RowExists

(* Cancelling is safe because nothing was taken (UNCHARGED_PAYMENT_STATUSES).*)
CancelledIsUncharged ==
  status = "CANCELLED" => \A n \in Attempts : intent[n] # "captured"

(* "Confirmed with a failed payment" cannot happen any more, now that the  *)
(* assignment waits for the money (accept_offer's docstring).              *)
ConfirmedIsNotFailed == ~(status = "CONFIRMED" /\ payStatus = "FAILED")

(***************************************************************************)
(* Liveness                                                                *)
(***************************************************************************)

(* An accepted offer does not wait for ever for a charge that a lost hook  *)
(* or a dead process never made.                                           *)
ReservedGetsPayment ==
  (BookingIsReserved(offers) /\ ~RowExists) ~> (RowExists \/ status = "CANCELLED")

(* A customer who has paid gets the contractor, even if the commit hook    *)
(* that should have assigned it was lost.                                  *)
PaidGetsAssigned ==
  (payStatus = "SUCCEEDED" /\ status = "PENDING") ~>
    (status # "PENDING" \/ payStatus # "SUCCEEDED")
=============================================================================
