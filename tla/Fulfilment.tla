------------------------------ MODULE Fulfilment ------------------------------
(***************************************************************************)
(* The work on one confirmed booking and the contractor's money for it     *)
(* (apps/jobs: services/jobs.py, photos.py; apps/payouts: services/        *)
(* payouts.py, admin.py, connect.py).  It begins where Payments ends: the  *)
(* booking is CONFIRMED, which it stays, and its payment SUCCEEDED, which  *)
(* a refund, or a late attempt, may change at any time.                    *)
(*                                                                         *)
(* Every handler of a job locks its row and then looks at it, so each is   *)
(* one action; a photo's upload keeps that lock while it talks to the      *)
(* storage, and the auto-confirmation chooses its jobs before it locks     *)
(* them.  A payout locks nothing: any worker may be releasing it, and only *)
(* the uniqueness of the row decides between them.                         *)
(***************************************************************************)
EXTENDS Naturals

CONSTANTS
  Workers,    \* processes that may run release_payout_for_booking at once
  MaxPhotos,  \* JOB_PHOTO_MAX_PER_JOB
  MaxCrashes  \* bound on processes dying

ASSUME PhotosAssumption  == MaxPhotos \in Nat \ {0}
ASSUME CrashesAssumption == MaxCrashes \in Nat

VARIABLES
  job,        \* Job.status, "none" without a row
  photos,     \* how many JobPhoto rows there are of each type
  uploading,  \* type of the photo being stored under the job's lock, or "no"
  late,       \* thresholds that marked_done_at lies behind: reminder, confirm
  reminded,   \* confirmation_reminder_sent_at is set
  due,        \* auto_confirm_overdue_jobs has the job on its list
  auto,       \* Job.auto_confirmed
  paid,       \* the customer's payment is SUCCEEDED
  enabled,    \* the contractor's payout account is ENABLED
  payout,     \* Payout.status, "none" without a row
  unknown,    \* failure_reason starts with provider_error
  release,    \* how far each worker is in release_payout_for_booking
  made,       \* workers whose call of adapter.payout moved the money
  crashes     \* processes that died so far

jobVars    == <<job, photos, uploading, late, reminded, due, auto>>
payoutVars == <<payout, unknown, release, made>>
vars       == <<jobVars, payoutVars, paid, enabled, crashes>>

PhotoType == {"BEFORE", "AFTER"}
Answered  == {"transferred", "refused", "broken"}
Owning    == Answered \union {"created", "sent"}   \* the worker that made the row

JobTypeOK ==
  /\ job \in {"none", "ASSIGNED", "ARRIVED", "IN_PROGRESS", "AWAITING", "COMPLETED"}
  /\ photos \in [PhotoType -> 0 .. MaxPhotos]
  /\ uploading \in PhotoType \union {"no"}
  /\ late \in 0 .. 2
  /\ reminded \in BOOLEAN /\ due \in BOOLEAN /\ auto \in BOOLEAN

PayoutTypeOK ==
  /\ payout \in {"none", "PENDING", "SUCCEEDED", "FAILED"}
  /\ unknown \in BOOLEAN
  /\ release \in [Workers -> Owning \union {"idle", "checked"}]
  /\ made \in SUBSET Workers

FulfilmentTypeOK ==
  /\ JobTypeOK
  /\ PayoutTypeOK
  /\ paid \in BOOLEAN /\ enabled \in BOOLEAN
  /\ crashes \in 0 .. MaxCrashes

Waiting == job = "AWAITING"

(* The conditions that the handlers depend on most, some after a slip in   *)
(* it, "Bad...", that some property must catch.                            *)

(* lock_job: nobody else holds the row.                                    *)
BadJobFree == TRUE                                             \* status read, row unlocked
JobFree    == uploading = "no"

(* JOB_PHOTO_MAX_PER_JOB leaves room for one more.                         *)
HasRoom == photos["BEFORE"] + photos["AFTER"] < MaxPhotos

(* mark_job_done wants a picture of each type.                             *)
BadHasProof == \E t \in PhotoType : photos[t] > 0              \* any picture will do
HasProof    == \A t \in PhotoType : photos[t] > 0

(* What auto_confirm_overdue_jobs lists, and what it checks under the lock.*)
BadOverdue   == Waiting /\ late = 2 /\ ~reminded               \* skips the reminded
Overdue      == Waiting /\ late = 2
StillWaiting == Waiting

(* release_payout_for_booking: the row may be made ...                     *)
BadPayoutMissing == payout # "SUCCEEDED"                       \* a second row
PayoutMissing    == payout = "none"

(* ... for work that is confirmed and paid for.                            *)
BadEarned == job = "COMPLETED" /\ paid /\ ~auto                \* the customer's own only
Earned    == job = "COMPLETED" /\ paid

(* The status that a finished call gives the payout.                       *)
BadPayoutAfter(answer) ==                                      \* an exception is a refusal
  IF answer = "transferred" THEN "SUCCEEDED" ELSE "FAILED"
PayoutAfter(answer) ==
  CASE answer = "transferred" -> "SUCCEEDED"
    [] answer = "refused"     -> "FAILED"
    [] answer = "broken"      -> "PENDING"

FulfilmentInit ==
  /\ job = "none"
  /\ photos = [t \in PhotoType |-> 0] /\ uploading = "no"
  /\ late = 0 /\ reminded = FALSE /\ due = FALSE /\ auto = FALSE
  /\ paid = TRUE
  /\ enabled \in BOOLEAN
  /\ payout = "none" /\ unknown = FALSE
  /\ release = [w \in Workers |-> "idle"]
  /\ made = {}
  /\ crashes = 0

----------------------------------------------------------------------------
(***************************************************************************)
(* The job                                                                 *)
(***************************************************************************)

(* create_job_for_booking, from a commit hook or the repair task; of two   *)
(* at once the uniqueness of the row lets one win.                         *)
CreateJob ==
  /\ job = "none"
  /\ job' = "ASSIGNED"
  /\ UNCHANGED <<photos, uploading, late, reminded, due, auto>>

ArriveJob ==
  /\ JobFree
  /\ job = "ASSIGNED" /\ paid
  /\ job' = "ARRIVED"
  /\ UNCHANGED <<photos, uploading, late, reminded, due, auto>>

StartJob ==
  /\ JobFree
  /\ job = "ARRIVED" /\ paid
  /\ job' = "IN_PROGRESS"
  /\ UNCHANGED <<photos, uploading, late, reminded, due, auto>>

(* upload_job_photo has locked the job and is storing the file ...         *)
BeginUpload(t) ==
  /\ uploading = "no"
  /\ job = "IN_PROGRESS"
  /\ HasRoom
  /\ uploading' = t
  /\ UNCHANGED <<job, photos, late, reminded, due, auto>>

(* ... and either commits its row or, the storage failing, leaves nothing. *)
EndUpload ==
  /\ uploading # "no"
  /\ uploading' = "no"
  /\ photos' \in {photos, [photos EXCEPT ![uploading] = @ + 1]}
  /\ UNCHANGED <<job, late, reminded, due, auto>>

DeleteJobPhoto(t) ==
  /\ JobFree
  /\ job = "IN_PROGRESS"
  /\ photos[t] > 0
  /\ photos' = [photos EXCEPT ![t] = @ - 1]
  /\ UNCHANGED <<job, uploading, late, reminded, due, auto>>

MarkJobDone ==
  /\ JobFree
  /\ job = "IN_PROGRESS"
  /\ HasProof
  /\ job' = "AWAITING"
  /\ UNCHANGED <<photos, uploading, late, reminded, due, auto>>

ConfirmJobCompletion ==
  /\ JobFree
  /\ Waiting
  /\ job' = "COMPLETED"
  /\ auto' = FALSE
  /\ UNCHANGED <<photos, uploading, late, reminded, due>>

(* JOB_CONFIRM_REMINDER_HOURS, then JOB_AUTO_CONFIRM_HOURS go by.          *)
HoursPass ==
  /\ Waiting
  /\ late < 2
  /\ late' = late + 1
  /\ UNCHANGED <<job, photos, uploading, reminded, due, auto>>

(* send_confirmation_reminders: the job was listed while it waited, and the *)
(* update asks only whether a reminder went out, not whether it still does. *)
SendReminder ==
  /\ late > 0
  /\ ~reminded
  /\ reminded' = TRUE
  /\ UNCHANGED <<job, photos, uploading, late, due, auto>>

(* auto_confirm_overdue_jobs lists the job without a lock ...              *)
SelectOverdue ==
  /\ Overdue
  /\ ~due
  /\ due' = TRUE
  /\ UNCHANGED <<job, photos, uploading, late, reminded, auto>>

(* ... and later locks it and looks again.                                 *)
AutoConfirm ==
  /\ due
  /\ JobFree
  /\ due' = FALSE
  /\ \/ StillWaiting /\ job' = "COMPLETED" /\ auto' = TRUE
     \/ ~StillWaiting /\ UNCHANGED <<job, auto>>
  /\ UNCHANGED <<photos, uploading, late, reminded>>

JobStep ==
  /\ \/ CreateJob \/ ArriveJob \/ StartJob \/ MarkJobDone \/ EndUpload
     \/ ConfirmJobCompletion \/ HoursPass \/ SendReminder
     \/ SelectOverdue \/ AutoConfirm
     \/ \E t \in PhotoType : BeginUpload(t) \/ DeleteJobPhoto(t)
  /\ UNCHANGED <<payoutVars, paid, enabled, crashes>>

(* The periodic task dies with its list.                                   *)
TaskDies ==
  /\ due
  /\ crashes < MaxCrashes
  /\ crashes' = crashes + 1
  /\ due' = FALSE
  /\ UNCHANGED <<job, photos, uploading, late, reminded, auto, payoutVars,
                 paid, enabled>>

----------------------------------------------------------------------------
(***************************************************************************)
(* The payout                                                              *)
(***************************************************************************)

(* _create_pending_payout has looked at everything, from the completion's  *)
(* hook or from release_missing_payouts ...                                *)
BeginRelease(w) ==
  /\ release[w] = "idle"
  /\ PayoutMissing
  /\ Earned
  /\ release' = [release EXCEPT ![w] = "checked"]
  /\ UNCHANGED <<payout, unknown, made>>

(* ... and inserts, unless another worker's row is there by now.           *)
CreatePendingPayout(w) ==
  /\ release[w] = "checked"
  /\ \/ /\ PayoutMissing
        /\ payout' = "PENDING"
        /\ release' = [release EXCEPT ![w] = "created"]
     \/ /\ ~PayoutMissing
        /\ release' = [release EXCEPT ![w] = "idle"]
        /\ UNCHANGED payout
  /\ UNCHANGED <<unknown, made>>

(* Without an ENABLED account the payout stays as it is.                   *)
LookUpAccount(w) ==
  /\ release[w] = "created"
  /\ release' = [release EXCEPT ![w] = IF enabled THEN "sent" ELSE "idle"]
  /\ UNCHANGED <<payout, unknown, made>>

(* adapter.payout reaches the provider.                                    *)
ProviderTransfers(w) ==
  /\ release[w] = "sent"
  /\ \/ /\ release' = [release EXCEPT ![w] = "transferred"]
        /\ made' = made \union {w}
     \/ /\ release' = [release EXCEPT ![w] = "refused"]
        /\ UNCHANGED made
  /\ UNCHANGED <<payout, unknown>>

(* The call raises, before it arrived or after.                            *)
TransferBreaks(w) ==
  /\ release[w] \in {"sent", "transferred", "refused"}
  /\ release' = [release EXCEPT ![w] = "broken"]
  /\ UNCHANGED <<payout, unknown, made>>

RecordPayoutResult(w) ==
  /\ release[w] \in Answered
  /\ payout' = PayoutAfter(release[w])
  /\ unknown' = (release[w] = "broken")
  /\ release' = [release EXCEPT ![w] = "idle"]
  /\ UNCHANGED made

(* reconcile_payout records what the superuser saw at the provider.        *)
ReconcilePayout ==
  /\ payout = "PENDING" /\ unknown
  /\ payout' = IF made # {} THEN "SUCCEEDED" ELSE "FAILED"
  /\ unknown' = FALSE
  /\ UNCHANGED <<release, made>>

PayoutStep ==
  /\ \/ ReconcilePayout
     \/ \E w \in Workers :
          \/ BeginRelease(w) \/ CreatePendingPayout(w) \/ LookUpAccount(w)
          \/ ProviderTransfers(w) \/ TransferBreaks(w) \/ RecordPayoutResult(w)
  /\ UNCHANGED <<jobVars, paid, enabled, crashes>>

(* A worker dies: what it had not committed is gone, the row it had is not.*)
WorkerDies(w) ==
  /\ release[w] # "idle"
  /\ crashes < MaxCrashes
  /\ crashes' = crashes + 1
  /\ release' = [release EXCEPT ![w] = "idle"]
  /\ UNCHANGED <<jobVars, payout, unknown, made, paid, enabled>>

----------------------------------------------------------------------------
(* refund_payment, or an attempt that ends late, changes the payment.      *)
PaymentChanges ==
  /\ paid' = ~paid
  /\ UNCHANGED <<jobVars, payoutVars, enabled, crashes>>

(* An account.updated event overwrites the account's status.               *)
AccountChanges ==
  /\ enabled' = ~enabled
  /\ UNCHANGED <<jobVars, payoutVars, paid, crashes>>

FulfilmentNext ==
  \/ JobStep \/ PayoutStep
  \/ TaskDies \/ (\E w \in Workers : WorkerDies(w))
  \/ PaymentChanges \/ AccountChanges

FulfilmentSpec == FulfilmentInit /\ [][FulfilmentNext]_vars

(***************************************************************************)
(* Hours pass, and a release that has begun goes on.  The repair task is   *)
(* in CELERY_BEAT_SCHEDULE; the auto-confirmation is not, only the command *)
(* run_periodic_tasks runs it, which Procfile has a cron service start     *)
(* every five minutes.  Nothing is assumed of the customer, the            *)
(* contractor, the provider or the back office.                            *)
(***************************************************************************)
FulfilmentFairness ==
  /\ WF_vars(JobStep /\ HoursPass)
  /\ WF_vars(JobStep /\ SelectOverdue)
  /\ WF_vars(JobStep /\ AutoConfirm)
  /\ WF_vars(PayoutStep /\ \E w \in Workers : BeginRelease(w))
  /\ \A w \in Workers : WF_vars(PayoutStep /\ CreatePendingPayout(w))

FairFulfilmentSpec == FulfilmentSpec /\ FulfilmentFairness

----------------------------------------------------------------------------
(***************************************************************************)
(* Safety                                                                  *)
(***************************************************************************)

(* What the customer confirms, or the clock in his place, rests on a       *)
(* picture of each type, whatever was uploaded and deleted while the       *)
(* contractor pressed "done".                                              *)
ConfirmedOnEvidence ==
  job \in {"AWAITING", "COMPLETED"} => photos["BEFORE"] > 0 /\ photos["AFTER"] > 0

(* No picture is added or taken away once the contractor is done, not even *)
(* by an upload that began before (lock_job's docstring).                  *)
EvidenceFrozen ==
  [][(job \in {"AWAITING", "COMPLETED"}) => photos' = photos]_vars

(* A customer and the clock that confirm at the same moment complete the   *)
(* job once; who it was is not rewritten (auto_confirm_overdue_jobs).      *)
CompletedOnce ==
  [][job = "COMPLETED" => UNCHANGED <<job, auto>>]_vars

(* The contractor gets the money once, whoever runs release_payout: the    *)
(* hook, the repair task, or both with a crash between them.               *)
TransferredOnce == \A v, w \in Workers : v \in made /\ w \in made => v = w

(* Money leaves only for confirmed work and never without a row that says  *)
(* so, even if the process died right after the transfer.                  *)
TransferIsEarned == made # {} => job = "COMPLETED" /\ payout # "none"

(* A payout that is SUCCEEDED was transferred, one that is FAILED was not: *)
(* a broken call decides nothing until it is reconciled.                   *)
PayoutTellsTruth ==
  /\ payout = "SUCCEEDED" => made # {}
  /\ payout = "FAILED" => made = {}

(***************************************************************************)
(* Liveness                                                                *)
(***************************************************************************)

(* A silent customer does not hold the contractor's money for ever, where  *)
(* run_periodic_tasks is deployed (auto_confirm_overdue_jobs).  The module  *)
(* docstring of jobs.py and a test still say the opposite, see below.      *)
WaitingEnds == Waiting ~> job = "COMPLETED"

(* Confirmed and paid-for work gets its payout row, though the hook that   *)
(* should have made it was lost or came before the payment.                *)
EarnedGetsPayout ==
  (job = "COMPLETED" /\ paid) ~> (payout # "none" \/ ~paid)

(***************************************************************************)
(* What the docstring of jobs.py (lines 15-16) and a test say and the code *)
(* does NOT promise: that only the customer completes a job, never the     *)
(* clock.  auto_confirm_overdue_jobs came later.  No run checks it.        *)
(***************************************************************************)
OnlyTheCustomerConfirms == ~auto
=============================================================================
