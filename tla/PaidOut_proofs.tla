--------------------------- MODULE PaidOut_proofs ---------------------------
(***************************************************************************)
(* Proofs about Fulfilment and its composition with Connect, for every set *)
(* of workers, every limit on the pictures, and every number of crashes    *)
(* and account events.                                                     *)
(*                                                                         *)
(* Two inductive invariants carry the safety properties.  EvidenceInv says *)
(* that pictures change only while the job is in progress, the lock of an  *)
(* upload included.  PayoutInv says what the uniqueness of the Payout row  *)
(* buys: at most one worker owns the row, and as long as one does the row  *)
(* is PENDING and that worker alone can have moved the money.  They hold   *)
(* of the composition too, because it implements Fulfilment.               *)
(***************************************************************************)
EXTENDS PaidOut, TLAPS

(* The pictures that exist, and the one being stored, fit under the limit; *)
(* nothing is being stored unless the job is in progress.                  *)
EvidenceInv ==
  /\ photos["BEFORE"] + photos["AFTER"] <= MaxPhotos
  /\ uploading # "no" =>
       /\ job = "IN_PROGRESS"
       /\ photos["BEFORE"] + photos["AFTER"] < MaxPhotos
  /\ ConfirmedOnEvidence

Owns(w) == release[w] \in Owning

(* One owner; what it has done so far; and what the row says without one.  *)
PayoutInv ==
  /\ \A v, w \in Workers : Owns(v) /\ Owns(w) => v = w
  /\ \A w \in Workers : release[w] = "checked" \/ Owns(w) => job = "COMPLETED"
  /\ \A w \in Workers : Owns(w) => payout = "PENDING" /\ ~unknown /\ made \subseteq {w}
  /\ \A w \in Workers : release[w] \in {"created", "sent", "refused"} => made = {}
  /\ \A w \in Workers : release[w] = "transferred" => w \in made
  /\ payout = "none" => made = {} /\ ~unknown
  /\ payout # "none" => job = "COMPLETED"
  /\ unknown => payout = "PENDING"
  /\ TransferredOnce
  /\ PayoutTellsTruth

----------------------------------------------------------------------------
(* Initially everything holds.                                             *)
LEMMA FulfilmentInitially ==
  FulfilmentInit => FulfilmentTypeOK /\ EvidenceInv /\ PayoutInv
<1> SUFFICES ASSUME FulfilmentInit
             PROVE  FulfilmentTypeOK /\ EvidenceInv /\ PayoutInv
  OBVIOUS
<1> USE PhotosAssumption, CrashesAssumption DEF FulfilmentInit
<1>1. FulfilmentTypeOK
  <2>1. JobTypeOK
    <3>1. photos \in [PhotoType -> 0 .. MaxPhotos]
      OBVIOUS
    <3>2. reminded \in BOOLEAN /\ due \in BOOLEAN /\ auto \in BOOLEAN
      OBVIOUS
    <3>3. late \in 0 .. 2
      OBVIOUS
    <3> QED
      BY <3>1, <3>2, <3>3 DEF JobTypeOK
  <2>2. PayoutTypeOK
    BY DEF PayoutTypeOK
  <2> QED
    BY <2>1, <2>2 DEF FulfilmentTypeOK
<1>2. EvidenceInv
  BY DEF EvidenceInv, ConfirmedOnEvidence, PhotoType
<1>3. PayoutInv
  BY DEF PayoutInv, TransferredOnce, PayoutTellsTruth, Owns, Owning, Answered
<1> QED
  BY <1>1, <1>2, <1>3

(* The types of the job's columns hold whatever the job does.              *)
LEMMA JobTypeStep ==
  ASSUME JobTypeOK, EvidenceInv, paid \in BOOLEAN, JobStep \/ TaskDies
  PROVE  JobTypeOK'
<1> USE DEF JobTypeOK
<1>1. reminded' \in BOOLEAN /\ due' \in BOOLEAN /\ auto' \in BOOLEAN
  BY DEF JobStep, TaskDies, CreateJob, ArriveJob, StartJob, MarkJobDone, EndUpload,
         ConfirmJobCompletion, HoursPass, SendReminder, SelectOverdue, AutoConfirm,
         BeginUpload, DeleteJobPhoto
<1>2. photos' \in [PhotoType -> 0 .. MaxPhotos]
  <2>1. CASE EndUpload
    BY <2>1, PhotosAssumption DEF EndUpload, EvidenceInv, PhotoType
  <2>2. CASE \E t \in PhotoType : DeleteJobPhoto(t)
    BY <2>2, PhotosAssumption DEF DeleteJobPhoto
  <2> QED
    BY <2>1, <2>2
    DEF JobStep, TaskDies, CreateJob, ArriveJob, StartJob, MarkJobDone,
        ConfirmJobCompletion, HoursPass, SendReminder, SelectOverdue, AutoConfirm,
        BeginUpload
<1>3. job' \in {job, "ASSIGNED", "ARRIVED", "IN_PROGRESS", "AWAITING", "COMPLETED"}
  BY DEF JobStep, TaskDies, CreateJob, ArriveJob, StartJob, MarkJobDone, EndUpload,
         ConfirmJobCompletion, HoursPass, SendReminder, SelectOverdue, AutoConfirm,
         BeginUpload, DeleteJobPhoto
<1>4. uploading' \in PhotoType \union {"no"} /\ late' \in 0 .. 2
  BY DEF JobStep, TaskDies, CreateJob, ArriveJob, StartJob, MarkJobDone, EndUpload,
         ConfirmJobCompletion, HoursPass, SendReminder, SelectOverdue, AutoConfirm,
         BeginUpload, DeleteJobPhoto
<1> QED
  BY <1>1, <1>2, <1>3, <1>4

(* So do the payout's.                                                     *)
LEMMA PayoutTypeStep ==
  ASSUME PayoutTypeOK,
         PayoutStep \/ \E w \in Workers : WorkerDies(w)
  PROVE  PayoutTypeOK'
<1> USE DEF PayoutTypeOK, Owning, Answered
<1>1. CASE ReconcilePayout
  BY <1>1 DEF ReconcilePayout
<1>2. ASSUME NEW w \in Workers, BeginRelease(w) \/ CreatePendingPayout(w) \/ LookUpAccount(w)
      PROVE  PayoutTypeOK'
  BY <1>2 DEF BeginRelease, CreatePendingPayout, LookUpAccount
<1>3. ASSUME NEW w \in Workers, ProviderTransfers(w) \/ TransferBreaks(w)
      PROVE  PayoutTypeOK'
  BY <1>3 DEF ProviderTransfers, TransferBreaks
<1>4. ASSUME NEW w \in Workers, RecordPayoutResult(w)
      PROVE  PayoutTypeOK'
  BY <1>4 DEF RecordPayoutResult, PayoutAfter
<1>5. ASSUME NEW w \in Workers, WorkerDies(w)
      PROVE  PayoutTypeOK'
  BY <1>5 DEF WorkerDies
<1> QED
  BY <1>1, <1>2, <1>3, <1>4, <1>5 DEF PayoutStep

(* Every step keeps all types.                                             *)
LEMMA FulfilmentTypeStep ==
  ASSUME FulfilmentTypeOK, EvidenceInv, [FulfilmentNext]_vars
  PROVE  FulfilmentTypeOK'
<1> USE DEF FulfilmentTypeOK
<1>1. JobTypeOK'
  <2>1. CASE UNCHANGED jobVars
    BY <2>1 DEF jobVars, JobTypeOK
  <2> QED
    BY <2>1, JobTypeStep DEF FulfilmentNext, PayoutStep, WorkerDies, PaymentChanges,
                             AccountChanges, vars
<1>2. PayoutTypeOK'
  <2>1. CASE UNCHANGED payoutVars
    BY <2>1 DEF payoutVars, PayoutTypeOK
  <2> QED
    BY <2>1, PayoutTypeStep DEF FulfilmentNext, JobStep, TaskDies, PaymentChanges,
                                AccountChanges, vars, payoutVars
<1>3. paid' \in BOOLEAN /\ enabled' \in BOOLEAN
  BY DEF FulfilmentNext, JobStep, PayoutStep, TaskDies, WorkerDies, PaymentChanges,
         AccountChanges, vars
<1>4. crashes' \in 0 .. MaxCrashes
  BY CrashesAssumption
  DEF FulfilmentNext, JobStep, PayoutStep, TaskDies, WorkerDies, PaymentChanges,
      AccountChanges, vars
<1> QED
  BY <1>1, <1>2, <1>3, <1>4

----------------------------------------------------------------------------
(* Pictures come and go only while the job is in progress.                 *)
LEMMA EvidenceStep ==
  ASSUME FulfilmentTypeOK, EvidenceInv, [FulfilmentNext]_vars
  PROVE  EvidenceInv'
<1> USE DEF EvidenceInv, ConfirmedOnEvidence, FulfilmentTypeOK, JobTypeOK, PhotoType
<1>1. CASE CreateJob \/ ArriveJob \/ StartJob
  BY <1>1 DEF CreateJob, ArriveJob, StartJob, JobFree
<1>2. CASE MarkJobDone
  BY <1>2 DEF MarkJobDone, JobFree, HasProof
<1>3. CASE ConfirmJobCompletion \/ AutoConfirm
  BY <1>3 DEF ConfirmJobCompletion, AutoConfirm, JobFree, StillWaiting, Waiting
<1>4. CASE HoursPass \/ SendReminder \/ SelectOverdue
  BY <1>4 DEF HoursPass, SendReminder, SelectOverdue
<1>5. CASE EndUpload
  BY <1>5, PhotosAssumption DEF EndUpload
<1>6. CASE \E t \in PhotoType : BeginUpload(t)
  BY <1>6 DEF BeginUpload, HasRoom
<1>7. CASE \E t \in PhotoType : DeleteJobPhoto(t)
  BY <1>7, PhotosAssumption DEF DeleteJobPhoto, JobFree
<1>8. CASE UNCHANGED <<job, photos, uploading>>
  BY <1>8
<1>9. CASE PayoutStep \/ TaskDies \/ (\E w \in Workers : WorkerDies(w))
             \/ PaymentChanges \/ AccountChanges \/ UNCHANGED vars
  BY <1>8, <1>9 DEF PayoutStep, TaskDies, WorkerDies, PaymentChanges, AccountChanges,
                    vars, jobVars
<1> QED
  BY <1>1, <1>2, <1>3, <1>4, <1>5, <1>6, <1>7, <1>9 DEF FulfilmentNext, JobStep

(* A job moves on, and never back from COMPLETED.                          *)
LEMMA CompletedStays ==
  ASSUME FulfilmentTypeOK, [FulfilmentNext]_vars, job = "COMPLETED"
  PROVE  job' = "COMPLETED" /\ auto' = auto
<1>1. CASE JobStep
  BY <1>1 DEF JobStep, CreateJob, ArriveJob, StartJob, MarkJobDone, EndUpload,
              ConfirmJobCompletion, HoursPass, SendReminder, SelectOverdue,
              AutoConfirm, BeginUpload, DeleteJobPhoto, StillWaiting, Waiting
<1>2. CASE ~JobStep
  BY <1>2 DEF FulfilmentNext, PayoutStep, TaskDies, WorkerDies, PaymentChanges,
              AccountChanges, vars, jobVars
<1> QED
  BY <1>1, <1>2

(* The payout invariant looks at the job only to know that it is COMPLETED.*)
LEMMA PayoutFrame ==
  ASSUME FulfilmentTypeOK, PayoutInv, [FulfilmentNext]_vars, UNCHANGED payoutVars
  PROVE  PayoutInv'
<1>1. job = "COMPLETED" => job' = "COMPLETED"
  BY CompletedStays
<1> QED
  BY <1>1 DEF PayoutInv, payoutVars, Owns, TransferredOnce, PayoutTellsTruth

(* What each step of a release does to the row, its owner and the money.   *)
LEMMA PayoutInvStep ==
  ASSUME FulfilmentTypeOK, PayoutInv, [FulfilmentNext]_vars
  PROVE  PayoutInv'
<1> USE DEF PayoutInv, Owns, Owning, Answered, TransferredOnce, PayoutTellsTruth,
            FulfilmentTypeOK, PayoutTypeOK
<1>1. job = "COMPLETED" => job' = "COMPLETED"
  BY CompletedStays
<1>2. CASE ReconcilePayout
  BY <1>1, <1>2 DEF ReconcilePayout
<1>3. ASSUME NEW w \in Workers, BeginRelease(w)
      PROVE  PayoutInv'
  BY <1>1, <1>3 DEF BeginRelease, Earned
<1>4. ASSUME NEW w \in Workers, CreatePendingPayout(w)
      PROVE  PayoutInv'
  BY <1>1, <1>4 DEF CreatePendingPayout, PayoutMissing
<1>5. ASSUME NEW w \in Workers, LookUpAccount(w)
      PROVE  PayoutInv'
  BY <1>1, <1>5 DEF LookUpAccount
<1>6. ASSUME NEW w \in Workers, ProviderTransfers(w)
      PROVE  PayoutInv'
  BY <1>1, <1>6 DEF ProviderTransfers
<1>7. ASSUME NEW w \in Workers, TransferBreaks(w)
      PROVE  PayoutInv'
  BY <1>1, <1>7 DEF TransferBreaks
<1>8. ASSUME NEW w \in Workers, RecordPayoutResult(w)
      PROVE  PayoutInv'
  BY <1>1, <1>8 DEF RecordPayoutResult, PayoutAfter
<1>9. ASSUME NEW w \in Workers, WorkerDies(w)
      PROVE  PayoutInv'
  BY <1>1, <1>9 DEF WorkerDies
<1>10. CASE UNCHANGED payoutVars
  BY <1>10, PayoutFrame
<1> QED
  BY <1>2, <1>3, <1>4, <1>5, <1>6, <1>7, <1>8, <1>9, <1>10
  DEF FulfilmentNext, JobStep, PayoutStep, TaskDies, PaymentChanges, AccountChanges,
      vars, payoutVars

----------------------------------------------------------------------------
(* All of it is invariant.                                                 *)
LEMMA FulfilmentInvariance ==
  FulfilmentSpec => [](FulfilmentTypeOK /\ EvidenceInv /\ PayoutInv)
<1>1. FulfilmentInit => FulfilmentTypeOK /\ EvidenceInv /\ PayoutInv
  BY FulfilmentInitially
<1>2. FulfilmentTypeOK /\ EvidenceInv /\ PayoutInv /\ [FulfilmentNext]_vars
        => (FulfilmentTypeOK /\ EvidenceInv /\ PayoutInv)'
  BY FulfilmentTypeStep, EvidenceStep, PayoutInvStep
<1> QED
  BY <1>1, <1>2, PTL DEF FulfilmentSpec

(* Job, payout and what is under way keep their types; the pictures of one *)
(* type never exceed the limit of a job.                                   *)
THEOREM FulfilmentTypeCorrect == FulfilmentSpec => []FulfilmentTypeOK
  BY FulfilmentInvariance, PTL

(* A job that awaits or has its confirmation has a picture of each type.   *)
THEOREM EvidenceBehindConfirmation == FulfilmentSpec => []ConfirmedOnEvidence
<1>1. EvidenceInv => ConfirmedOnEvidence
  BY DEF EvidenceInv
<1> QED
  BY <1>1, FulfilmentInvariance, PTL

(* The pictures do not change once the contractor is done: an upload holds *)
(* the job's lock, so none is under way when the status moves on.          *)
THEOREM EvidenceIsFrozen == FulfilmentSpec => EvidenceFrozen
<1>1. FulfilmentTypeOK /\ EvidenceInv /\ [FulfilmentNext]_vars
        => [(job \in {"AWAITING", "COMPLETED"}) => photos' = photos]_vars
  BY DEF EvidenceInv, FulfilmentNext, JobStep, PayoutStep, TaskDies, WorkerDies,
         PaymentChanges, AccountChanges, CreateJob, ArriveJob, StartJob, MarkJobDone,
         EndUpload, ConfirmJobCompletion, HoursPass, SendReminder, SelectOverdue,
         AutoConfirm, BeginUpload, DeleteJobPhoto, vars, jobVars
<1> QED
  BY <1>1, FulfilmentInvariance, PTL DEF FulfilmentSpec, EvidenceFrozen

(* A completed job stays completed, by whoever completed it first.         *)
THEOREM CompletionIsFinal == FulfilmentSpec => CompletedOnce
<1>1. FulfilmentTypeOK /\ [FulfilmentNext]_vars
        => [(job = "COMPLETED") => UNCHANGED <<job, auto>>]_vars
  BY CompletedStays
<1> QED
  BY <1>1, FulfilmentInvariance, PTL DEF FulfilmentSpec, CompletedOnce

(* However many workers release a payout, and wherever they die, the money *)
(* moves at most once.                                                     *)
THEOREM NeverPaidTwice == FulfilmentSpec => []TransferredOnce
<1>1. PayoutInv => TransferredOnce
  BY DEF PayoutInv
<1> QED
  BY <1>1, FulfilmentInvariance, PTL

(* Money moves only after the job is COMPLETED and its row committed.      *)
THEOREM PaidForConfirmedWork == FulfilmentSpec => []TransferIsEarned
<1>1. PayoutInv => TransferIsEarned
  BY DEF PayoutInv, TransferIsEarned
<1> QED
  BY <1>1, FulfilmentInvariance, PTL

(* A decided payout agrees with the provider.                              *)
THEOREM PayoutStatusIsTrue == FulfilmentSpec => []PayoutTellsTruth
<1>1. PayoutInv => PayoutTellsTruth
  BY DEF PayoutInv
<1> QED
  BY <1>1, FulfilmentInvariance, PTL
----------------------------------------------------------------------------
(***************************************************************************)
(* The composition.  What a release found ENABLED stays on record: the row *)
(* keeps its account, the provider keeps one, and the event that said so   *)
(* has been seen.                                                          *)
(***************************************************************************)
WasEnabled == linked /\ \E e \in seen : sent[e] = "ENABLED"

AccountInv ==
  /\ sent \in [Events -> ReportedStatus \union {"none"}]
  /\ accounts \in {0, 1} /\ calling \in BOOLEAN /\ linked \in BOOLEAN
  /\ calling \/ linked => accounts = 1
  /\ ~(calling /\ linked)
  /\ status = "ENABLED" => WasEnabled

TransferInv ==
  /\ enabled = IsEnabled
  /\ \A w \in Workers : release[w] \in {"sent"} \union Answered => WasEnabled
  /\ made # {} => WasEnabled

CompositionInv == FulfilmentTypeOK /\ EvidenceInv /\ AccountInv /\ TransferInv

LEMMA AccountStep ==
  ASSUME AccountInv, ConnectNext
  PROVE  AccountInv' /\ (WasEnabled => WasEnabled')
<1>1. CASE CreateOnboardingLink
  BY <1>1 DEF CreateOnboardingLink, CreateAccount, AccountInv, WasEnabled
<1>2. CASE LinkAccount
  BY <1>2 DEF LinkAccount, AccountInv, WasEnabled
<1>3. CASE OnboardingFails
  BY <1>3 DEF OnboardingFails, AccountInv, WasEnabled
<1>4. ASSUME NEW s \in ReportedStatus, AccountUpdated(s)
      PROVE  AccountInv' /\ (WasEnabled => WasEnabled')
  <2>1. PICK e \in Events : sent[e] = "none" /\ sent' = [sent EXCEPT ![e] = s]
    BY <1>4 DEF AccountUpdated
  <2>2. /\ sent' \in [Events -> ReportedStatus \union {"none"}]
        /\ \A d : sent[d] = "ENABLED" => sent'[d] = "ENABLED"
    BY <2>1 DEF AccountInv
  <2> QED
    BY <1>4, <2>2 DEF AccountUpdated, AccountInv, WasEnabled
<1>5. ASSUME NEW e \in Events, PersistConnectEvent(e)
      PROVE  AccountInv' /\ (WasEnabled => WasEnabled')
  BY <1>5 DEF PersistConnectEvent, AccountInv, WasEnabled
<1> QED
  BY <1>1, <1>2, <1>3, <1>4, <1>5 DEF ConnectNext

(* Every step of the composition is one of Fulfilment, or stutters there.  *)
LEMMA StepIsFulfilment ==
  ASSUME CompositionInv, [PaidOutNext]_<<vars, connectVars>>
  PROVE  [FulfilmentNext]_vars
<1>1. CASE FulfilmentStep
  BY <1>1 DEF FulfilmentStep, FulfilmentNext
<1>2. CASE ConnectStep
  <2>1. enabled' \in BOOLEAN /\ enabled \in BOOLEAN
    BY <1>2 DEF ConnectStep, IsEnabled, CompositionInv, FulfilmentTypeOK
  <2>2. enabled' = enabled \/ enabled' = ~enabled
    BY <2>1
  <2> QED
    BY <1>2, <2>2 DEF ConnectStep, FulfilmentNext, AccountChanges, vars, jobVars, payoutVars
<1> QED
  BY <1>1, <1>2 DEF PaidOutNext

LEMMA TransferStep ==
  ASSUME CompositionInv, FulfilmentStep
  PROVE  TransferInv'
<1> USE DEF CompositionInv, TransferInv, FulfilmentTypeOK, PayoutTypeOK, Owning, Answered
<1>0. (WasEnabled' <=> WasEnabled) /\ (IsEnabled' <=> IsEnabled) /\ (enabled => WasEnabled)
  BY DEF FulfilmentStep, connectVars, WasEnabled, IsEnabled, AccountInv
<1>1. enabled' = enabled
  BY DEF FulfilmentStep, JobStep, PayoutStep, TaskDies, WorkerDies, PaymentChanges
<1>2. enabled' = IsEnabled'
  BY <1>1 DEF FulfilmentStep, connectVars, IsEnabled
<1>3. CASE UNCHANGED <<release, made>>
  BY <1>0, <1>2, <1>3
<1>4. ASSUME NEW w \in Workers, BeginRelease(w) \/ CreatePendingPayout(w)
      PROVE  TransferInv'
  BY <1>0, <1>2, <1>4 DEF BeginRelease, CreatePendingPayout
<1>5. ASSUME NEW w \in Workers, LookUpAccount(w)
      PROVE  TransferInv'
  BY <1>0, <1>2, <1>5 DEF LookUpAccount
<1>6. ASSUME NEW w \in Workers, ProviderTransfers(w)
      PROVE  TransferInv'
  BY <1>0, <1>2, <1>6 DEF ProviderTransfers
<1>7. ASSUME NEW w \in Workers, TransferBreaks(w)
      PROVE  TransferInv'
  BY <1>0, <1>2, <1>7 DEF TransferBreaks
<1>8. ASSUME NEW w \in Workers, RecordPayoutResult(w)
      PROVE  TransferInv'
  BY <1>0, <1>2, <1>8 DEF RecordPayoutResult
<1>9. ASSUME NEW w \in Workers, WorkerDies(w)
      PROVE  TransferInv'
  BY <1>0, <1>2, <1>9 DEF WorkerDies
<1> QED
  BY <1>3, <1>4, <1>5, <1>6, <1>7, <1>8, <1>9
  DEF FulfilmentStep, JobStep, PayoutStep, ReconcilePayout, TaskDies, PaymentChanges, payoutVars

LEMMA CompositionInitially == PaidOutInit => CompositionInv
<1> SUFFICES ASSUME PaidOutInit  PROVE CompositionInv
  OBVIOUS
<1>1. FulfilmentTypeOK /\ EvidenceInv
  BY FulfilmentInitially DEF PaidOutInit
<1>2. AccountInv
  BY DEF PaidOutInit, ConnectInit, AccountInv, ReportedStatus
<1>3. TransferInv
  BY DEF PaidOutInit, ConnectInit, FulfilmentInit, TransferInv, IsEnabled, Answered
<1> QED
  BY <1>1, <1>2, <1>3 DEF CompositionInv

LEMMA CompositionStep ==
  CompositionInv /\ [PaidOutNext]_<<vars, connectVars>> => CompositionInv'
<1> SUFFICES ASSUME CompositionInv, [PaidOutNext]_<<vars, connectVars>>
             PROVE  CompositionInv'
  OBVIOUS
<1>1. FulfilmentTypeOK' /\ EvidenceInv'
  BY StepIsFulfilment, FulfilmentTypeStep, EvidenceStep DEF CompositionInv
<1>2. CASE FulfilmentStep
  <2>1. AccountInv'
    BY <1>2 DEF FulfilmentStep, connectVars, CompositionInv, AccountInv, WasEnabled
  <2> QED
    BY <1>1, <1>2, <2>1, TransferStep DEF CompositionInv
<1>3. CASE ConnectStep
  <2>1. AccountInv' /\ (WasEnabled => WasEnabled')
    BY <1>3, AccountStep DEF ConnectStep, CompositionInv
  <2>2. TransferInv'
    BY <1>3, <2>1 DEF ConnectStep, payoutVars, CompositionInv, TransferInv
  <2> QED
    BY <1>1, <2>1, <2>2 DEF CompositionInv
<1>4. CASE UNCHANGED <<vars, connectVars>>
  <2>1. AccountInv' /\ TransferInv'
    BY <1>4 DEF vars, payoutVars, connectVars, CompositionInv, AccountInv, TransferInv, WasEnabled, IsEnabled
  <2> QED
    BY <1>1, <2>1 DEF CompositionInv
<1> QED
  BY <1>2, <1>3, <1>4 DEF PaidOutNext

LEMMA CompositionInvariance == PaidOutSpec => []CompositionInv
BY CompositionInitially, CompositionStep, PTL DEF PaidOutSpec

(* With its account, the payout behaves like the fulfilment specification, *)
(* in which the account is a flag that may change at any time: its theorems*)
(* hold of the composition.                                                *)
THEOREM PaidOutImplementsFulfilment == PaidOutSpec => FulfilmentSpec
<1>1. PaidOutInit => FulfilmentInit
  BY DEF PaidOutInit
<1>2. CompositionInv /\ [PaidOutNext]_<<vars, connectVars>> => [FulfilmentNext]_vars
  BY StepIsFulfilment
<1> QED
  BY <1>1, <1>2, CompositionInvariance, PTL DEF PaidOutSpec, FulfilmentSpec

(* Money goes out only to the one account the provider holds, which the    *)
(* row names and an event has called ENABLED.                              *)
THEOREM MoneyGoesHome == PaidOutSpec => []PaidIntoAccount
<1>1. CompositionInv => PaidIntoAccount
  BY DEF CompositionInv, AccountInv, TransferInv, WasEnabled, PaidIntoAccount, OneAccount
<1> QED
  BY <1>1, CompositionInvariance, PTL
=============================================================================
