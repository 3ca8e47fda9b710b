---------------------------- MODULE Contractors ----------------------------
(***************************************************************************)
(* One contractor on the way to work: the profile, the registrations and   *)
(* insurance documents that are submitted and reviewed, the file attached  *)
(* to a document, and the live position.                                   *)
(*                                                                         *)
(* Submissions look for a pending one without a lock, so that looking and  *)
(* inserting are two steps; an upload holds the lock of its document while *)
(* the storage is called; a profile is edited on a copy.                   *)
(***************************************************************************)
EXTENDS Naturals, Sequences, FiniteSets

CONSTANTS Workers,      \* processes that serve the contractor's requests
          MaxRegs,      \* bound: registrations ever submitted
          MaxDocs,      \* bound: insurance documents ever submitted
          MaxFiles      \* bound: files ever uploaded

ASSUME WorkersAssumption == IsFiniteSet(Workers)
ASSUME RowsAssumption == MaxRegs \in Nat /\ MaxDocs \in Nat /\ MaxFiles \in Nat

VARIABLES
    active,     \* the person's account is ACTIVE
    avail,      \* availability_status, "none" before there is a profile
    regs,       \* business registrations, oldest first: their status
    docs,       \* insurance documents, oldest first
    files,      \* keys the storage holds
    uploads,    \* keys given out
    fresh,      \* a position was received and has not aged
    work        \* what each worker is doing

contractorVars == <<active, avail, regs, docs, files, uploads, fresh, work>>

VerificationStatus == {"PENDING", "VERIFIED", "REJECTED"}
AvailabilityStatus == {"AVAILABLE", "UNAVAILABLE"}
NoKey == 0
Keys  == 1 .. MaxFiles

Doing(step, d, k, a) == [at |-> step, doc |-> d, key |-> k, avail |-> a]
Idle == Doing("idle", 0, NoKey, "none")

ContractorsTypeOK ==
    /\ active \in BOOLEAN
    /\ avail \in AvailabilityStatus \union {"none"}
    /\ regs \in Seq(VerificationStatus) /\ Len(regs) <= MaxRegs
    /\ docs \in Seq([status : VerificationStatus, key : Keys \union {NoKey}, expired : BOOLEAN])
    /\ Len(docs) <= MaxDocs
    /\ files \subseteq 1 .. uploads /\ uploads \in 0 .. MaxFiles
    /\ fresh \in BOOLEAN
    /\ work \in [Workers -> [at : {"idle", "registering", "insuring", "uploading", "tidying", "editing"},
                             doc : 0 .. MaxDocs, key : Keys \union {NoKey},
                             avail : AvailabilityStatus \union {"none"}]]
    /\ \A w \in Workers : work[w].at = "uploading" => work[w].doc \in 1 .. Len(docs)

ContractorsInit ==
    /\ active = TRUE /\ avail = "none"
    /\ regs = <<>> /\ docs = <<>>
    /\ files = {} /\ uploads = 0
    /\ fresh = FALSE
    /\ work = [w \in Workers |-> Idle]

\* get_own_profile, behind ActiveUserJWTAuth
HasProfile == active /\ avail # "none"

At(w, step)   == work[w].at = step
Goto(w, next) == work' = [work EXCEPT ![w] = next]
Begins(w)     == At(w, "idle") /\ HasProfile
-----------------------------------------------------------------------------
(* Who may work *)

\* _latest_reviewed: the newest by created_at that is decided
BadLatestReviewed == DOMAIN regs                \* a pending one counts
LatestReviewed == {i \in DOMAIN regs : regs[i] # "PENDING"}

IsContractorEligible ==
    \E i \in LatestReviewed : regs[i] = "VERIFIED" /\ \A j \in LatestReviewed : j <= i

\* What find_candidates of dispatch.py asks of a contractor
IsCandidate == active /\ avail = "AVAILABLE" /\ fresh /\ IsContractorEligible

GetContractorStatus ==
    CASE avail = "none"          -> "NONE"
      [] avail # "none" /\ ~active -> "SUSPENDED"
      [] HasProfile /\ IsContractorEligible -> "APPROVED"
      [] HasProfile /\ ~IsContractorEligible ->
             IF regs # <<>> /\ regs[Len(regs)] = "REJECTED" THEN "ACTION_REQUIRED" ELSE "PENDING"
-----------------------------------------------------------------------------
(* The profile *)

CreateProfile ==
    /\ active /\ avail = "none"
    /\ avail' = "UNAVAILABLE"
    /\ UNCHANGED <<active, regs, docs, files, uploads, fresh, work>>

UpdateAvailability(s) ==
    /\ HasProfile
    /\ avail' = s
    /\ UNCHANGED <<active, regs, docs, files, uploads, fresh, work>>

\* update_profile reads the row ...
UpdateProfile(w) ==
    /\ Begins(w)
    /\ Goto(w, Doing("editing", 0, NoKey, avail))
    /\ UNCHANGED <<active, avail, regs, docs, files, uploads, fresh>>

\* ... and saves every column of its copy
SaveProfile(w) ==
    /\ At(w, "editing")
    /\ avail' = work[w].avail
    /\ Goto(w, Idle)
    /\ UNCHANGED <<active, regs, docs, files, uploads, fresh>>

ReportCurrentLocation ==
    /\ HasProfile
    /\ fresh' = TRUE
    /\ UNCHANGED <<active, avail, regs, docs, files, uploads, work>>

\* CURRENT_LOCATION_FRESHNESS_SECONDS have passed since it was received
LocationAges ==
    /\ fresh
    /\ fresh' = FALSE
    /\ UNCHANGED <<active, avail, regs, docs, files, uploads, work>>

\* Suspension and reactivation (module Accounts)
AccountChanges ==
    /\ active' = ~active
    /\ UNCHANGED <<avail, regs, docs, files, uploads, fresh, work>>

\* The contractor's part of delete_account, once deletion_blockers finds no work
\* nor payout of theirs; the offers that wait are declined (Dispatch).  What was
\* submitted stays
DeleteAccount ==
    /\ active /\ active' = FALSE
    /\ avail' = IF avail = "none" THEN avail ELSE "UNAVAILABLE"
    /\ UNCHANGED <<regs, docs, files, uploads, fresh, work>>
-----------------------------------------------------------------------------
(* Submissions *)

BadNonePending(rows) == TRUE                    \* not looked at
NonePending(rows)    == "PENDING" \notin rows

RegStatuses == {regs[i] : i \in DOMAIN regs}
DocStatuses == {docs[i].status : i \in DOMAIN docs}

SubmitBusinessRegistration(w) ==
    /\ Begins(w)
    /\ NonePending(RegStatuses)
    /\ Goto(w, Doing("registering", 0, NoKey, "none"))
    /\ UNCHANGED <<active, avail, regs, docs, files, uploads, fresh>>

RegistrationSaved(w) ==
    /\ At(w, "registering") /\ Len(regs) < MaxRegs
    /\ regs' = Append(regs, "PENDING")
    /\ Goto(w, Idle)
    /\ UNCHANGED <<active, avail, docs, files, uploads, fresh>>

SubmitInsuranceDocument(w) ==
    /\ Begins(w)
    /\ NonePending(DocStatuses)
    /\ Goto(w, Doing("insuring", 0, NoKey, "none"))
    /\ UNCHANGED <<active, avail, regs, docs, files, uploads, fresh>>

\* One that has expired is refused before it is saved
DocumentSaved(w) ==
    /\ At(w, "insuring") /\ Len(docs) < MaxDocs
    /\ docs' = Append(docs, [status |-> "PENDING", key |-> NoKey, expired |-> FALSE])
    /\ Goto(w, Idle)
    /\ UNCHANGED <<active, avail, regs, files, uploads, fresh>>

DocumentExpires(d) ==
    /\ d \in DOMAIN docs /\ ~docs[d].expired
    /\ docs' = [docs EXCEPT ![d].expired = TRUE]
    /\ UNCHANGED <<active, avail, regs, files, uploads, fresh, work>>
-----------------------------------------------------------------------------
(* The file of an insurance document *)

\* select_for_update on the document, from the check to the commit
BadUnlocked(d) == TRUE
Unlocked(d)    == \A w \in Workers : ~(At(w, "uploading") /\ work[w].doc = d)

\* attach_insurance_file: lock, check, upload; nothing happens when the storage
\* is unavailable
AttachInsuranceFile(w, d) ==
    /\ Begins(w)
    /\ d \in DOMAIN docs /\ Unlocked(d) /\ docs[d].status = "PENDING"
    /\ uploads < MaxFiles
    /\ uploads' = uploads + 1
    /\ files' = files \union {uploads + 1}
    /\ Goto(w, Doing("uploading", d, uploads + 1, "none"))
    /\ UNCHANGED <<active, avail, regs, docs, fresh>>

\* What on_commit removes from the storage: the key the row had
BadReplaced(d, k) == k
Replaced(d, k)    == docs[d].key

AttachmentSaved(w) ==
    /\ At(w, "uploading")
    /\ docs' = [docs EXCEPT ![work[w].doc].key = work[w].key]
    /\ Goto(w, IF docs[work[w].doc].key = NoKey THEN Idle
               ELSE Doing("tidying", 0, Replaced(work[w].doc, work[w].key), "none"))
    /\ UNCHANGED <<active, avail, regs, files, uploads, fresh>>

DeleteOld(w) ==
    /\ At(w, "tidying")
    /\ files' = files \ {work[w].key}
    /\ Goto(w, Idle)
    /\ UNCHANGED <<active, avail, regs, docs, uploads, fresh>>

\* A worker dies: its transaction is rolled back, its hook is not run.  What
\* it uploaded stays in the storage
WorkerDies(w) ==
    /\ ~At(w, "idle")
    /\ Goto(w, Idle)
    /\ UNCHANGED <<active, avail, regs, docs, files, uploads, fresh>>
-----------------------------------------------------------------------------
(* Reviews, by an administrator other than the contractor *)

FirstApproval == "VERIFIED" \notin RegStatuses

\* The lock of the registration joins that of the profile, so that two reviews
\* of one contractor come one after the other
ReviewBusinessRegistration(i, s) ==
    /\ i \in DOMAIN regs /\ regs[i] = "PENDING"
    /\ regs' = [regs EXCEPT ![i] = s]
    /\ avail' = IF s = "VERIFIED" /\ FirstApproval THEN "AVAILABLE" ELSE avail
    /\ UNCHANGED <<active, docs, files, uploads, fresh, work>>

ReviewInsuranceDocument(d, s) ==
    /\ d \in DOMAIN docs /\ Unlocked(d) /\ docs[d].status = "PENDING"
    /\ s = "VERIFIED" => ~docs[d].expired
    /\ docs' = [docs EXCEPT ![d].status = s]
    /\ UNCHANGED <<active, avail, regs, files, uploads, fresh, work>>
-----------------------------------------------------------------------------
WorkerStep(w) ==
    \/ UpdateProfile(w) \/ SaveProfile(w)
    \/ SubmitBusinessRegistration(w) \/ RegistrationSaved(w)
    \/ SubmitInsuranceDocument(w) \/ DocumentSaved(w)
    \/ \E d \in 1 .. MaxDocs : AttachInsuranceFile(w, d)
    \/ AttachmentSaved(w) \/ DeleteOld(w)
    \/ WorkerDies(w)

ReviewStep(s) ==
    \/ \E i \in 1 .. MaxRegs : ReviewBusinessRegistration(i, s)
    \/ \E d \in 1 .. MaxDocs : ReviewInsuranceDocument(d, s)

PresenceStep ==
    \/ \E s \in AvailabilityStatus : UpdateAvailability(s)
    \/ ReportCurrentLocation \/ LocationAges

ContractorsNext ==
    \/ CreateProfile \/ PresenceStep
    \/ AccountChanges \/ DeleteAccount
    \/ \E w \in Workers : WorkerStep(w)
    \/ \E d \in 1 .. MaxDocs : DocumentExpires(d)
    \/ \E s \in {"VERIFIED", "REJECTED"} : ReviewStep(s)

ContractorsSpec == ContractorsInit /\ [][ContractorsNext]_contractorVars
-----------------------------------------------------------------------------
(* Properties *)

\* The check for a pending submission takes no lock, but what slips past it is
\* bounded: as many wait for review as workers that looked at the same moment
\* (verification.py: _assert_no_pending).
PendingBounded ==
    /\ Cardinality({i \in DOMAIN regs : regs[i] = "PENDING"}) <= Cardinality(Workers)
    /\ Cardinality({d \in DOMAIN docs : docs[d].status = "PENDING"}) <= Cardinality(Workers)

\* The file a document names can be opened: a replaced file goes only after the
\* row names its successor, whatever dies in between (attach_insurance_file).
AttachmentIsStored == \A d \in DOMAIN docs : docs[d].key # NoKey => docs[d].key \in files

\* What a reviewer decided on stays what it was: neither the decision nor the
\* file of a decided document changes, though an upload was under way.
ReviewedIsFrozen ==
    [][\A d \in DOMAIN docs : docs[d].status # "PENDING" =>
          docs'[d].status = docs[d].status /\ docs'[d].key = docs[d].key]_contractorVars

\* A step after which other work is offered, or the contractor, whose account
\* is ACTIVE before it, is told to act
ChangesStanding ==
    \/ IsContractorEligible' # IsContractorEligible
    \/ /\ HasProfile /\ GetContractorStatus # "ACTION_REQUIRED"
       /\ GetContractorStatus' = "ACTION_REQUIRED"

\* Only a review makes a contractor eligible or not, and only a review tells
\* them to act: the newest decided registration settles the one, the newest of
\* all the other, and applying again takes nothing away until it is decided
\* (is_contractor_eligible, get_contractor_status).
ReviewDecides ==
    [][ChangesStanding =>
          \E i \in DOMAIN regs : regs[i] = "PENDING" /\ regs'[i] # "PENDING"]_contractorVars

\* update_profile leaves the availability alone, as its docstring says.
ProfileKeepsAvailability ==
    [][\A w \in Workers : At(w, "editing") /\ work'[w].at = "idle" => avail' = avail]_contractorVars
=============================================================================
