-------------------------- MODULE Contractors_proofs --------------------------
(***************************************************************************)
(* The files of insurance documents and the submissions that wait, for any *)
(* number of workers, registrations, documents and files.                  *)
(***************************************************************************)
EXTENDS Contractors, FiniteSetTheorems, TLAPS

Docs     == [status : VerificationStatus, key : Keys \union {NoKey}, expired : BOOLEAN]
Steps    == {"idle", "registering", "insuring", "uploading", "tidying", "editing"}
WorkType == [at : Steps, doc : 0 .. MaxDocs, key : Keys \union {NoKey},
             avail : AvailabilityStatus \union {"none"}]

USE WorkersAssumption, RowsAssumption

(***************************************************************************)
(* Rows are sequences; here they are functions on 1 .. Len.                *)
(***************************************************************************)
LEMMA SeqIsFunction ==
    ASSUME NEW S, NEW s \in Seq(S)
    PROVE  /\ Len(s) \in Nat /\ DOMAIN s = 1 .. Len(s)
           /\ \A i \in 1 .. Len(s) : s[i] \in S
OBVIOUS

LEMMA SeqExcept ==
    ASSUME NEW S, NEW s \in Seq(S), NEW i \in 1 .. Len(s), NEW x \in S
    PROVE  /\ [s EXCEPT ![i] = x] \in Seq(S)
           /\ Len([s EXCEPT ![i] = x]) = Len(s)
           /\ \A j \in 1 .. Len(s) : [s EXCEPT ![i] = x][j] = IF j = i THEN x ELSE s[j]
OBVIOUS

LEMMA SeqAppend ==
    ASSUME NEW S, NEW s \in Seq(S), NEW x \in S
    PROVE  /\ Append(s, x) \in Seq(S)
           /\ Len(Append(s, x)) = Len(s) + 1
           /\ \A j \in 1 .. Len(s) : Append(s, x)[j] = s[j]
           /\ Append(s, x)[Len(s) + 1] = x
OBVIOUS

LEMMA DoingType ==
    ASSUME NEW step \in Steps, NEW d \in 0 .. MaxDocs, NEW k \in Keys \union {NoKey},
           NEW a \in AvailabilityStatus \union {"none"}
    PROVE  Doing(step, d, k, a) \in WorkType
BY DEF Doing, WorkType

LEMMA DoingIs ==
    ASSUME NEW step, NEW d, NEW k, NEW a
    PROVE  /\ Doing(step, d, k, a).at = step  /\ Doing(step, d, k, a).doc = d
           /\ Doing(step, d, k, a).key = k    /\ Doing(step, d, k, a).avail = a
BY DEF Doing

LEMMA IdleType == Idle \in WorkType /\ Idle.at = "idle"
BY DoingType, DoingIs DEF Idle, Steps

LEMMA SubmittingType ==
    ASSUME NEW step \in {"registering", "insuring"}
    PROVE  /\ Doing(step, 0, NoKey, "none") \in WorkType
           /\ Doing(step, 0, NoKey, "none").at # "uploading"
BY DoingType, DoingIs DEF Steps

LEMMA GotoType ==
    ASSUME ContractorsTypeOK, NEW w \in Workers, NEW next \in WorkType, Goto(w, next),
           next.at = "uploading" => next.doc \in 1 .. Len(docs), Len(docs') >= Len(docs),
           Len(docs') \in Nat
    PROVE  /\ work' \in [Workers -> WorkType]
           /\ \A v \in Workers : work'[v].at = "uploading" => work'[v].doc \in 1 .. Len(docs')
<1>1. work \in [Workers -> WorkType] /\ docs \in Seq(Docs)
  BY DEF ContractorsTypeOK, WorkType, Steps, Docs
<1>2. Len(docs) \in Nat
  BY <1>1, SeqIsFunction
<1>3. \A v \in Workers : work'[v] = IF v = w THEN next ELSE work[v]
  BY <1>1 DEF Goto
<1>4. work' \in [Workers -> WorkType]
  BY <1>1 DEF Goto
<1>5. \A v \in Workers : work[v].at = "uploading" => work[v].doc \in 1 .. Len(docs)
  BY DEF ContractorsTypeOK
<1> QED
  BY <1>2, <1>3, <1>4, <1>5

LEMMA DocsSeq == ContractorsTypeOK => docs \in Seq(Docs) /\ Len(docs) \in Nat /\ DOMAIN docs = 1 .. Len(docs)
BY DEF ContractorsTypeOK, Docs

\* One conjunct less for the steps that leave the rows alone
LEMMA WorkerStepType ==
    ASSUME ContractorsTypeOK, NEW w \in Workers, WorkerStep(w)
    PROVE  ContractorsTypeOK'
<1>0. /\ work \in [Workers -> WorkType] /\ docs \in Seq(Docs) /\ Len(docs) \in Nat
      /\ DOMAIN docs = 1 .. Len(docs) /\ regs \in Seq(VerificationStatus) /\ Len(regs) \in Nat
  BY DocsSeq DEF ContractorsTypeOK, WorkType, Steps
<1>t. ASSUME /\ work' \in [Workers -> WorkType]
             /\ \A v \in Workers : work'[v].at = "uploading" => work'[v].doc \in 1 .. Len(docs'),
             active' \in BOOLEAN, avail' \in AvailabilityStatus \union {"none"}, fresh' \in BOOLEAN,
             regs' \in Seq(VerificationStatus), Len(regs') <= MaxRegs,
             docs' \in Seq(Docs), Len(docs') <= MaxDocs,
             files' \subseteq 1 .. uploads', uploads' \in 0 .. MaxFiles
      PROVE  ContractorsTypeOK'
  BY <1>t DEF ContractorsTypeOK, WorkType, Steps, Docs
<1>k. /\ active \in BOOLEAN /\ avail \in AvailabilityStatus \union {"none"} /\ fresh \in BOOLEAN
      /\ Len(regs) <= MaxRegs /\ Len(docs) <= MaxDocs
      /\ files \subseteq 1 .. uploads /\ uploads \in 0 .. MaxFiles
  BY DEF ContractorsTypeOK
<1>i. Idle.at # "uploading"
  BY IdleType
<1>1. CASE UpdateProfile(w)
  <2>1. /\ work' \in [Workers -> WorkType]
        /\ \A v \in Workers : work'[v].at = "uploading" => work'[v].doc \in 1 .. Len(docs')
    <3>1. Doing("editing", 0, NoKey, avail) \in WorkType /\ Doing("editing", 0, NoKey, avail).at = "editing"
      BY <1>k, DoingType, DoingIs DEF Steps
    <3> QED
      BY <1>0, <1>1, <3>1, GotoType DEF UpdateProfile
  <2> QED
    BY <1>0, <1>1, <1>t, <1>k, <2>1 DEF UpdateProfile
<1>2. CASE SaveProfile(w)
  <2>1. work[w].avail \in AvailabilityStatus \union {"none"}
    BY <1>0 DEF WorkType
  <2> QED
    BY <1>0, <1>2, <1>t, <1>k, <1>i, <2>1, GotoType, IdleType DEF SaveProfile
<1>3. CASE SubmitBusinessRegistration(w)
  <2>1. /\ work' \in [Workers -> WorkType]
        /\ \A v \in Workers : work'[v].at = "uploading" => work'[v].doc \in 1 .. Len(docs')
    BY <1>0, <1>3, SubmittingType, GotoType DEF SubmitBusinessRegistration
  <2> QED
    BY <1>0, <1>3, <1>t, <1>k, <2>1 DEF SubmitBusinessRegistration
<1>4. CASE RegistrationSaved(w)
  <2>1. regs' \in Seq(VerificationStatus) /\ Len(regs') = Len(regs) + 1
    BY <1>0, <1>4, SeqAppend DEF RegistrationSaved, VerificationStatus
  <2>2. Len(regs') <= MaxRegs
    BY <1>0, <1>4, <2>1 DEF RegistrationSaved
  <2> QED
    BY <1>0, <1>4, <1>t, <1>k, <1>i, <2>1, <2>2, GotoType, IdleType DEF RegistrationSaved
<1>5. CASE SubmitInsuranceDocument(w)
  <2>1. /\ work' \in [Workers -> WorkType]
        /\ \A v \in Workers : work'[v].at = "uploading" => work'[v].doc \in 1 .. Len(docs')
    BY <1>0, <1>5, SubmittingType, GotoType DEF SubmitInsuranceDocument
  <2> QED
    BY <1>0, <1>5, <1>t, <1>k, <2>1 DEF SubmitInsuranceDocument
<1>6. CASE DocumentSaved(w)
  <2>1. [status |-> "PENDING", key |-> NoKey, expired |-> FALSE] \in Docs
    BY DEF Docs, VerificationStatus
  <2>2. docs' \in Seq(Docs) /\ Len(docs') = Len(docs) + 1
    BY <1>0, <1>6, <2>1, SeqAppend DEF DocumentSaved
  <2>3. Len(docs') <= MaxDocs /\ Len(docs') >= Len(docs)
    BY <1>0, <1>6, <2>2 DEF DocumentSaved
  <2>4. /\ work' \in [Workers -> WorkType]
        /\ \A v \in Workers : work'[v].at = "uploading" => work'[v].doc \in 1 .. Len(docs')
    BY <1>0, <1>6, <1>i, <2>2, <2>3, GotoType, IdleType DEF DocumentSaved
  <2> QED
    BY <1>0, <1>6, <1>t, <1>k, <2>2, <2>3, <2>4 DEF DocumentSaved
<1>7. ASSUME NEW d \in 1 .. MaxDocs, AttachInsuranceFile(w, d)
      PROVE  ContractorsTypeOK'
  <2> DEFINE next == Doing("uploading", d, uploads + 1, "none")
  <2>1. uploads + 1 \in Keys /\ d \in 1 .. Len(docs)
    BY <1>0, <1>7, <1>k DEF AttachInsuranceFile, Keys
  <2>2. next \in WorkType /\ next.doc = d
    BY <2>1, DoingType, DoingIs DEF Steps
  <2>3. /\ work' \in [Workers -> WorkType]
        /\ \A v \in Workers : work'[v].at = "uploading" => work'[v].doc \in 1 .. Len(docs')
    <3>1. Goto(w, next) /\ docs' = docs
      BY <1>7 DEF AttachInsuranceFile
    <3> HIDE DEF next
    <3> QED
      BY <1>0, <2>1, <2>2, <3>1, GotoType
  <2>4. files' \subseteq 1 .. uploads' /\ uploads' \in 0 .. MaxFiles
    BY <1>7, <1>k DEF AttachInsuranceFile
  <2> QED
    BY <1>0, <1>7, <1>t, <1>k, <2>3, <2>4 DEF AttachInsuranceFile
<1>8. CASE AttachmentSaved(w)
  <2> DEFINE d == work[w].doc
             row == [docs[d] EXCEPT !.key = work[w].key]
             next == IF docs[d].key = NoKey THEN Idle
                     ELSE Doing("tidying", 0, Replaced(d, work[w].key), "none")
  <2>1. d \in 1 .. Len(docs) /\ work[w].key \in Keys \union {NoKey}
    BY <1>0, <1>8 DEF AttachmentSaved, At, WorkType, ContractorsTypeOK
  <2>2. docs[d] \in Docs
    BY <1>0, <2>1, SeqIsFunction
  <2>3. row \in Docs
    BY <2>1, <2>2 DEF Docs
  <2>4. docs' = [docs EXCEPT ![d] = row]
    BY <1>8 DEF AttachmentSaved
  <2>5. docs' \in Seq(Docs) /\ Len(docs') = Len(docs)
    <3> HIDE DEF row, d
    <3> QED
      BY <1>0, <2>1, <2>3, <2>4, SeqExcept
  <2>6. next \in WorkType /\ next.at # "uploading"
    <3>1. Replaced(d, work[w].key) \in Keys \union {NoKey}
      BY <2>2 DEF Replaced, Docs
    <3> QED
      BY <3>1, IdleType, DoingType, DoingIs DEF Steps
  <2> HIDE DEF row
  <2>7. /\ work' \in [Workers -> WorkType]
        /\ \A v \in Workers : work'[v].at = "uploading" => work'[v].doc \in 1 .. Len(docs')
    <3>1. Goto(w, next)
      BY <1>8 DEF AttachmentSaved
    <3> HIDE DEF next
    <3> QED
      BY <1>0, <2>5, <2>6, <3>1, GotoType
  <2> QED
    BY <1>0, <1>8, <1>t, <1>k, <2>5, <2>7 DEF AttachmentSaved
<1>9. CASE DeleteOld(w)
  <2>1. files' \subseteq 1 .. uploads
    BY <1>9, <1>k DEF DeleteOld
  <2> QED
    BY <1>0, <1>9, <1>t, <1>k, <1>i, <2>1, GotoType, IdleType DEF DeleteOld
<1>10. CASE WorkerDies(w)
  BY <1>0, <1>10, <1>t, <1>k, <1>i, GotoType, IdleType DEF WorkerDies
<1> QED
  BY <1>1, <1>2, <1>3, <1>4, <1>5, <1>6, <1>7, <1>8, <1>9, <1>10 DEF WorkerStep

LEMMA DocExceptType ==
    ASSUME ContractorsTypeOK, NEW d \in DOMAIN docs, NEW row \in Docs, docs' = [docs EXCEPT ![d] = row]
    PROVE  /\ docs' \in Seq(Docs) /\ Len(docs') = Len(docs)
           /\ \A e \in DOMAIN docs : docs'[e] = IF e = d THEN row ELSE docs[e]
BY DocsSeq, SeqExcept

LEMMA OtherStepType ==
    ASSUME ContractorsTypeOK,
           \/ CreateProfile \/ PresenceStep \/ AccountChanges \/ DeleteAccount
           \/ \E d \in 1 .. MaxDocs : DocumentExpires(d)
           \/ \E s \in {"VERIFIED", "REJECTED"} : ReviewStep(s)
    PROVE  ContractorsTypeOK'
<1>0. docs \in Seq(Docs) /\ Len(docs) \in Nat /\ DOMAIN docs = 1 .. Len(docs)
  BY DocsSeq
<1>d. ASSUME docs' \in Seq(Docs), Len(docs') = Len(docs),
             UNCHANGED <<active, avail, regs, files, uploads, fresh, work>>
      PROVE  ContractorsTypeOK'
  BY <1>d DEF ContractorsTypeOK, Docs
<1>1. CASE CreateProfile
  BY <1>1 DEF CreateProfile, ContractorsTypeOK, AvailabilityStatus
<1>2. CASE PresenceStep
  <2>1. ASSUME NEW s \in AvailabilityStatus, UpdateAvailability(s)
        PROVE  ContractorsTypeOK'
    BY <2>1 DEF UpdateAvailability, ContractorsTypeOK
  <2>2. CASE ReportCurrentLocation
    BY <2>2 DEF ReportCurrentLocation, ContractorsTypeOK
  <2>3. CASE LocationAges
    BY <2>3 DEF LocationAges, ContractorsTypeOK
  <2> QED
    BY <1>2, <2>1, <2>2, <2>3 DEF PresenceStep
<1>3. CASE AccountChanges \/ DeleteAccount
  BY <1>3 DEF AccountChanges, DeleteAccount, ContractorsTypeOK, AvailabilityStatus
<1>4. ASSUME NEW d \in 1 .. MaxDocs, DocumentExpires(d)
      PROVE  ContractorsTypeOK'
  <2> DEFINE row == [docs[d] EXCEPT !.expired = TRUE]
  <2>1. docs[d] \in Docs /\ d \in DOMAIN docs
    BY <1>0, <1>4, SeqIsFunction DEF DocumentExpires
  <2>2. row \in Docs /\ docs' = [docs EXCEPT ![d] = row]
    BY <1>4, <2>1 DEF Docs, DocumentExpires
  <2> HIDE DEF row
  <2>3. docs' \in Seq(Docs) /\ Len(docs') = Len(docs)
    BY <2>1, <2>2, DocExceptType
  <2> QED
    BY <1>4, <1>d, <2>3 DEF DocumentExpires
<1>5. ASSUME NEW s \in {"VERIFIED", "REJECTED"}, NEW d \in 1 .. MaxDocs, ReviewInsuranceDocument(d, s)
      PROVE  ContractorsTypeOK'
  <2> DEFINE row == [docs[d] EXCEPT !.status = s]
  <2>1. docs[d] \in Docs /\ d \in DOMAIN docs
    BY <1>0, <1>5, SeqIsFunction DEF ReviewInsuranceDocument
  <2>2. row \in Docs /\ docs' = [docs EXCEPT ![d] = row]
    BY <1>5, <2>1 DEF Docs, ReviewInsuranceDocument, VerificationStatus
  <2> HIDE DEF row
  <2>3. docs' \in Seq(Docs) /\ Len(docs') = Len(docs)
    BY <2>1, <2>2, DocExceptType
  <2> QED
    BY <1>5, <1>d, <2>3 DEF ReviewInsuranceDocument
<1>6. ASSUME NEW s \in {"VERIFIED", "REJECTED"}, NEW i \in 1 .. MaxRegs, ReviewBusinessRegistration(i, s)
      PROVE  ContractorsTypeOK'
  <2>1. regs \in Seq(VerificationStatus) /\ DOMAIN regs = 1 .. Len(regs) /\ s \in VerificationStatus
    BY DEF ContractorsTypeOK, VerificationStatus
  <2>2. regs' \in Seq(VerificationStatus) /\ Len(regs') = Len(regs)
    BY <1>6, <2>1, SeqExcept DEF ReviewBusinessRegistration
  <2>3. avail' \in AvailabilityStatus \union {"none"}
    BY <1>6 DEF ReviewBusinessRegistration, ContractorsTypeOK, AvailabilityStatus
  <2> QED
    BY <1>6, <2>2, <2>3 DEF ReviewBusinessRegistration, ContractorsTypeOK
<1> QED
  BY <1>1, <1>2, <1>3, <1>4, <1>5, <1>6 DEF ReviewStep

LEMMA TypeInit == ContractorsInit => ContractorsTypeOK
<1> SUFFICES ASSUME ContractorsInit  PROVE ContractorsTypeOK
  OBVIOUS
<1>1. work \in [Workers -> WorkType] /\ \A w \in Workers : work[w].at # "uploading"
  BY IdleType DEF ContractorsInit
<1>2. /\ regs \in Seq(VerificationStatus) /\ Len(regs) <= MaxRegs
      /\ docs \in Seq(Docs) /\ Len(docs) <= MaxDocs
  BY DEF ContractorsInit
<1>3. files \subseteq 1 .. uploads /\ uploads \in 0 .. MaxFiles
  BY DEF ContractorsInit
<1>4. active \in BOOLEAN /\ avail \in AvailabilityStatus \union {"none"} /\ fresh \in BOOLEAN
  BY DEF ContractorsInit
<1> QED
  BY <1>1, <1>2, <1>3, <1>4 DEF ContractorsTypeOK, WorkType, Steps, Docs

LEMMA TypeStep == ContractorsTypeOK /\ [ContractorsNext]_contractorVars => ContractorsTypeOK'
<1> SUFFICES ASSUME ContractorsTypeOK, [ContractorsNext]_contractorVars
             PROVE  ContractorsTypeOK'
  OBVIOUS
<1>1. CASE UNCHANGED contractorVars
  BY <1>1 DEF contractorVars, ContractorsTypeOK
<1> QED
  BY <1>1, WorkerStepType, OtherStepType DEF ContractorsNext

\* Rows, files and what every worker is doing stay within their types and
\* bounds; an upload is for a document there is.
THEOREM ContractorsTypeCorrect == ContractorsSpec => []ContractorsTypeOK
BY TypeInit, TypeStep, PTL DEF ContractorsSpec
-----------------------------------------------------------------------------
(***************************************************************************)
(* Files.  A file is named by one document, or is being uploaded for one,  *)
(* or is no longer named and about to go; and a document for which an      *)
(* upload is under way waits for its review, since both hold its lock.     *)
(***************************************************************************)

Uploading(w) == At(w, "uploading")
Tidying(w)   == At(w, "tidying")

NamedOnce ==
    /\ \A d \in DOMAIN docs : docs[d].key # NoKey => docs[d].key \in files
    /\ \A d, e \in DOMAIN docs : docs[d].key = docs[e].key /\ docs[d].key # NoKey => d = e

UploadsAreNew ==
    \A w \in Workers : Uploading(w) =>
        /\ work[w].key \in files /\ work[w].key # NoKey
        /\ docs[work[w].doc].status = "PENDING"
        /\ \A d \in DOMAIN docs : docs[d].key # work[w].key
        /\ \A v \in Workers : Uploading(v) /\ v # w => work[v].key # work[w].key

TidiedIsUnnamed ==
    \A w \in Workers : Tidying(w) =>
        /\ work[w].key \in 1 .. uploads
        /\ \A d \in DOMAIN docs : docs[d].key # work[w].key
        /\ \A v \in Workers : Uploading(v) => work[v].key # work[w].key

FilesInv == ContractorsTypeOK /\ NamedOnce /\ UploadsAreNew /\ TidiedIsUnnamed

LEMMA FilesInit == ContractorsInit => FilesInv
<1> SUFFICES ASSUME ContractorsInit  PROVE NamedOnce /\ UploadsAreNew /\ TidiedIsUnnamed
  BY TypeInit DEF FilesInv
<1>1. DOMAIN docs = {} /\ \A w \in Workers : ~Uploading(w) /\ ~Tidying(w)
  BY IdleType DEF ContractorsInit, Uploading, Tidying, At
<1> QED
  BY <1>1 DEF NamedOnce, UploadsAreNew, TidiedIsUnnamed

\* A step that begins no upload, tidies nothing up and names no file; documents
\* may be added and, when nobody holds their lock, decided
LEMMA LeavesFiles ==
    ASSUME FilesInv, ContractorsTypeOK', files' = files, uploads' = uploads,
           \A w \in Workers : work'[w] = work[w] \/ work'[w].at \notin {"uploading", "tidying"},
           DOMAIN docs \subseteq DOMAIN docs',
           \A d \in DOMAIN docs : /\ docs'[d].key = docs[d].key
                                  /\ docs'[d].status = docs[d].status \/ Unlocked(d),
           \A d \in DOMAIN docs' \ DOMAIN docs : docs'[d].key = NoKey
    PROVE  FilesInv'
<1>1. \A d \in DOMAIN docs' : docs'[d].key # NoKey => d \in DOMAIN docs /\ docs[d].key = docs'[d].key
  OBVIOUS
<1>2. \A w \in Workers : /\ Uploading(w)' => Uploading(w) /\ work'[w] = work[w]
                         /\ Tidying(w)' => Tidying(w) /\ work'[w] = work[w]
  BY DEF Uploading, Tidying, At
<1>3. NoKey \notin 1 .. uploads
  BY DEF NoKey
<1>4. \A w \in Workers : Uploading(w) =>
          work[w].doc \in DOMAIN docs /\ ~Unlocked(work[w].doc)
  BY DocsSeq DEF FilesInv, ContractorsTypeOK, Uploading, At, Unlocked
<1>5. NamedOnce'
  BY <1>1 DEF FilesInv, NamedOnce
<1>6. UploadsAreNew'
  <2> SUFFICES ASSUME NEW w \in Workers, Uploading(w)'
               PROVE  /\ work[w].key \in files /\ work[w].key # NoKey
                      /\ docs'[work[w].doc].status = "PENDING"
                      /\ \A d \in DOMAIN docs' : docs'[d].key # work[w].key
                      /\ \A v \in Workers : Uploading(v)' /\ v # w => work'[v].key # work[w].key
    BY <1>2 DEF UploadsAreNew
  <2>1. Uploading(w)
    BY <1>2
  <2> QED
    BY <1>1, <1>2, <1>4, <2>1 DEF FilesInv, UploadsAreNew
<1>7. TidiedIsUnnamed'
  <2> SUFFICES ASSUME NEW w \in Workers, Tidying(w)'
               PROVE  /\ work[w].key \in 1 .. uploads
                      /\ \A d \in DOMAIN docs' : docs'[d].key # work[w].key
                      /\ \A v \in Workers : Uploading(v)' => work'[v].key # work[w].key
    BY <1>2 DEF TidiedIsUnnamed
  <2>1. Tidying(w)
    BY <1>2
  <2> QED
    BY <1>1, <1>2, <1>3, <2>1 DEF FilesInv, TidiedIsUnnamed
<1> QED
  BY <1>5, <1>6, <1>7 DEF FilesInv

LEMMA WorkAfter ==
    ASSUME ContractorsTypeOK, NEW w \in Workers, NEW next, Goto(w, next)
    PROVE  \A v \in Workers : work'[v] = IF v = w THEN next ELSE work[v]
BY DEF ContractorsTypeOK, Goto

LEMMA WorkersLeaveFiles ==
    ASSUME FilesInv, ContractorsTypeOK', NEW w \in Workers,
           \/ UpdateProfile(w) \/ SaveProfile(w)
           \/ SubmitBusinessRegistration(w) \/ RegistrationSaved(w)
           \/ SubmitInsuranceDocument(w) \/ DocumentSaved(w) \/ WorkerDies(w)
    PROVE  FilesInv'
<1>0. ContractorsTypeOK /\ docs \in Seq(Docs) /\ DOMAIN docs = 1 .. Len(docs) /\ Len(docs) \in Nat
  BY DocsSeq DEF FilesInv
<1>1. \E next : Goto(w, next) /\ next.at \notin {"uploading", "tidying"}
  BY IdleType, DoingIs DEF UpdateProfile, SaveProfile, SubmitBusinessRegistration, RegistrationSaved,
     SubmitInsuranceDocument, DocumentSaved, WorkerDies
<1>2. \A v \in Workers : work'[v] = work[v] \/ work'[v].at \notin {"uploading", "tidying"}
  BY <1>0, <1>1, WorkAfter
<1>3. CASE DocumentSaved(w)
  <2> DEFINE row == [status |-> "PENDING", key |-> NoKey, expired |-> FALSE]
  <2>1. row \in Docs /\ row.key = NoKey /\ docs' = Append(docs, row)
    BY <1>3 DEF Docs, VerificationStatus, DocumentSaved
  <2> HIDE DEF row
  <2>2. /\ docs' \in Seq(Docs) /\ Len(docs') = Len(docs) + 1
        /\ \A d \in DOMAIN docs : docs'[d] = docs[d]
        /\ docs'[Len(docs) + 1] = row
    BY <1>0, <2>1, SeqAppend
  <2>3. DOMAIN docs' = DOMAIN docs \union {Len(docs) + 1}
    BY <1>0, <2>2
  <2> QED
    BY <1>2, <1>3, <2>1, <2>2, <2>3, LeavesFiles DEF DocumentSaved
<1>4. CASE ~DocumentSaved(w)
  <2>1. docs' = docs /\ files' = files /\ uploads' = uploads
    BY <1>4 DEF UpdateProfile, SaveProfile, SubmitBusinessRegistration, RegistrationSaved,
       SubmitInsuranceDocument, WorkerDies
  <2> QED
    BY <1>2, <2>1, LeavesFiles
<1> QED
  BY <1>3, <1>4

LEMMA AttachKeepsFiles ==
    ASSUME FilesInv, ContractorsTypeOK', NEW w \in Workers, NEW d \in 1 .. MaxDocs,
           AttachInsuranceFile(w, d)
    PROVE  FilesInv'
<1> DEFINE new == uploads + 1
<1>1. /\ \A v \in Workers : work'[v] = IF v = w THEN Doing("uploading", d, new, "none") ELSE work[v]
      /\ d \in DOMAIN docs /\ docs[d].status = "PENDING"
      /\ docs' = docs /\ files' = files \union {new} /\ uploads' = new
  BY WorkAfter DEF AttachInsuranceFile, FilesInv
<1>2. files \subseteq 1 .. uploads /\ uploads \in Nat
  BY DEF FilesInv, ContractorsTypeOK
<1>3. new \notin files /\ new # NoKey /\ new \notin 1 .. uploads /\ new \in 1 .. uploads'
  BY <1>1, <1>2 DEF NoKey
<1>4. 1 .. uploads \subseteq 1 .. uploads'
  BY <1>1, <1>2
<1>5. /\ \A v \in Workers : Uploading(v)' => \/ v = w /\ work'[v].key = new /\ work'[v].doc = d
                                             \/ v # w /\ Uploading(v) /\ work'[v] = work[v]
      /\ \A v \in Workers : Tidying(v)' => Tidying(v) /\ work'[v] = work[v]
  BY <1>1, DoingIs DEF Uploading, Tidying, At
<1>6. \A e \in DOMAIN docs : docs[e].key # new
  BY <1>3 DEF FilesInv, NamedOnce
<1>7. \A v \in Workers : (Uploading(v) \/ Tidying(v)) => work[v].key # new
  BY <1>3 DEF FilesInv, UploadsAreNew, TidiedIsUnnamed
<1> HIDE DEF new
<1>8. NamedOnce'
  BY <1>1 DEF FilesInv, NamedOnce
<1>9. UploadsAreNew'
  BY <1>1, <1>3, <1>5, <1>6, <1>7 DEF FilesInv, UploadsAreNew
<1>10. TidiedIsUnnamed'
  BY <1>1, <1>4, <1>5, <1>7 DEF FilesInv, TidiedIsUnnamed
<1> QED
  BY <1>8, <1>9, <1>10 DEF FilesInv

LEMMA SaveKeepsFiles ==
    ASSUME FilesInv, ContractorsTypeOK', NEW w \in Workers, AttachmentSaved(w)
    PROVE  FilesInv'
<1> DEFINE d == work[w].doc
           k == work[w].key
           old == docs[d].key
           row == [docs[d] EXCEPT !.key = k]
           next == IF old = NoKey THEN Idle ELSE Doing("tidying", 0, Replaced(d, k), "none")
<1>1. ContractorsTypeOK /\ Uploading(w)
  BY DEF FilesInv, AttachmentSaved, Uploading
<1>2. d \in DOMAIN docs /\ docs[d] \in Docs /\ k \in Keys \union {NoKey}
  BY <1>1, DocsSeq, SeqIsFunction DEF ContractorsTypeOK, Uploading, At, WorkType
<1>3. row \in Docs /\ row.key = k /\ row.status = docs[d].status
  BY <1>2 DEF Docs
<1>4. docs' = [docs EXCEPT ![d] = row] /\ files' = files /\ uploads' = uploads /\ Goto(w, next)
  BY DEF AttachmentSaved
<1>5. /\ DOMAIN docs' = DOMAIN docs
      /\ \A e \in DOMAIN docs : docs'[e] = IF e = d THEN row ELSE docs[e]
  <2>1. d \in DOMAIN docs
    BY <1>2
  <2> HIDE DEF row, d
  <2>2. docs' \in Seq(Docs) /\ Len(docs') = Len(docs)
    BY <1>1, <1>3, <1>4, <2>1, DocExceptType
  <2> QED
    BY <1>1, <1>3, <1>4, <2>1, <2>2, DocExceptType, DocsSeq, SeqIsFunction
<1>6. \A v \in Workers : work'[v] = IF v = w THEN next ELSE work[v]
  BY <1>1, <1>4, WorkAfter
<1>7. /\ \A v \in Workers : Uploading(v)' => v # w /\ Uploading(v) /\ work'[v] = work[v]
      /\ \A v \in Workers : Tidying(v)' => \/ v = w /\ work'[v].key = old /\ old # NoKey
                                           \/ v # w /\ Tidying(v) /\ work'[v] = work[v]
  BY <1>6, IdleType, DoingIs DEF Uploading, Tidying, At, Replaced
<1>8. k \in files /\ k # NoKey /\ \A e \in DOMAIN docs : docs[e].key # k
  BY <1>1 DEF FilesInv, UploadsAreNew
<1>9. \A v \in Workers : v # w =>
          /\ Uploading(v) => work[v].key # k
          /\ Tidying(v)   => work[v].key # k
  BY <1>1 DEF FilesInv, UploadsAreNew, TidiedIsUnnamed
<1>10. old # NoKey => /\ old \in files /\ \A e \in DOMAIN docs : docs[e].key = old => e = d
                      /\ \A v \in Workers : Uploading(v) => work[v].key # old
  BY <1>2 DEF FilesInv, NamedOnce, UploadsAreNew
<1>11. files \subseteq 1 .. uploads
  BY <1>1 DEF ContractorsTypeOK
<1>12. \A e \in DOMAIN docs : docs'[e].key = (IF e = d THEN k ELSE docs[e].key)
                             /\ docs'[e].status = docs[e].status
  BY <1>3, <1>5
<1>13. \A v \in Workers : Uploading(v) => work[v].doc \in DOMAIN docs
  BY <1>1, DocsSeq DEF ContractorsTypeOK, Uploading, At
<1>17. old # k
  BY <1>2, <1>8
<1> HIDE DEF d, k, old, row, next
<1>14. NamedOnce'
  BY <1>4, <1>5, <1>8, <1>12 DEF FilesInv, NamedOnce
<1>15. UploadsAreNew'
  BY <1>4, <1>5, <1>7, <1>9, <1>12, <1>13 DEF FilesInv, UploadsAreNew
<1>16. TidiedIsUnnamed'
  <2> SUFFICES ASSUME NEW v \in Workers, Tidying(v)'
               PROVE  /\ work'[v].key \in 1 .. uploads
                      /\ \A e \in DOMAIN docs : docs'[e].key # work'[v].key
                      /\ \A u \in Workers : Uploading(u)' => work'[u].key # work'[v].key
    BY <1>4, <1>5 DEF TidiedIsUnnamed
  <2>1. CASE v = w
    <3>1. work'[v].key = old /\ old # NoKey
      BY <1>7, <2>1
    <3>2. old \in 1 .. uploads
      BY <1>10, <1>11, <3>1
    <3>3. \A e \in DOMAIN docs : docs'[e].key # old
      BY <1>10, <1>12, <1>17, <3>1
    <3>4. \A u \in Workers : Uploading(u)' => work'[u].key # old
      BY <1>7, <1>10, <3>1
    <3> QED
      BY <3>1, <3>2, <3>3, <3>4
  <2>2. CASE v # w
    BY <1>7, <1>9, <1>12, <2>2 DEF FilesInv, TidiedIsUnnamed
  <2> QED
    BY <2>1, <2>2
<1> QED
  BY <1>14, <1>15, <1>16 DEF FilesInv

LEMMA DeleteKeepsFiles ==
    ASSUME FilesInv, ContractorsTypeOK', NEW w \in Workers, DeleteOld(w)
    PROVE  FilesInv'
<1>1. /\ \A v \in Workers : work'[v] = IF v = w THEN Idle ELSE work[v]
      /\ docs' = docs /\ files' = files \ {work[w].key} /\ uploads' = uploads /\ Tidying(w)
  BY WorkAfter DEF DeleteOld, FilesInv, Tidying
<1>2. \A v \in Workers : /\ Uploading(v)' => Uploading(v) /\ work'[v] = work[v]
                         /\ Tidying(v)' => Tidying(v) /\ work'[v] = work[v]
  BY <1>1, IdleType DEF Uploading, Tidying, At
<1>3. NamedOnce'
  BY <1>1 DEF FilesInv, NamedOnce, TidiedIsUnnamed
<1>4. UploadsAreNew'
  BY <1>1, <1>2 DEF FilesInv, UploadsAreNew, TidiedIsUnnamed
<1>5. TidiedIsUnnamed'
  BY <1>1, <1>2 DEF FilesInv, TidiedIsUnnamed
<1> QED
  BY <1>3, <1>4, <1>5 DEF FilesInv

\* A review is of a document nobody holds, so no upload for it is under way
LEMMA OthersKeepFiles ==
    ASSUME FilesInv, ContractorsTypeOK',
           \/ CreateProfile \/ PresenceStep \/ AccountChanges \/ DeleteAccount
           \/ \E d \in 1 .. MaxDocs : DocumentExpires(d)
           \/ \E s \in {"VERIFIED", "REJECTED"} : ReviewStep(s)
    PROVE  FilesInv'
<1>0. ContractorsTypeOK /\ docs \in Seq(Docs) /\ DOMAIN docs = 1 .. Len(docs) /\ Len(docs) \in Nat
  BY DocsSeq DEF FilesInv
<1>1. CASE UNCHANGED <<docs, files, uploads, work>>
  BY <1>1, LeavesFiles
<1>r. ASSUME NEW d \in DOMAIN docs, NEW row \in Docs, docs' = [docs EXCEPT ![d] = row],
             row.key = docs[d].key, row.status = docs[d].status \/ Unlocked(d),
             UNCHANGED <<files, uploads, work>>
      PROVE  FilesInv'
  <2>1. /\ DOMAIN docs' = DOMAIN docs
        /\ \A e \in DOMAIN docs : docs'[e] = IF e = d THEN row ELSE docs[e]
    BY <1>0, <1>r, DocExceptType, SeqIsFunction
  <2> QED
    BY <1>r, <2>1, LeavesFiles
<1>2. ASSUME NEW d \in 1 .. MaxDocs, DocumentExpires(d)
      PROVE  FilesInv'
  <2> DEFINE row == [docs[d] EXCEPT !.expired = TRUE]
  <2>1. docs[d] \in Docs /\ d \in DOMAIN docs
    BY <1>0, <1>2, SeqIsFunction DEF DocumentExpires
  <2>2. /\ row \in Docs /\ docs' = [docs EXCEPT ![d] = row]
        /\ row.key = docs[d].key /\ row.status = docs[d].status
    BY <1>2, <2>1 DEF Docs, DocumentExpires
  <2> HIDE DEF row
  <2> QED
    BY <1>2, <1>r, <2>1, <2>2 DEF DocumentExpires
<1>3. ASSUME NEW s \in {"VERIFIED", "REJECTED"}, NEW d \in 1 .. MaxDocs, ReviewInsuranceDocument(d, s)
      PROVE  FilesInv'
  <2> DEFINE row == [docs[d] EXCEPT !.status = s]
  <2>1. docs[d] \in Docs /\ d \in DOMAIN docs
    BY <1>0, <1>3, SeqIsFunction DEF ReviewInsuranceDocument
  <2>2. row \in Docs /\ docs' = [docs EXCEPT ![d] = row] /\ row.key = docs[d].key
    BY <1>3, <2>1 DEF Docs, ReviewInsuranceDocument, VerificationStatus
  <2> HIDE DEF row
  <2> QED
    BY <1>3, <1>r, <2>1, <2>2 DEF ReviewInsuranceDocument
<1>4. CASE CreateProfile
  BY <1>1, <1>4 DEF CreateProfile
<1>5. CASE PresenceStep
  BY <1>1, <1>5 DEF PresenceStep, UpdateAvailability, ReportCurrentLocation, LocationAges
<1>6. CASE AccountChanges \/ DeleteAccount
  BY <1>1, <1>6 DEF AccountChanges, DeleteAccount
<1>7. ASSUME NEW s \in {"VERIFIED", "REJECTED"}, NEW i \in 1 .. MaxRegs, ReviewBusinessRegistration(i, s)
      PROVE  FilesInv'
  BY <1>1, <1>7 DEF ReviewBusinessRegistration
<1> QED
  BY <1>2, <1>3, <1>4, <1>5, <1>6, <1>7 DEF ReviewStep

LEMMA FilesStep == FilesInv /\ [ContractorsNext]_contractorVars => FilesInv'
<1> SUFFICES ASSUME FilesInv, [ContractorsNext]_contractorVars
             PROVE  FilesInv'
  OBVIOUS
<1>1. ContractorsTypeOK'
  BY TypeStep DEF FilesInv
<1>2. CASE UNCHANGED contractorVars
  BY <1>1, <1>2, LeavesFiles DEF contractorVars
<1>3. ASSUME NEW w \in Workers, WorkerStep(w)
      PROVE  FilesInv'
  BY <1>1, <1>3, WorkersLeaveFiles, AttachKeepsFiles, SaveKeepsFiles, DeleteKeepsFiles DEF WorkerStep
<1> QED
  BY <1>1, <1>2, <1>3, OthersKeepFiles DEF ContractorsNext

\* The file a document names can be opened, however uploads, replacements,
\* removals and dying workers interleave.
THEOREM AttachmentStored == ContractorsSpec => []AttachmentIsStored
<1>1. FilesInv => AttachmentIsStored
  BY DEF FilesInv, NamedOnce, AttachmentIsStored
<1> QED
  BY <1>1, FilesInit, FilesStep, PTL DEF ContractorsSpec

\* Neither the decision nor the file of a decided document changes: an upload
\* that comes to be saved is for one that still waits.
LEMMA DecidedStays ==
    ASSUME FilesInv, ContractorsNext, NEW d \in DOMAIN docs, docs[d].status # "PENDING"
    PROVE  docs'[d].status = docs[d].status /\ docs'[d].key = docs[d].key
<1>0. ContractorsTypeOK /\ docs \in Seq(Docs) /\ DOMAIN docs = 1 .. Len(docs) /\ Len(docs) \in Nat
  BY DocsSeq DEF FilesInv
<1>d. docs[d] \in Docs
  BY <1>0, SeqIsFunction
<1>1. CASE docs' = docs
  BY <1>1
<1>r. ASSUME NEW e \in DOMAIN docs, NEW row \in Docs, docs' = [docs EXCEPT ![e] = row],
             e = d => row.status = docs[d].status /\ row.key = docs[d].key
      PROVE  docs'[d].status = docs[d].status /\ docs'[d].key = docs[d].key
  BY <1>0, <1>r, DocExceptType
<1>2. ASSUME NEW w \in Workers, DocumentSaved(w)
      PROVE  docs'[d] = docs[d]
  <2>1. [status |-> "PENDING", key |-> NoKey, expired |-> FALSE] \in Docs
    BY DEF Docs, VerificationStatus
  <2> QED
    BY <1>0, <1>2, <2>1, SeqAppend DEF DocumentSaved
<1>3. ASSUME NEW w \in Workers, AttachmentSaved(w)
      PROVE  docs'[d].status = docs[d].status /\ docs'[d].key = docs[d].key
  <2> DEFINE e   == work[w].doc
             row == [docs[e] EXCEPT !.key = work[w].key]
  <2>1. e \in DOMAIN docs /\ docs[e].status = "PENDING" /\ work[w].key \in Keys \union {NoKey}
    BY <1>0, <1>3 DEF FilesInv, UploadsAreNew, AttachmentSaved, Uploading, At, ContractorsTypeOK
  <2>2. docs[e] \in Docs
    BY <1>0, <2>1, SeqIsFunction
  <2>3. row \in Docs /\ docs' = [docs EXCEPT ![e] = row] /\ e # d
    BY <1>3, <2>1, <2>2 DEF Docs, AttachmentSaved
  <2> HIDE DEF row, e
  <2> QED
    BY <1>r, <2>1, <2>3
<1>4. ASSUME NEW e \in 1 .. MaxDocs, DocumentExpires(e)
      PROVE  docs'[d].status = docs[d].status /\ docs'[d].key = docs[d].key
  <2> DEFINE row == [docs[e] EXCEPT !.expired = TRUE]
  <2>1. docs[e] \in Docs /\ e \in DOMAIN docs
    BY <1>0, <1>4, SeqIsFunction DEF DocumentExpires
  <2>2. /\ row \in Docs /\ docs' = [docs EXCEPT ![e] = row]
        /\ row.key = docs[e].key /\ row.status = docs[e].status
    BY <1>4, <2>1 DEF Docs, DocumentExpires
  <2> HIDE DEF row
  <2> QED
    BY <1>r, <2>1, <2>2
<1>5. ASSUME NEW s \in {"VERIFIED", "REJECTED"}, NEW e \in 1 .. MaxDocs, ReviewInsuranceDocument(e, s)
      PROVE  docs'[d].status = docs[d].status /\ docs'[d].key = docs[d].key
  <2> DEFINE row == [docs[e] EXCEPT !.status = s]
  <2>1. docs[e] \in Docs /\ e \in DOMAIN docs /\ e # d
    BY <1>0, <1>5, SeqIsFunction DEF ReviewInsuranceDocument
  <2>2. row \in Docs /\ docs' = [docs EXCEPT ![e] = row]
    BY <1>5, <2>1 DEF Docs, ReviewInsuranceDocument, VerificationStatus
  <2> HIDE DEF row
  <2> QED
    BY <1>r, <2>1, <2>2
<1>6. ASSUME NEW w \in Workers, WorkerStep(w)
      PROVE  docs'[d].status = docs[d].status /\ docs'[d].key = docs[d].key
  BY <1>1, <1>2, <1>3, <1>6 DEF WorkerStep, UpdateProfile, SaveProfile, SubmitBusinessRegistration,
     RegistrationSaved, SubmitInsuranceDocument, AttachInsuranceFile, DeleteOld, WorkerDies
<1>7. CASE CreateProfile \/ PresenceStep \/ AccountChanges \/ DeleteAccount
  BY <1>1, <1>7 DEF CreateProfile, PresenceStep, UpdateAvailability, ReportCurrentLocation,
     LocationAges, AccountChanges, DeleteAccount
<1>8. ASSUME NEW s \in {"VERIFIED", "REJECTED"}, NEW i \in 1 .. MaxRegs, ReviewBusinessRegistration(i, s)
      PROVE  docs' = docs
  BY <1>8 DEF ReviewBusinessRegistration
<1> QED
  BY <1>1, <1>4, <1>5, <1>6, <1>7, <1>8 DEF ContractorsNext, ReviewStep

\* What a reviewer decided on stays what it was.
THEOREM ReviewFrozen == ContractorsSpec => ReviewedIsFrozen
<1>1. FilesInv /\ [ContractorsNext]_contractorVars =>
          [\A d \in DOMAIN docs : docs[d].status # "PENDING" =>
              docs'[d].status = docs[d].status /\ docs'[d].key = docs[d].key]_contractorVars
  BY DecidedStays
<1> QED
  BY <1>1, FilesInit, FilesStep, PTL DEF ContractorsSpec, ReviewedIsFrozen
-----------------------------------------------------------------------------
(***************************************************************************)
(* Registrations: what decides, and what the contractor is told.           *)
(***************************************************************************)

LEMMA RegsSeq ==
    ContractorsTypeOK => /\ regs \in Seq(VerificationStatus)
                         /\ Len(regs) \in Nat /\ DOMAIN regs = 1 .. Len(regs)
                         /\ \A i \in DOMAIN regs : regs[i] \in VerificationStatus
BY SeqIsFunction DEF ContractorsTypeOK

\* How a step may change the registrations
LEMMA RegsChange ==
    ASSUME ContractorsTypeOK, ContractorsNext
    PROVE  \/ regs' = regs
           \/ \E w \in Workers : RegistrationSaved(w)
           \/ \E i \in DOMAIN regs, s \in {"VERIFIED", "REJECTED"} : ReviewBusinessRegistration(i, s)
<1>1. ASSUME NEW w \in Workers, WorkerStep(w), ~RegistrationSaved(w)
      PROVE  regs' = regs
  BY <1>1 DEF WorkerStep, UpdateProfile, SaveProfile, SubmitBusinessRegistration, SubmitInsuranceDocument,
     DocumentSaved, AttachInsuranceFile, AttachmentSaved, DeleteOld, WorkerDies
<1>2. CASE CreateProfile \/ PresenceStep \/ AccountChanges \/ DeleteAccount
  BY <1>2 DEF CreateProfile, PresenceStep, UpdateAvailability, ReportCurrentLocation, LocationAges,
     AccountChanges, DeleteAccount
<1>3. ASSUME NEW d \in 1 .. MaxDocs, DocumentExpires(d)
      PROVE  regs' = regs
  BY <1>3 DEF DocumentExpires
<1>4. ASSUME NEW s \in {"VERIFIED", "REJECTED"}, ReviewStep(s)
      PROVE  regs' = regs \/ \E i \in DOMAIN regs : ReviewBusinessRegistration(i, s)
  BY <1>4 DEF ReviewStep, ReviewBusinessRegistration, ReviewInsuranceDocument
<1> QED
  BY <1>1, <1>2, <1>3, <1>4 DEF ContractorsNext

LEMMA OnlyReviews ==
    ASSUME ContractorsTypeOK, ContractorsNext, ChangesStanding
    PROVE  \E i \in DOMAIN regs : regs[i] = "PENDING" /\ regs'[i] # "PENDING"
<1>0. regs \in Seq(VerificationStatus) /\ Len(regs) \in Nat /\ DOMAIN regs = 1 .. Len(regs)
  BY RegsSeq
<1>1. regs' # regs
  BY DEF ChangesStanding, IsContractorEligible, LatestReviewed, GetContractorStatus, HasProfile
<1>2. ASSUME NEW w \in Workers, RegistrationSaved(w)
      PROVE  FALSE
  <2>1. /\ regs' \in Seq(VerificationStatus) /\ Len(regs') = Len(regs) + 1
        /\ \A j \in DOMAIN regs : regs'[j] = regs[j]
        /\ regs'[Len(regs) + 1] = "PENDING"
    BY <1>0, <1>2, SeqAppend DEF RegistrationSaved, VerificationStatus
  <2>2. DOMAIN regs' = DOMAIN regs \union {Len(regs) + 1}
    BY <1>0, <2>1
  <2>3. LatestReviewed' = LatestReviewed /\ \A i \in LatestReviewed : regs'[i] = regs[i]
    BY <1>0, <2>1, <2>2 DEF LatestReviewed
  <2>4. IsContractorEligible' = IsContractorEligible
    BY <2>3 DEF IsContractorEligible
  <2>5. GetContractorStatus' # "ACTION_REQUIRED"
    BY <1>0, <2>1 DEF GetContractorStatus, HasProfile
  <2> QED
    BY <2>4, <2>5 DEF ChangesStanding
<1>3. ASSUME NEW i \in DOMAIN regs, NEW s \in {"VERIFIED", "REJECTED"}, ReviewBusinessRegistration(i, s)
      PROVE  regs[i] = "PENDING" /\ regs'[i] # "PENDING"
  <2>1. regs'[i] = s
    BY <1>0, <1>3, SeqExcept DEF ReviewBusinessRegistration, VerificationStatus
  <2> QED
    BY <1>3, <2>1 DEF ReviewBusinessRegistration
<1> QED
  BY <1>1, <1>2, <1>3, RegsChange

\* Only a review makes a contractor eligible or not, or tells them to act.
THEOREM OnlyReviewsDecide == ContractorsSpec => ReviewDecides
<1>1. ContractorsTypeOK /\ [ContractorsNext]_contractorVars =>
          [ChangesStanding =>
              \E i \in DOMAIN regs : regs[i] = "PENDING" /\ regs'[i] # "PENDING"]_contractorVars
  BY OnlyReviews
<1> QED
  BY <1>1, TypeInit, TypeStep, PTL DEF ContractorsSpec, ReviewDecides
-----------------------------------------------------------------------------
(***************************************************************************)
(* Submissions that wait.  Whoever looks and finds none is counted until   *)
(* the row is in: the rows that wait and the workers about to add one are  *)
(* together at most as many as there are workers.                          *)
(***************************************************************************)

Saving(step) == {w \in Workers : At(w, step)}
WaitingRegs  == {i \in DOMAIN regs : regs[i] = "PENDING"}
WaitingDocs  == {d \in DOMAIN docs : docs[d].status = "PENDING"}

RegsBounded == Cardinality(WaitingRegs) + Cardinality(Saving("registering")) <= Cardinality(Workers)
DocsBounded == Cardinality(WaitingDocs) + Cardinality(Saving("insuring")) <= Cardinality(Workers)

PendingInv == ContractorsTypeOK /\ RegsBounded /\ DocsBounded

LEMMA FiniteSets ==
    ASSUME ContractorsTypeOK
    PROVE  /\ IsFiniteSet(WaitingRegs) /\ Cardinality(WaitingRegs) \in Nat
           /\ IsFiniteSet(WaitingDocs) /\ Cardinality(WaitingDocs) \in Nat
           /\ \A step : /\ IsFiniteSet(Saving(step)) /\ Cardinality(Saving(step)) \in Nat
                        /\ Cardinality(Saving(step)) <= Cardinality(Workers)
           /\ Cardinality(Workers) \in Nat
<1>0. DOMAIN regs = 1 .. Len(regs) /\ Len(regs) \in Nat /\ DOMAIN docs = 1 .. Len(docs) /\ Len(docs) \in Nat
  BY RegsSeq, DocsSeq
<1>1. IsFiniteSet(DOMAIN regs) /\ IsFiniteSet(DOMAIN docs)
  BY <1>0, FS_Interval
<1>2. WaitingRegs \subseteq DOMAIN regs /\ WaitingDocs \subseteq DOMAIN docs
  BY DEF WaitingRegs, WaitingDocs
<1>3. \A step : Saving(step) \subseteq Workers
  BY DEF Saving
<1> QED
  BY <1>1, <1>2, <1>3, FS_Subset, FS_CardinalityType

\* The three ways a count changes: nothing comes in, one begins when none
\* waits, one that was counted comes in
LEMMA NothingComesIn ==
    ASSUME NEW A, NEW B, NEW A1, NEW B1, IsFiniteSet(A), IsFiniteSet(B), A1 \subseteq A, B1 \subseteq B,
           Cardinality(A) + Cardinality(B) <= Cardinality(Workers)
    PROVE  Cardinality(A1) + Cardinality(B1) <= Cardinality(Workers)
<1>1. IsFiniteSet(A1) /\ Cardinality(A1) <= Cardinality(A) /\ IsFiniteSet(B1) /\ Cardinality(B1) <= Cardinality(B)
  BY FS_Subset
<1>2. /\ Cardinality(A) \in Nat /\ Cardinality(B) \in Nat /\ Cardinality(A1) \in Nat /\ Cardinality(B1) \in Nat
      /\ Cardinality(Workers) \in Nat
  BY <1>1, FS_CardinalityType
<1> QED
  BY <1>1, <1>2

LEMMA NoneWaits ==
    ASSUME NEW B1, B1 \subseteq Workers
    PROVE  Cardinality({}) + Cardinality(B1) <= Cardinality(Workers)
<1>1. Cardinality({}) = 0
  BY FS_EmptySet
<1>2. Cardinality(B1) \in Nat /\ Cardinality(B1) <= Cardinality(Workers)
  BY FS_Subset, FS_CardinalityType
<1> QED
  BY <1>1, <1>2

LEMMA OneComesIn ==
    ASSUME NEW A, NEW B, NEW a, NEW b \in B, IsFiniteSet(A), IsFiniteSet(B),
           Cardinality(A) + Cardinality(B) <= Cardinality(Workers)
    PROVE  Cardinality(A \union {a}) + Cardinality(B \ {b}) <= Cardinality(Workers)
<1>1. Cardinality(B \ {b}) = Cardinality(B) - 1 /\ IsFiniteSet(B \ {b})
  BY FS_RemoveElement
<1>2. /\ IsFiniteSet(A \union {a})
      /\ Cardinality(A \union {a}) = Cardinality(A) \/ Cardinality(A \union {a}) = Cardinality(A) + 1
  BY FS_AddElement
<1>3. Cardinality(A) \in Nat /\ Cardinality(B) \in Nat /\ Cardinality(Workers) \in Nat
  BY FS_CardinalityType
<1> QED
  BY <1>1, <1>2, <1>3

LEMMA SavingAfter ==
    ASSUME ContractorsTypeOK, NEW w \in Workers, NEW next, Goto(w, next), NEW step
    PROVE  /\ next.at # step => Saving(step)' = Saving(step) \ {w}
           /\ next.at = step => Saving(step)' = Saving(step) \union {w}
BY WorkAfter DEF Saving, At

\* What a worker's step does to the workers about to add a row
LEMMA SavingStep ==
    ASSUME ContractorsTypeOK, NEW w \in Workers, WorkerStep(w)
    PROVE  /\ SubmitBusinessRegistration(w) \/ Saving("registering")' \subseteq Saving("registering")
           /\ SubmitInsuranceDocument(w) \/ Saving("insuring")' \subseteq Saving("insuring")
<1>i. Idle.at = "idle"
  BY IdleType
<1>1. \/ SubmitBusinessRegistration(w)
      \/ \E next : Goto(w, next) /\ next.at # "registering"
  BY <1>i, DoingIs DEF WorkerStep, UpdateProfile, SaveProfile, RegistrationSaved, SubmitInsuranceDocument,
     DocumentSaved, AttachInsuranceFile, AttachmentSaved, DeleteOld, WorkerDies
<1>2. \/ SubmitInsuranceDocument(w)
      \/ \E next : Goto(w, next) /\ next.at # "insuring"
  BY <1>i, DoingIs DEF WorkerStep, UpdateProfile, SaveProfile, RegistrationSaved, SubmitBusinessRegistration,
     DocumentSaved, AttachInsuranceFile, AttachmentSaved, DeleteOld, WorkerDies
<1> QED
  BY <1>1, <1>2, SavingAfter

LEMMA RegsStep ==
    ASSUME PendingInv, ContractorsNext
    PROVE  RegsBounded'
<1>0. /\ ContractorsTypeOK /\ RegsBounded
      /\ regs \in Seq(VerificationStatus) /\ Len(regs) \in Nat /\ DOMAIN regs = 1 .. Len(regs)
      /\ IsFiniteSet(WaitingRegs) /\ IsFiniteSet(Saving("registering"))
  BY RegsSeq, FiniteSets DEF PendingInv
<1>1. ASSUME WaitingRegs' \subseteq WaitingRegs, Saving("registering")' \subseteq Saving("registering")
      PROVE  RegsBounded'
  BY <1>0, <1>1, NothingComesIn DEF RegsBounded
<1>2. ASSUME NEW w \in Workers, SubmitBusinessRegistration(w)
      PROVE  RegsBounded'
  <2>1. WaitingRegs' = {}
    BY <1>2 DEF SubmitBusinessRegistration, NonePending, RegStatuses, WaitingRegs
  <2>2. Saving("registering")' \subseteq Workers
    BY DEF Saving
  <2> QED
    BY <2>1, <2>2, NoneWaits DEF RegsBounded
<1>3. ASSUME NEW w \in Workers, RegistrationSaved(w)
      PROVE  RegsBounded'
  <2>1. /\ regs' \in Seq(VerificationStatus) /\ Len(regs') = Len(regs) + 1
        /\ \A j \in DOMAIN regs : regs'[j] = regs[j]
        /\ regs'[Len(regs) + 1] = "PENDING"
    BY <1>0, <1>3, SeqAppend DEF RegistrationSaved, VerificationStatus
  <2>2. DOMAIN regs' = DOMAIN regs \union {Len(regs) + 1}
    BY <1>0, <2>1
  <2>3. WaitingRegs' = WaitingRegs \union {Len(regs) + 1}
    BY <2>1, <2>2 DEF WaitingRegs
  <2>4. Saving("registering")' = Saving("registering") \ {w} /\ w \in Saving("registering")
    BY <1>0, <1>3, IdleType, SavingAfter DEF RegistrationSaved, Saving
  <2> QED
    BY <1>0, <2>3, <2>4, OneComesIn DEF RegsBounded
<1>4. ASSUME NEW i \in DOMAIN regs, NEW s \in {"VERIFIED", "REJECTED"}, ReviewBusinessRegistration(i, s)
      PROVE  RegsBounded'
  <2>1. /\ DOMAIN regs' = DOMAIN regs
        /\ \A j \in DOMAIN regs : regs'[j] = IF j = i THEN s ELSE regs[j]
    BY <1>0, <1>4, SeqExcept DEF ReviewBusinessRegistration, VerificationStatus
  <2>2. WaitingRegs' \subseteq WaitingRegs
    BY <1>4, <2>1 DEF WaitingRegs
  <2>3. Saving("registering")' = Saving("registering")
    BY <1>4 DEF ReviewBusinessRegistration, Saving, At
  <2> QED
    BY <1>1, <2>2, <2>3
<1>5. ASSUME regs' = regs
      PROVE  RegsBounded'
  <2>1. WaitingRegs' = WaitingRegs
    BY <1>5 DEF WaitingRegs
  <2>2. ASSUME NEW w \in Workers, WorkerStep(w)
        PROVE  RegsBounded'
    BY <1>0, <1>1, <1>2, <2>1, <2>2, SavingStep
  <2>3. CASE UNCHANGED work
    BY <1>1, <2>1, <2>3 DEF Saving, At
  <2> QED
    BY <2>2, <2>3 DEF ContractorsNext, CreateProfile, PresenceStep, UpdateAvailability,
       ReportCurrentLocation, LocationAges, AccountChanges, DeleteAccount, DocumentExpires, ReviewStep,
       ReviewBusinessRegistration, ReviewInsuranceDocument
<1> QED
  BY <1>0, <1>3, <1>4, <1>5, RegsChange

\* Every other step leaves the statuses of the documents, or decides one
LEMMA DocsChange ==
    ASSUME ContractorsTypeOK, ContractorsNext
    PROVE  \/ WaitingDocs' \subseteq WaitingDocs
           \/ \E w \in Workers : DocumentSaved(w)
<1>0. docs \in Seq(Docs) /\ Len(docs) \in Nat /\ DOMAIN docs = 1 .. Len(docs)
  BY DocsSeq
<1>1. ASSUME docs' = docs
      PROVE  WaitingDocs' \subseteq WaitingDocs
  BY <1>1 DEF WaitingDocs
<1>r. ASSUME NEW e \in DOMAIN docs, NEW row \in Docs, docs' = [docs EXCEPT ![e] = row],
             row.status = "PENDING" => docs[e].status = "PENDING"
      PROVE  WaitingDocs' \subseteq WaitingDocs
  <2>1. /\ DOMAIN docs' = DOMAIN docs
        /\ \A d \in DOMAIN docs : docs'[d] = IF d = e THEN row ELSE docs[d]
    BY <1>0, <1>r, DocExceptType, SeqIsFunction
  <2> QED
    BY <1>r, <2>1 DEF WaitingDocs
<1>2. ASSUME NEW w \in Workers, AttachmentSaved(w)
      PROVE  WaitingDocs' \subseteq WaitingDocs
  <2> DEFINE e   == work[w].doc
             row == [docs[e] EXCEPT !.key = work[w].key]
  <2>1. e \in DOMAIN docs /\ work[w].key \in Keys \union {NoKey}
    BY <1>0, <1>2 DEF AttachmentSaved, At, ContractorsTypeOK
  <2>2. docs[e] \in Docs
    BY <1>0, <2>1, SeqIsFunction
  <2>3. row \in Docs /\ docs' = [docs EXCEPT ![e] = row] /\ row.status = docs[e].status
    BY <1>2, <2>1, <2>2 DEF Docs, AttachmentSaved
  <2> HIDE DEF row, e
  <2> QED
    BY <1>r, <2>1, <2>3
<1>3. ASSUME NEW e \in 1 .. MaxDocs, DocumentExpires(e)
      PROVE  WaitingDocs' \subseteq WaitingDocs
  <2> DEFINE row == [docs[e] EXCEPT !.expired = TRUE]
  <2>1. docs[e] \in Docs /\ e \in DOMAIN docs
    BY <1>0, <1>3, SeqIsFunction DEF DocumentExpires
  <2>2. row \in Docs /\ docs' = [docs EXCEPT ![e] = row] /\ row.status = docs[e].status
    BY <1>3, <2>1 DEF Docs, DocumentExpires
  <2> HIDE DEF row
  <2> QED
    BY <1>r, <2>1, <2>2
<1>4. ASSUME NEW s \in {"VERIFIED", "REJECTED"}, NEW e \in 1 .. MaxDocs, ReviewInsuranceDocument(e, s)
      PROVE  WaitingDocs' \subseteq WaitingDocs
  <2> DEFINE row == [docs[e] EXCEPT !.status = s]
  <2>1. docs[e] \in Docs /\ e \in DOMAIN docs
    BY <1>0, <1>4, SeqIsFunction DEF ReviewInsuranceDocument
  <2>2. row \in Docs /\ docs' = [docs EXCEPT ![e] = row] /\ row.status # "PENDING"
    BY <1>4, <2>1 DEF Docs, ReviewInsuranceDocument, VerificationStatus
  <2> HIDE DEF row
  <2> QED
    BY <1>r, <2>1, <2>2
<1>5. ASSUME NEW w \in Workers, WorkerStep(w), ~DocumentSaved(w)
      PROVE  WaitingDocs' \subseteq WaitingDocs
  <2>1. AttachmentSaved(w) \/ docs' = docs
    BY <1>5 DEF WorkerStep, UpdateProfile, SaveProfile, SubmitBusinessRegistration,
       RegistrationSaved, SubmitInsuranceDocument, AttachInsuranceFile, DeleteOld, WorkerDies
  <2> QED
    BY <1>1, <1>2, <2>1
<1>6. CASE CreateProfile \/ PresenceStep \/ AccountChanges \/ DeleteAccount
  BY <1>1, <1>6 DEF CreateProfile, PresenceStep, UpdateAvailability, ReportCurrentLocation,
     LocationAges, AccountChanges, DeleteAccount
<1>7. ASSUME NEW s \in {"VERIFIED", "REJECTED"}, NEW i \in 1 .. MaxRegs, ReviewBusinessRegistration(i, s)
      PROVE  docs' = docs
  BY <1>7 DEF ReviewBusinessRegistration
<1> QED
  BY <1>1, <1>3, <1>4, <1>5, <1>6, <1>7 DEF ContractorsNext, ReviewStep

LEMMA DocsStep ==
    ASSUME PendingInv, ContractorsNext
    PROVE  DocsBounded'
<1>0. /\ ContractorsTypeOK /\ DocsBounded
      /\ docs \in Seq(Docs) /\ Len(docs) \in Nat /\ DOMAIN docs = 1 .. Len(docs)
      /\ IsFiniteSet(WaitingDocs) /\ IsFiniteSet(Saving("insuring"))
  BY DocsSeq, FiniteSets DEF PendingInv
<1>1. ASSUME NEW w \in Workers, SubmitInsuranceDocument(w)
      PROVE  DocsBounded'
  <2>1. WaitingDocs' = {}
    BY <1>1 DEF SubmitInsuranceDocument, NonePending, DocStatuses, WaitingDocs
  <2>2. Saving("insuring")' \subseteq Workers
    BY DEF Saving
  <2> QED
    BY <2>1, <2>2, NoneWaits DEF DocsBounded
<1>2. ASSUME NEW w \in Workers, DocumentSaved(w)
      PROVE  DocsBounded'
  <2> DEFINE row == [status |-> "PENDING", key |-> NoKey, expired |-> FALSE]
  <2>1. row \in Docs /\ row.status = "PENDING" /\ docs' = Append(docs, row)
    BY <1>2 DEF Docs, VerificationStatus, DocumentSaved
  <2> HIDE DEF row
  <2>2. /\ docs' \in Seq(Docs) /\ Len(docs') = Len(docs) + 1
        /\ \A j \in DOMAIN docs : docs'[j] = docs[j]
        /\ docs'[Len(docs) + 1] = row
    BY <1>0, <2>1, SeqAppend
  <2>3. DOMAIN docs' = DOMAIN docs \union {Len(docs) + 1}
    BY <1>0, <2>2
  <2>4. WaitingDocs' = WaitingDocs \union {Len(docs) + 1}
    BY <2>1, <2>2, <2>3 DEF WaitingDocs
  <2>5. Saving("insuring")' = Saving("insuring") \ {w} /\ w \in Saving("insuring")
    BY <1>0, <1>2, IdleType, SavingAfter DEF DocumentSaved, Saving
  <2> QED
    BY <1>0, <2>4, <2>5, OneComesIn DEF DocsBounded
<1>3. ASSUME WaitingDocs' \subseteq WaitingDocs
      PROVE  DocsBounded'
  <2>1. ASSUME Saving("insuring")' \subseteq Saving("insuring")
        PROVE  DocsBounded'
    BY <1>0, <1>3, <2>1, NothingComesIn DEF DocsBounded
  <2>2. ASSUME NEW w \in Workers, WorkerStep(w)
        PROVE  DocsBounded'
    BY <1>0, <1>1, <2>1, <2>2, SavingStep
  <2>3. CASE UNCHANGED work
    BY <2>1, <2>3 DEF Saving, At
  <2> QED
    BY <2>2, <2>3 DEF ContractorsNext, CreateProfile, PresenceStep, UpdateAvailability,
       ReportCurrentLocation, LocationAges, AccountChanges, DeleteAccount, DocumentExpires, ReviewStep,
       ReviewBusinessRegistration, ReviewInsuranceDocument
<1> QED
  BY <1>0, <1>2, <1>3, DocsChange

LEMMA PendingInit == ContractorsInit => PendingInv
<1> SUFFICES ASSUME ContractorsInit  PROVE RegsBounded /\ DocsBounded
  BY TypeInit DEF PendingInv
<1>1. WaitingRegs = {} /\ WaitingDocs = {}
  BY DEF ContractorsInit, WaitingRegs, WaitingDocs
<1>2. Saving("registering") \subseteq Workers /\ Saving("insuring") \subseteq Workers
  BY DEF Saving
<1> QED
  BY <1>1, <1>2, NoneWaits DEF RegsBounded, DocsBounded

LEMMA PendingStep == PendingInv /\ [ContractorsNext]_contractorVars => PendingInv'
<1> SUFFICES ASSUME PendingInv, [ContractorsNext]_contractorVars
             PROVE  PendingInv'
  OBVIOUS
<1>1. ContractorsTypeOK'
  BY TypeStep DEF PendingInv
<1>2. CASE UNCHANGED contractorVars
  BY <1>1, <1>2 DEF contractorVars, PendingInv, RegsBounded, DocsBounded, WaitingRegs, WaitingDocs, Saving, At
<1> QED
  BY <1>1, <1>2, RegsStep, DocsStep DEF PendingInv

LEMMA PendingImplies == PendingInv => PendingBounded
<1> SUFFICES ASSUME PendingInv  PROVE PendingBounded
  OBVIOUS
<1>1. /\ Cardinality(WaitingRegs) \in Nat /\ Cardinality(WaitingDocs) \in Nat /\ Cardinality(Workers) \in Nat
      /\ Cardinality(Saving("registering")) \in Nat /\ Cardinality(Saving("insuring")) \in Nat
  BY FiniteSets DEF PendingInv
<1>2. Cardinality(WaitingRegs) <= Cardinality(Workers) /\ Cardinality(WaitingDocs) <= Cardinality(Workers)
  BY <1>1 DEF PendingInv, RegsBounded, DocsBounded
<1> QED
  BY <1>2 DEF PendingBounded, WaitingRegs, WaitingDocs

\* The check that takes no lock lets at most as many submissions wait as there
\* are processes that serve the contractor.
THEOREM PendingIsBounded == ContractorsSpec => []PendingBounded
BY PendingInit, PendingStep, PendingImplies, PTL DEF ContractorsSpec
=============================================================================
