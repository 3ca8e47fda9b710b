--------------------------------- MODULE Otp --------------------------------
(***************************************************************************)
(* One-time codes for one number and purpose: the rows of OTPVerification, *)
(* the limits on requests, delivery and verification, with several workers *)
(* at once.  The limits are counted first, without a lock; the UPDATE that *)
(* invalidates older codes then waits for rows that other transactions     *)
(* hold; and the new row is committed only when the SMS provider has       *)
(* answered.  Verification locks the row.                                  *)
(*                                                                         *)
(* The hourly limit for an address has the form of the daily one for a     *)
(* number and is not repeated.  Numbers with a fixed code (tests, store    *)
(* review) send no message and are left out.                               *)
(***************************************************************************)
EXTENDS Naturals, FiniteSets

CONSTANTS Requests,     \* workers that serve requests at the same time
          MaxCodes,     \* bound: rows ever made
          MaxAttempts,  \* OTP_MAX_ATTEMPTS
          MaxPerDay     \* OTP_MAX_REQUESTS_PER_PHONE_PER_DAY

ASSUME RequestsAssumption == IsFiniteSet(Requests)
ASSUME LimitsAssumption   == /\ MaxCodes \in Nat
                             /\ MaxAttempts \in Nat \ {0} /\ MaxPerDay \in Nat \ {0}

Codes == 1 .. MaxCodes

VARIABLES
    code,       \* OTPVerification rows, in order of creation
    open        \* transactions of generate_and_send under way

otpVars == <<code, open>>

OTPStatus == {"none", "PENDING", "VERIFIED", "EXPIRED", "FAILED"}

\* Ages of a code: 0 within the cooldown, 1 past it, 2 past expires_at, 3 older
\* than the day the limits look back
Ages == 0 .. 3

NoRow  == 0
NoCode == [status |-> "none", attempts |-> 0, age |-> 3]

\* How far a transaction is; the rows its UPDATE found PENDING, and those of them
\* it has changed and holds; the row it has inserted
Closed == [at |-> "closed", found |-> {}, held |-> {}, row |-> NoRow]

OtpTypeOK ==
    /\ code \in [Codes -> [status : OTPStatus, attempts : 0 .. MaxAttempts, age : Ages]]
    /\ open \in [Requests -> [at : {"closed", "counted", "updating", "inserted"},
                             found : SUBSET Codes, held : SUBSET Codes,
                             row : Codes \union {NoRow}]]

OtpInit ==
    /\ code = [c \in Codes |-> NoCode]
    /\ open = [r \in Requests |-> Closed]

\* What is committed
Rows    == {c \in Codes : code[c].status # "none"}
BadPending == {c \in Codes : code[c].status \in {"PENDING", "VERIFIED"}}  \* used ones too
Pending    == {c \in Codes : code[c].status = "PENDING"}
Recent  == {c \in Rows : code[c].age < 3}

\* Rows whose change a transaction under way has not committed; and the places in
\* the order that are taken, by rows of such transactions too
LockedRows == UNION {open[r].held : r \in Requests}
Taken      == {NoRow} \union Rows \union {open[r].row : r \in Requests}

\* The cooldown looks at the newest row, the daily limit counts the recent ones
CooledDown      == \A c \in Rows : code[c].age # 0
BadWithinLimits == CooledDown                                   \* no daily limit
WithinLimits    == CooledDown /\ Cardinality(Recent) < MaxPerDay

BadToExpire == {c \in Pending : code[c].age = 2}                \* only what is overdue
ToExpire    == Pending

Step(r, next) == open' = [open EXCEPT ![r] = next]

\* The limits are counted, in a transaction that stays open while the SMS
\* provider is called ...
BeginSend(r) ==
    /\ open[r].at = "closed" /\ WithinLimits
    /\ Step(r, [Closed EXCEPT !.at = "counted"])
    /\ UNCHANGED code

\* ... the old codes are looked up, as they are committed by now ...
FindPending(r) ==
    /\ open[r].at = "counted"
    /\ Step(r, [Closed EXCEPT !.at = "updating", !.found = ToExpire])
    /\ UNCHANGED code

\* ... and invalidated, once no other transaction holds one of them: those that
\* are still PENDING then.  A row that was committed meanwhile is not among them.
\* The new row takes its place in the order
InsertCode(r) ==
    /\ open[r].at = "updating" /\ open[r].found \intersect LockedRows = {}
    /\ \E c \in Codes :
          /\ c - 1 \in Taken /\ \A d \in Taken : d < c
          /\ Step(r, [at |-> "inserted", found |-> {}, held |-> open[r].found \intersect Pending,
                      row |-> c])
          /\ code' = [code EXCEPT ![c].age = 0]

\* The provider took the message and the transaction commits
GenerateAndSend(r) ==
    /\ open[r].at = "inserted"
    /\ code' = [c \in Codes |->
          IF c = open[r].row THEN [code[c] EXCEPT !.status = "PENDING"]
          ELSE IF c \in open[r].held THEN [code[c] EXCEPT !.status = "EXPIRED"]
          ELSE code[c]]
    /\ Step(r, Closed)

\* The delivery failed, the worker died or fell victim to a deadlock: all of it
\* is rolled back
SendFails(r) ==
    /\ open[r].at # "closed"
    /\ code' = [c \in Codes |-> IF c = open[r].row THEN NoCode ELSE code[c]]
    /\ Step(r, Closed)

\* The checks of verify, in their order
Outcome(c, right) ==
    CASE code[c].age >= 2                    -> "EXPIRED"
      [] code[c].attempts >= MaxAttempts     -> "FAILED"
      [] right                               -> "VERIFIED"
      [] code[c].attempts + 1 >= MaxAttempts -> "FAILED"
      [] OTHER                               -> "PENDING"
Counted(c, right) ==
    IF ~right /\ code[c].age < 2 /\ code[c].attempts < MaxAttempts
    THEN code[c].attempts + 1 ELSE code[c].attempts

\* The newest PENDING row the query found, under its lock: while it waited for
\* that lock newer ones may have come.  What is counted is committed although the
\* request is refused
Verify(c, right) ==
    /\ c \in Pending \ LockedRows
    /\ code' = [code EXCEPT ![c].status = Outcome(c, right), ![c].attempts = Counted(c, right)]
    /\ UNCHANGED open

\* Time crosses the thresholds in the order the rows were made, committed or not
CodeAges(c) ==
    /\ code[c].age < 3
    /\ \A d \in Codes : d < c => code[d].age > code[c].age
    /\ code' = [code EXCEPT ![c].age = @ + 1]
    /\ UNCHANGED open
-----------------------------------------------------------------------------
(* Properties *)

\* Requests that pass the limits together, or wait for each other's rows, leave a
\* live code each, and no more: there are never more than workers, since each
\* worker's own earlier code is among those it invalidates (otp.py: the UPDATE
\* before the new row).
LiveCodesBounded == Cardinality(Pending) <= Cardinality(Requests)

\* The daily limit, counted without a lock, is overshot at most by the other
\* requests that counted before it was reached, whatever they wait for afterwards
\* (otp.py: _enforce_request_limits).
OvershootBounded == Cardinality(Recent) < MaxPerDay + Cardinality(Requests)

\* One code counts at any moment (otp.py, docstring of generate_and_send): the code
\* does not promise it.  No run checks it.
OneLiveCode == \A c, d \in Pending : c = d
=============================================================================
