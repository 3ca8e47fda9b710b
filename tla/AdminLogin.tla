----------------------------- MODULE AdminLogin -----------------------------
(***************************************************************************)
(* The two-step login of one administrator: password with lockout, then a  *)
(* one-time code (module Otp) that is bound to a challenge, or a trusted   *)
(* device; with what superusers and the owner do to the account meanwhile. *)
(***************************************************************************)
EXTENDS Otp

CONSTANTS Challenges,   \* rows of AdminLoginChallenge that may come to exist
          NoChallenge,
          MaxFailed     \* ADMIN_MAX_FAILED_LOGINS

ASSUME LoginAssumption == NoChallenge \notin Challenges /\ MaxFailed \in Nat \ {0}

VARIABLES
    admin,      \* the account: active, failed attempts, locked
    challenge,  \* state of every challenge
    trusted,    \* a trusted device is on record and not revoked
    flow,       \* what each worker is doing, and for which challenge
    logins      \* how often each challenge has led to a login

loginVars == <<admin, challenge, trusted, flow, logins>>
vars      == <<otpVars, loginVars>>

Idle == [at |-> "idle", of |-> NoChallenge]

AdminLoginTypeOK ==
    /\ OtpTypeOK
    /\ admin \in [active : BOOLEAN, failed : 0 .. MaxFailed - 1, locked : BOOLEAN]
    /\ challenge \in [Challenges -> {"none", "open", "overdue", "consumed"}]
    /\ trusted \in BOOLEAN
    /\ flow \in [Requests -> [at : {"idle", "password", "resend", "sending", "sent",
                                    "checked", "code", "consuming"},
                              of : Challenges \union {NoChallenge}]]
    /\ logins \in [Challenges -> Nat]

AdminLoginInit ==
    /\ OtpInit
    /\ admin = [active |-> TRUE, failed |-> 0, locked |-> FALSE]
    /\ challenge = [h \in Challenges |-> "none"]
    /\ trusted = FALSE
    /\ flow = [r \in Requests |-> Idle]
    /\ logins = [h \in Challenges |-> 0]

At(r, step)      == flow[r].at = step
Goto(r, step, h) == flow' = [flow EXCEPT ![r] = [at |-> step, of |-> h]]
-----------------------------------------------------------------------------
(* First step: the password *)

AfterFailure ==                                     \* the count starts again with the lock
    IF admin.failed + 1 >= MaxFailed
    THEN [admin EXCEPT !.failed = 0, !.locked = TRUE]
    ELSE [admin EXCEPT !.failed = @ + 1]

\* Under the lock of the row, committed whatever the outcome; the status is
\* looked at afterwards
CheckPasswordStep(r, right) ==
    /\ At(r, "idle") /\ ~admin.locked
    /\ IF right
       THEN /\ admin' = [admin EXCEPT !.failed = 0]
            /\ IF admin.active THEN Goto(r, "password", NoChallenge) ELSE UNCHANGED flow
       ELSE admin' = AfterFailure /\ UNCHANGED flow
    /\ UNCHANGED <<otpVars, challenge, trusted, logins>>

\* begin_login with a device that is still valid: no second step
TrustedDevice(r) ==
    /\ At(r, "password") /\ trusted
    /\ Goto(r, "idle", NoChallenge)
    /\ UNCHANGED <<otpVars, admin, challenge, trusted, logins>>

\* begin_login without one: a code is sent for a challenge to come
OpenChallenge(r) ==
    /\ At(r, "password")
    /\ BeginSend(r)
    /\ \E h \in Challenges :
          /\ challenge[h] = "none" /\ \A q \in Requests : flow[q].of # h
          /\ Goto(r, "sending", h)
    /\ UNCHANGED <<admin, challenge, trusted, logins>>

\* resend_code looks at the challenge alone ...
FindChallenge(r, h) ==
    /\ At(r, "idle") /\ challenge[h] = "open"
    /\ Goto(r, "resend", h)
    /\ UNCHANGED <<otpVars, admin, challenge, trusted, logins>>

\* ... and sends another code
ResendCode(r) ==
    /\ At(r, "resend")
    /\ BeginSend(r)
    /\ Goto(r, "sending", flow[r].of)
    /\ UNCHANGED <<admin, challenge, trusted, logins>>

SendGoesOn(r) ==
    /\ At(r, "sending")
    /\ FindPending(r) \/ InsertCode(r)
    /\ UNCHANGED loginVars

\* The code is on its way and committed ...
CodeSent(r) ==
    /\ At(r, "sending")
    /\ GenerateAndSend(r)
    /\ Goto(r, "sent", flow[r].of)
    /\ UNCHANGED <<admin, challenge, trusted, logins>>

\* ... before the challenge is made, or its time extended
ChallengeOpens(r) ==
    LET h == flow[r].of IN
    /\ At(r, "sent")
    /\ challenge' = [challenge EXCEPT ![h] = IF @ = "consumed" THEN @ ELSE "open"]
    /\ Goto(r, "idle", NoChallenge)
    /\ UNCHANGED <<otpVars, admin, trusted, logins>>

LoginBreaks(r) ==
    /\ At(r, "sending") /\ SendFails(r)
    /\ Goto(r, "idle", NoChallenge)
    /\ UNCHANGED <<admin, challenge, trusted, logins>>
-----------------------------------------------------------------------------
(* Second step: the code *)

\* complete_login finds the challenge open ...
StartComplete(r, h) ==
    /\ At(r, "idle") /\ challenge[h] = "open"
    /\ Goto(r, "checked", h)
    /\ UNCHANGED <<otpVars, admin, challenge, trusted, logins>>

\* ... the code is verified in a transaction of its own ...
VerifyCode(r, right) ==
    /\ At(r, "checked")
    /\ \E c \in Codes :
          /\ Verify(c, right)
          /\ IF Outcome(c, right) = "VERIFIED"
             THEN Goto(r, "code", flow[r].of) ELSE Goto(r, "idle", NoChallenge)
    /\ UNCHANGED <<admin, challenge, trusted, logins>>

BadMayConsume(h) == TRUE                            \* its count is not looked at
MayConsume(h)    == challenge[h] # "consumed"

\* ... and the challenge consumed in another, by the conditional UPDATE at which
\* two requests with the same challenge meet: the second one waits for the first.
\* An account that is read as not active any more rolls it back ...
Consume(r) ==
    LET h == flow[r].of IN
    /\ At(r, "code")
    /\ \A q \in Requests : ~(At(q, "consuming") /\ flow[q].of = h)
    /\ IF MayConsume(h) /\ admin.active
       THEN Goto(r, "consuming", h) ELSE Goto(r, "idle", NoChallenge)
    /\ UNCHANGED <<otpVars, admin, challenge, trusted, logins>>

\* ... and one that ceases to be active after that read does not
CompleteLogin(r, remember) ==
    LET h == flow[r].of IN
    /\ At(r, "consuming")
    /\ challenge' = [challenge EXCEPT ![h] = "consumed"]
    /\ trusted' = (trusted \/ remember)
    /\ logins' = [logins EXCEPT ![h] = @ + 1]
    /\ Goto(r, "idle", NoChallenge)
    /\ UNCHANGED <<otpVars, admin>>

\* A worker is refused, finds no code, or dies between two steps
LoginDies(r) ==
    /\ flow[r].at \in {"password", "resend", "sent", "checked", "code", "consuming"}
    /\ Goto(r, "idle", NoChallenge)
    /\ UNCHANGED <<otpVars, admin, challenge, trusted, logins>>
-----------------------------------------------------------------------------
(* Meanwhile *)

\* update_admin: a status or number that changes ends the sessions
UpdateAccount ==
    /\ admin' = [admin EXCEPT !.active = ~@]
    /\ trusted' = (trusted /\ ~admin.active)
    /\ UNCHANGED <<otpVars, challenge, flow, logins>>

\* reset_admin_password also unlocks
ResetPassword ==
    /\ admin' = [admin EXCEPT !.failed = 0, !.locked = FALSE]
    /\ trusted' = FALSE
    /\ UNCHANGED <<otpVars, challenge, flow, logins>>

\* change_own_password, revoke_trusted_device, revoke_admin_sessions
RevokeAllSessions ==
    /\ trusted /\ trusted' = FALSE
    /\ UNCHANGED <<otpVars, admin, challenge, flow, logins>>

\* locked_until passes, or an administrator clears the lockout
LockEnds ==
    /\ admin.locked
    /\ admin' = [admin EXCEPT !.locked = FALSE, !.failed = 0]
    /\ UNCHANGED <<otpVars, challenge, trusted, flow, logins>>

ChallengeExpires(h) ==
    /\ challenge[h] = "open"
    /\ challenge' = [challenge EXCEPT ![h] = "overdue"]
    /\ UNCHANGED <<otpVars, admin, trusted, flow, logins>>

Ageing == \E c \in Codes : CodeAges(c) /\ UNCHANGED loginVars
-----------------------------------------------------------------------------
LoginStep(r) ==
    \/ \E right \in BOOLEAN : CheckPasswordStep(r, right)
    \/ TrustedDevice(r) \/ OpenChallenge(r)
    \/ \E h \in Challenges : FindChallenge(r, h) \/ StartComplete(r, h)
    \/ ResendCode(r) \/ SendGoesOn(r) \/ CodeSent(r) \/ ChallengeOpens(r) \/ LoginBreaks(r)
    \/ \E right \in BOOLEAN : VerifyCode(r, right)
    \/ Consume(r)
    \/ \E remember \in BOOLEAN : CompleteLogin(r, remember)
    \/ LoginDies(r)

AdminLoginNext ==
    \/ \E r \in Requests : LoginStep(r)
    \/ UpdateAccount \/ ResetPassword \/ RevokeAllSessions \/ LockEnds
    \/ \E h \in Challenges : ChallengeExpires(h)
    \/ Ageing

AdminLoginSpec == AdminLoginInit /\ [][AdminLoginNext]_vars
-----------------------------------------------------------------------------
(* Properties *)

\* A challenge leads to one login at most, however many workers present it with
\* codes that were right, and no device is trusted without one
\* (models.py: AdminLoginChallenge is consumed once).
ChallengeUsedOnce ==
    /\ \A h \in Challenges : logins[h] = IF challenge[h] = "consumed" THEN 1 ELSE 0
    /\ trusted => \E h \in Challenges : challenge[h] = "consumed"

\* Every login by code has a verified code of its own (otp.py: verify).
LoginsHaveCodes ==
    Cardinality({h \in Challenges : challenge[h] = "consumed"})
      + Cardinality({r \in Requests : flow[r].at \in {"code", "consuming"}})
    <= Cardinality({c \in Codes : code[c].status = "VERIFIED"})
=============================================================================
