--------------------------- MODULE Accounts_proofs ---------------------------
(***************************************************************************)
(* Refresh tokens rotate once, and an account that is shut out under the   *)
(* lock of its row keeps few sessions, for any accounts, workers,          *)
(* providers and number of tokens.                                         *)
(***************************************************************************)
EXTENDS Accounts, FiniteSetTheorems, TLAPS

Holders  == Accounts \union {Nobody}
Steps    == {"idle", "searching", "linking", "refreshing", "login", "authenticated"}
ReqRows  == [at : Steps, who : Holders, from : 0 .. MaxTokens,
             by : Providers \union {Nobody}, email : EmailStates]
ReqType  == {q \in ReqRows : /\ q.at \in {"searching", "linking"} => q.by \in Providers
                             /\ q.at = "authenticated" => q.who \in Accounts
                             /\ q.at = "refreshing" => q.from \in Tokens}
TokType  == [state : {"none", "live", "rotated", "revoked"}, of : Holders, from : 0 .. MaxTokens]
BulkType == [open : BOOLEAN, list : SUBSET Tokens]

USE NobodyAssumption, BoundsAssumption

LEMMA TypeRestated ==
    AccountsTypeOK <=>
        /\ user \in [Accounts -> UserRows]
        /\ link \in [Providers -> Holders]
        /\ token \in [Tokens -> TokType]
        /\ req \in [Requests -> ReqType]
        /\ bulk \in [Accounts -> BulkType]
        /\ sealed \in [Accounts -> BOOLEAN]
        /\ acts \in 0 .. MaxActs
BY DEF AccountsTypeOK, Holders, Steps, ReqType, ReqRows, TokType, BulkType

LEMMA TypeRestatedNext ==
    AccountsTypeOK' <=>
        /\ user' \in [Accounts -> UserRows]
        /\ link' \in [Providers -> Holders]
        /\ token' \in [Tokens -> TokType]
        /\ req' \in [Requests -> ReqType]
        /\ bulk' \in [Accounts -> BulkType]
        /\ sealed' \in [Accounts -> BOOLEAN]
        /\ acts' \in 0 .. MaxActs
BY DEF AccountsTypeOK, Holders, Steps, ReqType, ReqRows, TokType, BulkType

LEMMA IdleType == Idle \in ReqType
BY DEF Idle, ReqType, ReqRows, Steps, Holders, EmailStates

\* What a request may go on with is again a request
LEMMA GotoType ==
    ASSUME AccountsTypeOK, NEW r \in Requests, NEW next \in ReqType, Goto(r, next)
    PROVE  req' \in [Requests -> ReqType]
BY TypeRestated DEF Goto

LEMMA EntersType ==
    ASSUME AccountsTypeOK, NEW r \in Requests, NEW a \in Holders, NEW t \in 0 .. MaxTokens, Enters(r, a, t)
    PROVE  req' \in [Requests -> ReqType]
<1>1. [Idle EXCEPT !.at = "login", !.who = a, !.from = t] \in ReqType
  BY DEF Idle, ReqType, ReqRows, Steps, Holders, EmailStates
<1> QED
  BY <1>1, GotoType DEF Enters

LEMMA SearchingType ==
    ASSUME NEW q \in ReqType, NEW p \in Providers
    PROVE  [q EXCEPT !.at = "searching", !.by = p] \in ReqType
BY DEF ReqType, ReqRows, Steps

LEMMA RefreshingType ==
    ASSUME NEW a \in Holders, NEW t \in Tokens
    PROVE  [Idle EXCEPT !.at = "refreshing", !.who = a, !.from = t] \in ReqType
<1>1. t \in 0 .. MaxTokens
  BY DEF Tokens
<1> QED
  BY <1>1 DEF Idle, ReqType, ReqRows, Steps, Holders, EmailStates

LEMMA AuthenticatedType ==
    ASSUME NEW q \in ReqType, NEW a \in Accounts, NEW email \in EmailStates
    PROVE  [q EXCEPT !.at = "authenticated", !.who = a, !.email = email] \in ReqType
BY DEF ReqType, ReqRows, Steps, Holders

LEMMA LinkingType ==
    ASSUME NEW q \in ReqType, q.at = "searching", NEW email \in EmailStates, NEW a \in Holders
    PROVE  /\ [q EXCEPT !.at = "linking", !.email = email] \in ReqType
           /\ [q EXCEPT !.at = "linking", !.email = email, !.who = a] \in ReqType
BY DEF ReqType, ReqRows, Steps

LEMMA RevokeType ==
    ASSUME AccountsTypeOK, NEW list
    PROVE  Revoke(list) \in [Tokens -> TokType]
<1> SUFFICES ASSUME NEW t \in Tokens
             PROVE  (IF t \in list /\ token[t].state = "live"
                     THEN [token[t] EXCEPT !.state = "revoked"] ELSE token[t]) \in TokType
  BY DEF Revoke
<1>1. token[t] \in TokType
  BY TypeRestated
<1> QED
  BY <1>1 DEF TokType

LEMMA CreateType ==
    ASSUME AccountsTypeOK, NEW a \in Accounts, NEW phone \in Phones, NEW email \in EmailStates,
           CreateUser(a, phone, email)
    PROVE  user' \in [Accounts -> UserRows]
<1>1. [status |-> "ACTIVE", is_active |-> TRUE, phone |-> phone, email |-> email] \in UserRows
  BY DEF UserRows, UserStatus
<1> QED
  BY <1>1, TypeRestated DEF CreateUser

LEMMA CreateForType ==
    ASSUME AccountsTypeOK, NEW r \in Requests, At(r, "linking"), NEW a \in Accounts, CreateForIdentity(r, a)
    PROVE  user' \in [Accounts -> UserRows]
<1>1. req[r] \in ReqType
  BY TypeRestated
<1>2. req[r].by \in Phones
  BY <1>1 DEF At, ReqType, Phones
<1>3. (IF WithEmail = {} THEN req[r].email ELSE "none") \in EmailStates
  BY <1>1 DEF ReqType, ReqRows, EmailStates
<1> QED
  BY <1>2, <1>3, CreateType DEF CreateForIdentity

LEMMA RequestStepType ==
    ASSUME AccountsTypeOK, NEW r \in Requests, RequestStep(r)
    PROVE  AccountsTypeOK'
<1> USE TypeRestated, TypeRestatedNext
<1>0. req[r] \in ReqType
  OBVIOUS
<1>1. CASE GetOrCreateUserByPhone(r)
  <2>1. ASSUME NEW a \in Accounts, CreateUser(a, "number", "none") \/ UNCHANGED user, Enters(r, a, 0)
        PROVE  AccountsTypeOK'
    <3>1. user' \in [Accounts -> UserRows]
      BY <2>1, CreateType DEF Phones, EmailStates
    <3>2. req' \in [Requests -> ReqType]
      BY <2>1, EntersType DEF Holders
    <3> QED
      BY <1>1, <3>1, <3>2 DEF GetOrCreateUserByPhone
  <2> QED
    BY <1>1, <2>1 DEF GetOrCreateUserByPhone, WithPhone
<1>2. CASE \E p \in Providers : LoginWithProvider(r, p)
  <2> PICK p \in Providers : LoginWithProvider(r, p)
    BY <1>2
  <2>1. link[p] \in Holders /\ 0 \in 0 .. MaxTokens
    OBVIOUS
  <2>2. [Idle EXCEPT !.at = "searching", !.by = p] \in ReqType
    BY IdleType, SearchingType
  <2>3. req' \in [Requests -> ReqType]
    BY <2>1, <2>2, EntersType, GotoType DEF LoginWithProvider
  <2> QED
    BY <2>3 DEF LoginWithProvider
<1>3. CASE FindByEmail(r)
  <2>1. PICK email \in EmailStates \ {"none"} :
          \/ Goto(r, [req[r] EXCEPT !.at = "linking", !.email = email])
          \/ \E a \in Linkable(email) : Goto(r, [req[r] EXCEPT !.at = "linking", !.email = email, !.who = a])
    BY <1>3 DEF FindByEmail
  <2>2. req[r].at = "searching"
    BY <1>3 DEF FindByEmail, At
  <2>3. req' \in [Requests -> ReqType]
    BY <1>0, <2>1, <2>2, LinkingType, GotoType DEF Linkable, Holders
  <2> QED
    BY <1>3, <2>3 DEF FindByEmail
<1>4. CASE LinkFound(r)
  <2>1. req[r].who \in Holders
    BY <1>0 DEF ReqType, ReqRows
  <2>2. req' \in [Requests -> ReqType]
    BY <1>4, <2>1, EntersType DEF LinkFound
  <2>3. link' \in [Providers -> Holders]
    BY <1>4, <2>1 DEF LinkFound
  <2> QED
    BY <1>4, <2>2, <2>3 DEF LinkFound
<1>5. CASE LinkCreated(r)
  <2> PICK a \in Accounts : CreateForIdentity(r, a) /\ link' = [link EXCEPT ![req[r].by] = a] /\ Enters(r, a, 0)
    BY <1>5 DEF LinkCreated
  <2>0. a \in Holders /\ 0 \in 0 .. MaxTokens
    BY DEF Holders
  <2>1. req' \in [Requests -> ReqType] /\ link' \in [Providers -> Holders]
    BY <2>0, EntersType
  <2>2. user' \in [Accounts -> UserRows]
    BY <1>5, CreateForType DEF LinkCreated
  <2> QED
    BY <1>5, <2>1, <2>2 DEF LinkCreated
<1>6. CASE LinkLost(r)
  <2>1. link[req[r].by] \in Holders
    BY <1>0, <1>6 DEF LinkLost, At, ReqType
  <2>2. req' \in [Requests -> ReqType]
    BY <1>6, <2>1, EntersType DEF LinkLost
  <2>3. user' \in [Accounts -> UserRows]
    BY <1>6, CreateForType DEF LinkLost
  <2> QED
    BY <1>6, <2>2, <2>3 DEF LinkLost
<1>7. CASE \E t \in Tokens : RefreshToken(r, t)
  <2> PICK t \in Tokens : RefreshToken(r, t)
    BY <1>7
  <2>1. token[t].of \in Holders
    BY DEF TokType
  <2>2. req' \in [Requests -> ReqType]
    BY <2>1, RefreshingType, GotoType DEF RefreshToken
  <2> QED
    BY <2>2 DEF RefreshToken
<1>8. CASE BlacklistOld(r)
  <2>1. token' \in [Tokens -> TokType]
    BY <1>8 DEF BlacklistOld, TokType
  <2>2. req[r].who \in Holders /\ req[r].from \in 0 .. MaxTokens
    BY <1>0 DEF ReqType, ReqRows
  <2>3. req' \in [Requests -> ReqType]
    BY <1>8, <2>2, EntersType, GotoType, IdleType DEF BlacklistOld
  <2> QED
    BY <1>8, <2>1, <2>3 DEF BlacklistOld
<1>9. CASE IssueTokens(r)
  <2>1. token' \in [Tokens -> TokType]
    BY <1>0, <1>9 DEF IssueTokens, TokType, ReqType, ReqRows, FreeToken
  <2> QED
    BY <1>9, <2>1, GotoType, IdleType DEF IssueTokens
<1>10. CASE \E a \in Accounts : Authenticate(r, a)
  <2> PICK a \in Accounts : Authenticate(r, a)
    BY <1>10
  <2>1. user[a].email \in EmailStates
    BY DEF UserRows
  <2>2. req' \in [Requests -> ReqType]
    BY <2>1, IdleType, AuthenticatedType, GotoType DEF Authenticate
  <2> QED
    BY <2>2 DEF Authenticate
<1>11. CASE UpdateOwnProfile(r)
  <2>1. req[r].email \in EmailStates
    BY <1>0 DEF ReqType, ReqRows
  <2>2. PICK email \in EmailStates : user' = [user EXCEPT ![req[r].who].email = email]
    BY <1>11, <2>1 DEF UpdateOwnProfile, EmailStates
  <2>3. user' \in [Accounts -> UserRows]
    BY <2>2 DEF UserRows
  <2>4. req' \in [Requests -> ReqType]
    BY <1>11, GotoType, IdleType DEF UpdateOwnProfile
  <2> QED
    BY <1>11, <2>3, <2>4 DEF UpdateOwnProfile
<1>12. CASE DeleteAccount(r)
  <2>1. req[r].who \in Accounts
    BY <1>0, <1>12 DEF DeleteAccount, At, ReqType
  <2>2. \A h \in Holders : Freed(h, req[r].who) \in Holders
    BY DEF Freed, Holders
  <2>3. link' \in [Providers -> Holders]
    BY <1>12, <2>2 DEF DeleteAccount
  <2>4. user' \in [Accounts -> UserRows]
    <3>1. [Unborn EXCEPT !.status = "DELETED"] \in UserRows
      BY DEF Unborn, UserRows, UserStatus, Phones, EmailStates
    <3> QED
      BY <1>12, <3>1 DEF DeleteAccount
  <2>5. token' \in [Tokens -> TokType]
    BY <1>12, RevokeType DEF DeleteAccount, RevokeAll
  <2>6. req' \in [Requests -> ReqType] /\ sealed' \in [Accounts -> BOOLEAN]
    BY <1>12, GotoType, IdleType DEF DeleteAccount
  <2> QED
    BY <1>12, <2>3, <2>4, <2>5, <2>6 DEF DeleteAccount
<1>13. CASE RequestDies(r)
  BY <1>13, GotoType, IdleType DEF RequestDies
<1> QED
  BY <1>1, <1>2, <1>3, <1>4, <1>5, <1>6, <1>7, <1>8, <1>9, <1>10, <1>11, <1>12, <1>13 DEF RequestStep

LEMMA AccountStepType ==
    ASSUME AccountsTypeOK, NEW a \in Accounts, AccountStep(a)
    PROVE  AccountsTypeOK'
<1> USE TypeRestated, TypeRestatedNext
<1>0. Act => acts' \in 0 .. MaxActs
  BY DEF Act
<1>1. \A row : Sealed(a, row) \in [Accounts -> BOOLEAN]
  BY DEF Sealed, MayEnter
<1>2. CASE SuspendUser(a)
  <2>1. token' \in [Tokens -> TokType]
    BY <1>2, RevokeType DEF SuspendUser, RevokeAll
  <2> QED
    BY <1>0, <1>2, <2>1 DEF SuspendUser, UserRows, UserStatus
<1>3. CASE ReactivateUser(a)
  BY <1>0, <1>1, <1>3 DEF ReactivateUser, UserRows, UserStatus
<1>4. CASE ActivateAccounts(a)
  BY <1>0, <1>1, <1>4 DEF ActivateAccounts, UserRows, UserStatus
<1>5. CASE ListSessions(a)
  BY <1>0, <1>5 DEF ListSessions, BulkType, LiveTokens
<1>6. CASE SuspendAccounts(a)
  <2>1. token' \in [Tokens -> TokType]
    BY <1>6, RevokeType DEF SuspendAccounts
  <2> QED
    BY <1>6, <2>1 DEF SuspendAccounts, UserRows, UserStatus, BulkType, NotOpen
<1>7. CASE SuspensionBreaks(a)
  BY <1>7 DEF SuspensionBreaks, BulkType, NotOpen
<1> QED
  BY <1>2, <1>3, <1>4, <1>5, <1>6, <1>7 DEF AccountStep

LEMMA TypeInit == AccountsInit => AccountsTypeOK
<1>1. NoToken \in TokType /\ Unborn \in UserRows /\ NotOpen \in BulkType
  BY DEF NoToken, TokType, Holders, Unborn, UserRows, UserStatus, Phones, EmailStates, NotOpen, BulkType
<1> QED
  BY <1>1, IdleType, TypeRestated DEF AccountsInit, Holders

LEMMA TypeStep == AccountsTypeOK /\ [AccountsNext]_vars => AccountsTypeOK'
<1> SUFFICES ASSUME AccountsTypeOK, [AccountsNext]_vars
             PROVE  AccountsTypeOK'
  OBVIOUS
<1>1. CASE UNCHANGED vars
  BY <1>1, TypeRestated, TypeRestatedNext DEF vars
<1>2. ASSUME NEW t \in Tokens, Logout(t)
      PROVE  AccountsTypeOK'
  BY <1>2, RevokeType, TypeRestated, TypeRestatedNext DEF Logout
<1>3. ASSUME NEW p \in Providers, UnlinkIdentity(p)
      PROVE  AccountsTypeOK'
  BY <1>3, TypeRestated, TypeRestatedNext DEF UnlinkIdentity, Act, Holders
<1> QED
  BY <1>1, <1>2, <1>3, RequestStepType, AccountStepType DEF AccountsNext

\* Whoever acts, an account has one of its states, a token too, and a request
\* that goes on holds what it needs.
THEOREM AccountsTypeCorrect == AccountsSpec => []AccountsTypeOK
BY TypeInit, TypeStep, PTL DEF AccountsSpec
-----------------------------------------------------------------------------
(***************************************************************************)
(* Rotation.  What RotatedOnce says of tokens is not inductive: a request  *)
(* that has blacklisted a token and not yet issued its successor must be   *)
(* the only one, and no successor may exist.                               *)
(***************************************************************************)

Inherits(r, t) == At(r, "login") /\ req[r].from = t

OneHeir ==
    /\ \A r \in Requests, t \in Tokens : Inherits(r, t) =>
          token[t].state = "rotated" /\ \A s \in Tokens : token[s].from # t
    /\ \A q, r \in Requests, t \in Tokens : Inherits(q, t) /\ Inherits(r, t) => q = r

RotInv == AccountsTypeOK /\ RotatedOnce /\ OneHeir

LEMMA RotInit == AccountsInit => RotInv
<1> SUFFICES ASSUME AccountsInit  PROVE RotatedOnce /\ OneHeir
  BY TypeInit DEF RotInv
<1>1. \A t \in Tokens : token[t].from = 0 /\ t # 0
  BY DEF AccountsInit, NoToken, Tokens
<1>2. \A r \in Requests : ~At(r, "login")
  BY DEF AccountsInit, Idle, At
<1> QED
  BY <1>1, <1>2 DEF RotatedOnce, OneHeir, Inherits

\* A step that leaves the parents of tokens alone, revokes none that is rotated
\* and makes nobody an heir
LEMMA KeepsRotation ==
    ASSUME RotInv, AccountsTypeOK',
           \A t \in Tokens : /\ token'[t].from = token[t].from
                             /\ token[t].state = "rotated" => token'[t].state = "rotated",
           \A r \in Requests, t \in Tokens : Inherits(r, t)' => Inherits(r, t)
    PROVE  RotInv'
BY DEF RotInv, RotatedOnce, OneHeir, AccountsTypeOK

\* Revoking is such a step
LEMMA RevokeIs ==
    ASSUME AccountsTypeOK, NEW list, NEW t \in Tokens
    PROVE  /\ Revoke(list)[t].from = token[t].from /\ Revoke(list)[t].of = token[t].of
           /\ Revoke(list)[t].state = IF t \in list /\ token[t].state = "live"
                                      THEN "revoked" ELSE token[t].state
<1>1. token[t] \in TokType
  BY TypeRestated
<1>2. Revoke(list)[t] = IF t \in list /\ token[t].state = "live"
                        THEN [token[t] EXCEPT !.state = "revoked"] ELSE token[t]
  BY DEF Revoke
<1> QED
  BY <1>1, <1>2 DEF TokType

LEMMA RevokeRotation ==
    ASSUME RotInv, AccountsTypeOK', NEW list, token' = Revoke(list),
           \A r \in Requests, t \in Tokens : Inherits(r, t)' => Inherits(r, t)
    PROVE  RotInv'
<1>1. \A t \in Tokens : /\ token'[t].from = token[t].from
                        /\ token[t].state = "rotated" => token'[t].state = "rotated"
  BY RevokeIs DEF RotInv
<1> QED
  BY <1>1, KeepsRotation

\* The next thing a request does makes it no heir
LEMMA GotoNoHeir ==
    ASSUME RotInv, NEW r \in Requests, NEW next, Goto(r, next),
           next.at # "login" \/ next.from = 0
    PROVE  \A q \in Requests, t \in Tokens : Inherits(q, t)' => Inherits(q, t)
<1>1. \A t \in Tokens : t # 0
  BY DEF Tokens
<1>2. \A q \in Requests : req'[q] = IF q = r THEN next ELSE req[q]
  BY DEF RotInv, AccountsTypeOK, Goto
<1> QED
  BY <1>1, <1>2 DEF Inherits, At

LEMMA EntersNoHeir ==
    ASSUME RotInv, NEW r \in Requests, NEW a, Enters(r, a, 0)
    PROVE  \A q \in Requests, t \in Tokens : Inherits(q, t)' => Inherits(q, t)
<1>1. [Idle EXCEPT !.at = "login", !.who = a, !.from = 0].from = 0
  BY DEF Idle
<1> QED
  BY <1>1, GotoNoHeir DEF Enters

LEMMA IdleNoHeir == Idle.at # "login"
BY DEF Idle

\* What a request that goes on in another way than by Enters is at next
LEMMA NextAt ==
    /\ \A p : [Idle EXCEPT !.at = "searching", !.by = p].at = "searching"
    /\ \A a, t : /\ [Idle EXCEPT !.at = "refreshing", !.who = a, !.from = t].at = "refreshing"
                 /\ [Idle EXCEPT !.at = "refreshing", !.who = a, !.from = t].who = a
                 /\ [Idle EXCEPT !.at = "refreshing", !.who = a, !.from = t].from = t
    /\ \A a, e : [Idle EXCEPT !.at = "authenticated", !.who = a, !.email = e].at = "authenticated"
BY DEF Idle

LEMMA LinkingAt ==
    ASSUME NEW q \in ReqType, NEW e, NEW a
    PROVE  /\ [q EXCEPT !.at = "linking", !.email = e].at = "linking"
           /\ [q EXCEPT !.at = "linking", !.email = e].who = q.who
           /\ [q EXCEPT !.at = "linking", !.email = e].by = q.by
           /\ [q EXCEPT !.at = "linking", !.email = e, !.who = a].at = "linking"
           /\ [q EXCEPT !.at = "linking", !.email = e, !.who = a].who = a
           /\ [q EXCEPT !.at = "linking", !.email = e, !.who = a].by = q.by
BY DEF ReqType, ReqRows

\* The token that a request has blacklisted
LEMMA Blacklisted ==
    ASSUME AccountsTypeOK, NEW r \in Requests, BlacklistOld(r), MayRotate(req[r].from)
    PROVE  /\ req[r].from \in Tokens /\ token[req[r].from].state = "live"
           /\ \A t \in Tokens : /\ token'[t].from = token[t].from /\ token'[t].of = token[t].of
                                /\ token'[t].state = IF t = req[r].from THEN "rotated" ELSE token[t].state
<1> DEFINE old == req[r].from
<1>1. old \in Tokens /\ token[old].state = "live"
  BY DEF BlacklistOld, MayRotate, At, AccountsTypeOK
<1>2. token' = [token EXCEPT ![old].state = IF @ = "live" THEN "rotated" ELSE @]
  BY DEF BlacklistOld
<1>3. \A t \in Tokens : token'[t] = IF t = old THEN [token[t] EXCEPT !.state = "rotated"] ELSE token[t]
  BY <1>1, <1>2 DEF AccountsTypeOK
<1>4. \A t \in Tokens : token[t] \in TokType
  BY TypeRestated
<1> HIDE DEF old
<1>5. \A t \in Tokens : /\ token'[t].from = token[t].from /\ token'[t].of = token[t].of
                        /\ token'[t].state = IF t = old THEN "rotated" ELSE token[t].state
  BY <1>3, <1>4 DEF TokType
<1> QED
  BY <1>1, <1>5 DEF old

LEMMA RequestsRotate ==
    ASSUME RotInv, AccountsTypeOK', NEW r \in Requests, RequestStep(r)
    PROVE  RotInv'
<1>0. CASE /\ token' = token
           /\ \A q \in Requests, t \in Tokens : Inherits(q, t)' => Inherits(q, t)
  BY <1>0, KeepsRotation
<1>00. req[r] \in ReqType
  BY TypeRestated DEF RotInv
<1>1. CASE GetOrCreateUserByPhone(r)
  BY <1>0, <1>1, EntersNoHeir DEF GetOrCreateUserByPhone
<1>2. CASE \E p \in Providers : LoginWithProvider(r, p)
  BY <1>0, <1>2, EntersNoHeir, NextAt, GotoNoHeir DEF LoginWithProvider
<1>3. CASE FindByEmail(r)
  BY <1>0, <1>00, <1>3, LinkingAt, GotoNoHeir DEF FindByEmail
<1>4. CASE LinkFound(r) \/ LinkCreated(r) \/ LinkLost(r)
  BY <1>0, <1>4, EntersNoHeir DEF LinkFound, LinkCreated, LinkLost
<1>5. CASE \E t \in Tokens : RefreshToken(r, t)
  BY <1>0, <1>5, NextAt, GotoNoHeir DEF RefreshToken
<1>6. CASE BlacklistOld(r)
  <2>1. CASE ~MayRotate(req[r].from)
    BY <1>0, <1>6, <2>1, GotoNoHeir, IdleNoHeir DEF BlacklistOld
  <2>2. CASE MayRotate(req[r].from)
    <3> DEFINE old == req[r].from
    <3>1. old \in Tokens /\ token[old].state = "live"
      BY <1>6, <2>2, Blacklisted DEF RotInv
    <3>2. \A t \in Tokens : /\ token'[t].from = token[t].from
                            /\ token'[t].state = IF t = old THEN "rotated" ELSE token[t].state
      BY <1>6, <2>2, Blacklisted DEF RotInv
    <3>3. \A q \in Requests : req'[q] = IF q = r THEN [Idle EXCEPT !.at = "login", !.who = req[r].who, !.from = old]
                                                 ELSE req[q]
      BY <1>6, <2>2 DEF BlacklistOld, Enters, Goto, RotInv, AccountsTypeOK
    <3>4. \A q \in Requests, t \in Tokens : Inherits(q, t)' => Inherits(q, t) \/ (q = r /\ t = old)
      BY <3>3 DEF Inherits, At, Idle
    <3>5. /\ \A q \in Requests : ~Inherits(q, old)
          /\ \A s \in Tokens : token[s].from # old
      BY <3>1 DEF RotInv, OneHeir, RotatedOnce
    <3>6. RotatedOnce'
      BY <3>2 DEF RotInv, RotatedOnce
    <3>7. OneHeir'
      BY <3>1, <3>2, <3>4, <3>5 DEF RotInv, OneHeir
    <3> QED
      BY <3>6, <3>7 DEF RotInv
  <2> QED
    BY <2>1, <2>2
<1>7. CASE IssueTokens(r)
  <2> PICK t \in FreeToken :
        token' = [token EXCEPT ![t] = [state |-> "live", of |-> req[r].who, from |-> req[r].from]]
    BY <1>7 DEF IssueTokens
  <2>1. t \in Tokens /\ token[t].state = "none" /\ At(r, "login")
    BY <1>7 DEF FreeToken, IssueTokens
  <2>2. \A s \in Tokens : /\ token'[s].from = IF s = t THEN req[r].from ELSE token[s].from
                          /\ token'[s].state = IF s = t THEN "live" ELSE token[s].state
    BY <2>1 DEF RotInv, AccountsTypeOK
  <2>3. \A q \in Requests : req'[q] = IF q = r THEN Idle ELSE req[q]
    BY <1>7 DEF IssueTokens, Goto, RotInv, AccountsTypeOK
  <2>4. \A q \in Requests, s \in Tokens : Inherits(q, s)' => Inherits(q, s) /\ q # r
    BY <2>3 DEF Inherits, At, Idle
  <2>5. /\ \A s \in Tokens : token[s].from # t
        /\ \A q \in Requests : ~Inherits(q, t)
    BY <2>1 DEF RotInv, OneHeir, RotatedOnce
  <2>6. req[r].from \in Tokens =>
            /\ token[req[r].from].state = "rotated" /\ req[r].from # t
            /\ \A s \in Tokens : token[s].from # req[r].from
            /\ \A q \in Requests : Inherits(q, req[r].from) => q = r
    BY <2>1 DEF RotInv, OneHeir, Inherits
  <2>7. req[r].from = 0 \/ req[r].from \in Tokens
    BY DEF RotInv, AccountsTypeOK, Tokens
  <2>8. 0 \notin Tokens
    BY DEF Tokens
  <2>9. RotatedOnce'
    BY <2>1, <2>2, <2>5, <2>6, <2>7, <2>8 DEF RotInv, RotatedOnce
  <2>10. OneHeir'
    BY <2>1, <2>2, <2>4, <2>5, <2>6, <2>7, <2>8 DEF RotInv, OneHeir
  <2> QED
    BY <2>9, <2>10 DEF RotInv
<1>8. CASE \E a \in Accounts : Authenticate(r, a)
  BY <1>0, <1>8, NextAt, GotoNoHeir DEF Authenticate
<1>9. CASE UpdateOwnProfile(r)
  BY <1>0, <1>9, GotoNoHeir, IdleNoHeir DEF UpdateOwnProfile
<1>10. CASE DeleteAccount(r)
  BY <1>10, GotoNoHeir, IdleNoHeir, RevokeRotation DEF DeleteAccount, RevokeAll
<1>11. CASE RequestDies(r)
  BY <1>0, <1>11, GotoNoHeir, IdleNoHeir DEF RequestDies
<1> QED
  BY <1>1, <1>2, <1>3, <1>4, <1>5, <1>6, <1>7, <1>8, <1>9, <1>10, <1>11 DEF RequestStep

\* All others leave the requests alone, and revoke some tokens or none
LEMMA OthersRevoke ==
    ASSUME \/ \E a \in Accounts : AccountStep(a)
           \/ \E t \in Tokens : Logout(t)
           \/ \E p \in Providers : UnlinkIdentity(p)
    PROVE  req' = req /\ (token' = token \/ \E list : token' = Revoke(list))
<1>1. ASSUME NEW a \in Accounts, AccountStep(a)
      PROVE  req' = req /\ (token' = token \/ \E list : token' = Revoke(list))
  BY <1>1 DEF AccountStep, SuspendUser, ReactivateUser, ActivateAccounts, ListSessions,
     SuspendAccounts, SuspensionBreaks, RevokeAll
<1> QED
  BY <1>1 DEF Logout, UnlinkIdentity

LEMMA RotStep == RotInv /\ [AccountsNext]_vars => RotInv'
<1> SUFFICES ASSUME RotInv, [AccountsNext]_vars
             PROVE  RotInv'
  OBVIOUS
<1>0. AccountsTypeOK'
  BY TypeStep DEF RotInv
<1>1. CASE req' = req /\ token' = token
  BY <1>0, <1>1, KeepsRotation DEF Inherits, At
<1>2. ASSUME req' = req, NEW list, token' = Revoke(list)
      PROVE  RotInv'
  BY <1>0, <1>2, RevokeRotation DEF Inherits, At
<1>3. CASE \E r \in Requests : RequestStep(r)
  BY <1>0, <1>3, RequestsRotate
<1> QED
  BY <1>1, <1>2, <1>3, OthersRevoke DEF AccountsNext, vars

\* However many requests present a refresh token at once, while others revoke
\* it: one pair at most comes of it, and only of one that is blacklisted.
THEOREM TokensRotateOnce == AccountsSpec => []RotatedOnce
<1>1. RotInv => RotatedOnce
  BY DEF RotInv
<1> QED
  BY <1>1, RotInit, RotStep, PTL DEF AccountsSpec
-----------------------------------------------------------------------------
(***************************************************************************)
(* Who is shut out keeps few sessions.                                     *)
(*                                                                         *)
(* Near an account that is shut out are the workers about to issue it a    *)
(* token, those that found it by its address before (Finders), and those   *)
(* whose identity is linked to it by now, which are let into it whoever    *)
(* they are.  A finder that links its identity brings those near that show *)
(* the same identity, but of the other finders none that is not near       *)
(* already: with F finders among R workers, R - F at most.  It is no       *)
(* finder any more, so that the F finders left can bring                   *)
(*     (R - F) + (R - F + 1) + ... + (R - 1)                               *)
(* at most, twice which is Worth(F).  No one else comes near, and a token  *)
(* costs a worker that was near or an older token.                         *)
(***************************************************************************)

R == Cardinality(Requests)

Coming(a)  == {r \in Requests : At(r, "login") /\ req[r].who = a}
Finders(a) == {r \in Requests : At(r, "linking") /\ req[r].who = a}
Near(a)    == Coming(a) \union Finders(a)
              \union {r \in Requests : req[r].at \in {"searching", "linking"} /\ link[req[r].by] = a}

Worth(f) == 2 * R * f - f * (f + 1)

Few(a) == 2 * Cardinality(LiveTokens(a)) + 2 * Cardinality(Near(a)) + Worth(Cardinality(Finders(a)))
             <= R * (R + 1)

\* A refresh goes on for the account of the token it presented
RefreshesOwn ==
    \A r \in Requests : At(r, "refreshing") =>
        token[req[r].from].state # "none" /\ token[req[r].from].of = req[r].who

SearchesAnew == \A r \in Requests : At(r, "searching") => req[r].who = Nobody

ShutOut(a) == user[a].status # "none" /\ ~MayEnter(user[a])

FewInv ==
    /\ AccountsTypeOK /\ RefreshesOwn /\ SearchesAnew
    /\ \A a \in Accounts : sealed[a] => ShutOut(a) /\ Few(a)

(* Arithmetic *)

LEMMA WorthGrows ==
    ASSUME NEW n \in Nat, NEW f \in Nat, NEW g \in Nat, g <= f, f <= n
    PROVE  2 * n * g - g * (g + 1) <= 2 * n * f - f * (f + 1)
<1> DEFINE k == f - g
           m == n - f
<1>1. k \in Nat /\ m \in Nat /\ f = g + k /\ n = g + k + m
  OBVIOUS
<1> HIDE DEF k, m
<1>2. k * k >= k /\ k * m >= 0
  BY <1>1
<1>3. (2 * n * f - f * (f + 1)) - (2 * n * g - g * (g + 1)) = k * k - k + 2 * (k * m)
  BY <1>1
<1> QED
  BY <1>1, <1>2, <1>3

LEMMA WorthOfOne ==
    ASSUME NEW n \in Nat, NEW f \in Nat
    PROVE  (2 * n * f - f * (f + 1)) - (2 * n * (f - 1) - (f - 1) * f) = 2 * n - 2 * f
OBVIOUS

LEMMA WorthAtFirst ==
    ASSUME NEW n \in Nat, NEW f \in Nat, f <= n
    PROVE  2 * n + (2 * n * f - f * (f + 1)) <= n * (n + 1)
<1> DEFINE d == n - f
<1>1. d \in Nat /\ n = f + d
  OBVIOUS
<1> HIDE DEF d
<1>2. d * d >= d
  BY <1>1
<1>3. n * (n + 1) - (2 * n + (2 * n * f - f * (f + 1))) = d * d - d
  BY <1>1
<1> QED
  BY <1>1, <1>2, <1>3


(* Counting *)

LEMMA Shrinks ==
    ASSUME NEW S, NEW T, IsFiniteSet(S), T \subseteq S
    PROVE  Cardinality(T) \in Nat /\ Cardinality(S) \in Nat /\ Cardinality(T) <= Cardinality(S)
BY FS_Subset, FS_CardinalityType

LEMMA OneMore ==
    ASSUME NEW S, NEW T, NEW x, IsFiniteSet(S), T \subseteq S \union {x}
    PROVE  Cardinality(T) \in Nat /\ Cardinality(S) \in Nat /\ Cardinality(T) <= Cardinality(S) + 1
<1>1. IsFiniteSet(S \union {x}) /\ Cardinality(S) \in Nat
  BY FS_AddElement, FS_CardinalityType
<1>2. Cardinality(S \union {x}) <= Cardinality(S) + 1
  BY <1>1, FS_AddElement
<1>3. Cardinality(T) \in Nat /\ Cardinality(S \union {x}) \in Nat
      /\ Cardinality(T) <= Cardinality(S \union {x})
  BY <1>1, Shrinks
<1> QED
  BY <1>1, <1>2, <1>3

LEMMA OneLess ==
    ASSUME NEW S, NEW T, NEW x \in S, IsFiniteSet(S), T \subseteq S \ {x}
    PROVE  Cardinality(T) \in Nat /\ Cardinality(S) \in Nat /\ Cardinality(T) <= Cardinality(S) - 1
<1>1. IsFiniteSet(S \ {x}) /\ Cardinality(S \ {x}) = Cardinality(S) - 1 /\ Cardinality(S) \in Nat
  BY FS_RemoveElement, FS_CardinalityType
<1>2. Cardinality(T) \in Nat /\ Cardinality(T) <= Cardinality(S \ {x})
  BY <1>1, Shrinks
<1> QED
  BY <1>1, <1>2

\* What comes to A inside S is outside of a part F of A
LEMMA Newcomers ==
    ASSUME NEW S, NEW A, NEW B, NEW F, IsFiniteSet(S), A \subseteq S, B \subseteq S, F \subseteq A
    PROVE  Cardinality(B) <= Cardinality(A) + (Cardinality(S) - Cardinality(F))
<1>1. IsFiniteSet(A) /\ IsFiniteSet(B) /\ IsFiniteSet(F) /\ IsFiniteSet(S \ F)
  BY FS_Subset
<1>2. Cardinality(A) \in Nat /\ Cardinality(B) \in Nat /\ Cardinality(F) \in Nat
      /\ Cardinality(S) \in Nat /\ Cardinality(S \ F) \in Nat
  BY <1>1, FS_CardinalityType
<1>3. Cardinality(S \ F) = Cardinality(S) - Cardinality(F)
  <2>1. S \intersect F = F
    OBVIOUS
  <2> QED
    BY <1>1, <2>1, FS_Difference
<1>4. IsFiniteSet(A \union (S \ F)) /\ Cardinality(A \union (S \ F)) <= Cardinality(A) + Cardinality(S \ F)
  <2> DEFINE D == S \ F
  <2> HIDE DEF D
  <2>1. IsFiniteSet(D) /\ Cardinality(D) \in Nat
    BY <1>1, <1>2 DEF D
  <2>2. A \intersect D \subseteq A
    OBVIOUS
  <2>3. Cardinality(A \intersect D) \in Nat
    BY <1>1, <2>2, Shrinks
  <2>4. IsFiniteSet(A \union D) /\ Cardinality(A \union D) = Cardinality(A) + Cardinality(D) - Cardinality(A \intersect D)
    BY <1>1, <2>1, FS_Union
  <2> QED
    BY <1>2, <2>1, <2>3, <2>4 DEF D
<1>5. B \subseteq A \union (S \ F)
  OBVIOUS
<1>6. Cardinality(B) <= Cardinality(A \union (S \ F)) /\ Cardinality(A \union (S \ F)) \in Nat
  BY <1>4, <1>5, Shrinks
<1> QED
  BY <1>2, <1>3, <1>4, <1>6

\* What is counted is finite, before a step and after it
LEMMA Counted ==
    ASSUME NEW a
    PROVE  /\ IsFiniteSet(LiveTokens(a)) /\ IsFiniteSet(Near(a)) /\ IsFiniteSet(Finders(a))
           /\ Cardinality(LiveTokens(a)) \in Nat /\ Cardinality(Near(a)) \in Nat
           /\ Cardinality(Finders(a)) \in Nat /\ R \in Nat
           /\ Cardinality(Finders(a)) <= R /\ Cardinality(Near(a)) <= R
<1>1. IsFiniteSet(Tokens)
  BY FS_Interval DEF Tokens
<1>2. LiveTokens(a) \subseteq Tokens /\ Near(a) \subseteq Requests /\ Finders(a) \subseteq Requests
  BY DEF LiveTokens, Near, Coming, Finders
<1>3. IsFiniteSet(LiveTokens(a)) /\ IsFiniteSet(Near(a)) /\ IsFiniteSet(Finders(a))
  BY <1>1, <1>2, RequestsAssumption, FS_Subset
<1> QED
  BY <1>2, <1>3, RequestsAssumption, FS_CardinalityType, Shrinks DEF R

LEMMA CountedNext ==
    ASSUME NEW a
    PROVE  /\ Cardinality(LiveTokens(a)') \in Nat /\ Cardinality(Near(a)') \in Nat
           /\ Cardinality(Finders(a)') \in Nat
           /\ Cardinality(Finders(a)') <= R /\ Cardinality(Near(a)') <= R
<1>1. IsFiniteSet(Tokens)
  BY FS_Interval DEF Tokens
<1>2. LiveTokens(a)' \subseteq Tokens /\ Near(a)' \subseteq Requests /\ Finders(a)' \subseteq Requests
  BY DEF LiveTokens, Near, Coming, Finders
<1>3. IsFiniteSet(LiveTokens(a)')
  BY <1>1, <1>2, FS_Subset
<1> QED
  BY <1>2, <1>3, RequestsAssumption, FS_CardinalityType, Shrinks DEF R

\* The sum, as numbers
LEMMA FewSum ==
    ASSUME NEW v \in Nat, NEW n \in Nat, NEW f \in Nat, NEW w \in Nat, NEW m \in Nat, NEW g \in Nat,
           R \in Nat, f <= R,
           2 * v + 2 * n + Worth(f) <= R * (R + 1),
           w + m <= v + n /\ g <= f
    PROVE  2 * w + 2 * m + Worth(g) <= R * (R + 1)
<1>1. Worth(g) <= Worth(f)
  BY WorthGrows DEF Worth
<1>2. Worth(g) \in Int /\ Worth(f) \in Int /\ R * (R + 1) \in Int
  BY DEF Worth
<1> HIDE DEF Worth
<1> QED
  BY <1>1, <1>2

\* Nobody gets nearer to the account
LEMMA FewKept ==
    ASSUME NEW a, Few(a), LiveTokens(a)' \subseteq LiveTokens(a), Near(a)' \subseteq Near(a),
           Finders(a)' \subseteq Finders(a)
    PROVE  Few(a)'
<1>1. /\ Cardinality(LiveTokens(a)') <= Cardinality(LiveTokens(a))
      /\ Cardinality(Near(a)') <= Cardinality(Near(a))
      /\ Cardinality(Finders(a)') <= Cardinality(Finders(a))
  BY Counted, Shrinks
<1> QED
  BY <1>1, Counted, CountedNext, FewSum DEF Few, R, Worth

\* Somebody near gets a token, or comes near for one
LEMMA FewMoved ==
    ASSUME NEW a, Few(a), NEW x, NEW y, Finders(a)' \subseteq Finders(a),
           \/ /\ LiveTokens(a)' \subseteq LiveTokens(a) \union {x}
              /\ y \in Near(a) /\ Near(a)' \subseteq Near(a) \ {y}
           \/ /\ Near(a)' \subseteq Near(a) \union {x}
              /\ y \in LiveTokens(a) /\ LiveTokens(a)' \subseteq LiveTokens(a) \ {y}
    PROVE  Few(a)'
<1>1. Cardinality(Finders(a)') <= Cardinality(Finders(a))
  BY Counted, Shrinks
<1>2. Cardinality(LiveTokens(a)') + Cardinality(Near(a)')
        <= Cardinality(LiveTokens(a)) + Cardinality(Near(a))
  <2>1. CASE /\ LiveTokens(a)' \subseteq LiveTokens(a) \union {x}
             /\ y \in Near(a) /\ Near(a)' \subseteq Near(a) \ {y}
    <3>1. Cardinality(LiveTokens(a)') <= Cardinality(LiveTokens(a)) + 1
      BY <2>1, Counted, OneMore
    <3>2. Cardinality(Near(a)') <= Cardinality(Near(a)) - 1
      BY <2>1, Counted, OneLess
    <3> QED
      BY <3>1, <3>2, Counted, CountedNext
  <2>2. CASE /\ Near(a)' \subseteq Near(a) \union {x}
             /\ y \in LiveTokens(a) /\ LiveTokens(a)' \subseteq LiveTokens(a) \ {y}
    <3>1. Cardinality(Near(a)') <= Cardinality(Near(a)) + 1
      BY <2>2, Counted, OneMore
    <3>2. Cardinality(LiveTokens(a)') <= Cardinality(LiveTokens(a)) - 1
      BY <2>2, Counted, OneLess
    <3> QED
      BY <3>1, <3>2, Counted, CountedNext
  <2> QED
    BY <2>1, <2>2
<1> QED
  BY <1>1, <1>2, Counted, CountedNext, FewSum DEF Few, R, Worth

\* The finder links its identity to the account, and others may follow
LEMMA FewFollow ==
    ASSUME NEW a, Few(a), NEW r \in Finders(a), LiveTokens(a)' \subseteq LiveTokens(a),
           Finders(a)' \subseteq Finders(a) \ {r}
    PROVE  Few(a)'
<1> DEFINE v == Cardinality(LiveTokens(a))  w == Cardinality(LiveTokens(a)')
           n == Cardinality(Near(a))        m == Cardinality(Near(a)')
           f == Cardinality(Finders(a))     g == Cardinality(Finders(a)')
<1>1. w <= v /\ g <= f - 1
  BY Counted, Shrinks, OneLess
<1>2. m <= n + (R - f)
  <2>1. Finders(a) \subseteq Near(a) /\ Near(a) \subseteq Requests /\ Near(a)' \subseteq Requests
    BY DEF Near, Coming, Finders
  <2> QED
    BY <2>1, RequestsAssumption, Newcomers DEF R
<1>3. /\ v \in Nat /\ w \in Nat /\ n \in Nat /\ m \in Nat /\ f \in Nat /\ g \in Nat
      /\ R \in Nat /\ f <= R
  BY Counted, CountedNext
<1>4. 2 * v + 2 * n + Worth(f) <= R * (R + 1)
  BY DEF Few
<1> HIDE DEF v, w, n, m, f, g
<1>5. Worth(g) <= Worth(f - 1)
  BY <1>1, <1>3, WorthGrows DEF Worth
<1>6. Worth(f) - Worth(f - 1) = 2 * R - 2 * f
  BY <1>3, WorthOfOne DEF Worth
<1>7. Worth(g) \in Int /\ Worth(f) \in Int /\ Worth(f - 1) \in Int /\ R * (R + 1) \in Int
  BY <1>3 DEF Worth
<1>8. 2 * w + 2 * m + Worth(g) <= R * (R + 1)
  <2> HIDE DEF Worth
  <2> QED
    BY <1>1, <1>2, <1>3, <1>4, <1>5, <1>6, <1>7
<1> QED
  BY <1>8 DEF Few, w, m, g, Worth, R

\* An account that is being shut out has its sessions revoked
LEMMA FewAtFirst ==
    ASSUME NEW a, LiveTokens(a)' = {}
    PROVE  Few(a)'
<1> DEFINE w == Cardinality(LiveTokens(a)')
           m == Cardinality(Near(a)')
           g == Cardinality(Finders(a)')
<1>1. w = 0 /\ m \in Nat /\ g \in Nat /\ R \in Nat /\ m <= R /\ g <= R
  BY FS_EmptySet, Counted, CountedNext
<1> HIDE DEF w, m, g
<1>2. 2 * R + Worth(g) <= R * (R + 1)
  BY <1>1, WorthAtFirst DEF Worth
<1>3. Worth(g) \in Int /\ R * (R + 1) \in Int
  BY <1>1 DEF Worth
<1>4. 2 * w + 2 * m + Worth(g) <= R * (R + 1)
  <2> HIDE DEF Worth
  <2> QED
    BY <1>1, <1>2, <1>3
<1> QED
  BY <1>4 DEF Few, w, m, g, Worth, R

(* Steps *)

\* Where a request that goes on is counted, where no identity is linked to the account
LEMMA GotoCounts ==
    ASSUME AccountsTypeOK, NEW r \in Requests, NEW next, Goto(r, next), NEW a,
           \A p \in Providers : link'[p] = a => link[p] = a
    PROVE  /\ Near(a)' \subseteq Near(a) \union {r}
           /\ next.at # "linking" \/ next.who # a => Finders(a)' \subseteq Finders(a) \ {r}
           /\ /\ next.at \notin {"login", "linking"} \/ next.who # a
              /\ next.at \notin {"searching", "linking"} \/ link'[next.by] # a
              => Near(a)' \subseteq Near(a) \ {r}
<1>1. \A q \in Requests : req'[q] = IF q = r THEN next ELSE req[q]
  BY DEF AccountsTypeOK, Goto
<1>2. \A q \in Requests : req[q].at \in {"searching", "linking"} => req[q].by \in Providers
  BY DEF AccountsTypeOK
<1> QED
  BY <1>1, <1>2 DEF Near, Coming, Finders, At

\* A step of a request that neither enters, finds nor follows
LEMMA Leaves ==
    ASSUME AccountsTypeOK, NEW r \in Requests, NEW next, Goto(r, next), NEW a, Few(a),
           next.at \notin {"login", "linking", "searching"},
           \A p \in Providers : link'[p] = a => link[p] = a,
           LiveTokens(a)' \subseteq LiveTokens(a)
    PROVE  Few(a)'
BY GotoCounts, FewKept

LEMMA EntersNext ==
    ASSUME NEW r, NEW b, NEW t, Enters(r, b, t)
    PROVE  \E next : Goto(r, next) /\ next.at = "login" /\ next.who = b
<1> DEFINE next == [Idle EXCEPT !.at = "login", !.who = b, !.from = t]
<1>1. next.at = "login" /\ next.who = b
  BY DEF Idle
<1>2. Goto(r, next)
  BY DEF Enters
<1> HIDE DEF next
<1> QED
  BY <1>1, <1>2

LEMMA EntersCounts ==
    ASSUME AccountsTypeOK, NEW r \in Requests, NEW b, NEW t, Enters(r, b, t), NEW a,
           \A p \in Providers : link'[p] = a => link[p] = a
    PROVE  /\ Near(a)' \subseteq Near(a) \union {r} /\ Finders(a)' \subseteq Finders(a) \ {r}
           /\ b # a => Near(a)' \subseteq Near(a) \ {r}
BY EntersNext, GotoCounts

\* A step of a request that enters another account
LEMMA EntersOther ==
    ASSUME AccountsTypeOK, NEW r \in Requests, NEW b, NEW t, Enters(r, b, t), NEW a, b # a, Few(a),
           \A p \in Providers : link'[p] = a => link[p] = a,
           LiveTokens(a)' \subseteq LiveTokens(a)
    PROVE  Few(a)'
BY EntersCounts, FewKept

\* A step of a request that was near already
LEMMA EntersNear ==
    ASSUME AccountsTypeOK, NEW r \in Requests, NEW b, NEW t, Enters(r, b, t), NEW a, r \in Near(a), Few(a),
           \A p \in Providers : link'[p] = a => link[p] = a,
           LiveTokens(a)' \subseteq LiveTokens(a)
    PROVE  Few(a)'
BY EntersCounts, FewKept

LEMMA RevokesSome ==
    ASSUME AccountsTypeOK, NEW list, token' = Revoke(list), NEW a
    PROVE  /\ LiveTokens(a)' \subseteq LiveTokens(a)
           /\ LiveTokens(a) \subseteq list => LiveTokens(a)' = {}
BY RevokeIs DEF LiveTokens

\* A request that has not found an account which is shut out does not find it now
LEMMA FindsOther ==
    ASSUME FewInv, NEW r \in Requests, FindByEmail(r), NEW a \in Accounts, ShutOut(a), Few(a)
    PROVE  Few(a)'
<1>0. AccountsTypeOK /\ a # Nobody /\ req[r] \in ReqType /\ At(r, "searching") /\ req[r].who = Nobody
  BY TypeRestated DEF FewInv, SearchesAnew, FindByEmail
<1>1. link' = link /\ LiveTokens(a)' = LiveTokens(a)
  BY DEF FindByEmail, LiveTokens
<1>2. PICK next : Goto(r, next) /\ next.at = "linking" /\ next.who # a /\ next.by = req[r].by
  <2>1. PICK email \in EmailStates \ {"none"} :
          \/ Goto(r, [req[r] EXCEPT !.at = "linking", !.email = email])
          \/ \E b \in Linkable(email) :
               /\ CanLogin(b)
               /\ Goto(r, [req[r] EXCEPT !.at = "linking", !.email = email, !.who = b])
    BY DEF FindByEmail
  <2>2. CASE Goto(r, [req[r] EXCEPT !.at = "linking", !.email = email])
    <3> DEFINE next == [req[r] EXCEPT !.at = "linking", !.email = email]
    <3>1. Goto(r, next) /\ next.at = "linking" /\ next.who # a /\ next.by = req[r].by
      BY <1>0, <2>2, LinkingAt
    <3> HIDE DEF next
    <3> QED
      BY <3>1
  <2>3. ASSUME NEW b, CanLogin(b), Goto(r, [req[r] EXCEPT !.at = "linking", !.email = email, !.who = b])
        PROVE  \E next : Goto(r, next) /\ next.at = "linking" /\ next.who # a /\ next.by = req[r].by
    <3> DEFINE next == [req[r] EXCEPT !.at = "linking", !.email = email, !.who = b]
    <3>1. Goto(r, next) /\ next.at = "linking" /\ next.who = b /\ next.by = req[r].by
      BY <1>0, <2>3, LinkingAt
    <3>2. b # a
      BY <2>3 DEF CanLogin, ShutOut
    <3> HIDE DEF next
    <3> QED
      BY <3>1, <3>2
  <2> QED
    BY <2>1, <2>2, <2>3
<1>3. Near(a)' \subseteq Near(a) \union {r} /\ Finders(a)' \subseteq Finders(a)
      /\ (link[req[r].by] # a => Near(a)' \subseteq Near(a) \ {r})
  BY <1>0, <1>1, <1>2, GotoCounts
<1>4. link[req[r].by] = a => r \in Near(a)
  BY <1>0 DEF Near, At
<1> QED
  BY <1>1, <1>3, <1>4, FewKept

\* What a request writes of an identity
LEMMA LinksFew ==
    ASSUME FewInv, NEW r \in Requests, LinkFound(r) \/ LinkCreated(r) \/ LinkLost(r),
           NEW a \in Accounts, ShutOut(a), Few(a)
    PROVE  Few(a)'
<1> DEFINE p == req[r].by
<1>0. AccountsTypeOK /\ a # Nobody /\ At(r, "linking") /\ p \in Providers
  BY DEF FewInv, AccountsTypeOK, LinkFound, LinkCreated, LinkLost, At
<1>1. LiveTokens(a)' = LiveTokens(a)
  BY DEF LinkFound, LinkCreated, LinkLost, LiveTokens
<1> HIDE DEF p
<1>2. CASE LinkFound(r)
  <2>1. /\ link' = [link EXCEPT ![p] = req[r].who] /\ Enters(r, req[r].who, 0)
    BY <1>2 DEF LinkFound, p
  <2>2. \A q \in Providers : link'[q] = IF q = p THEN req[r].who ELSE link[q]
    BY <1>0, <2>1 DEF AccountsTypeOK
  <2>3. CASE req[r].who # a
    BY <1>0, <1>1, <2>1, <2>2, <2>3, EntersOther
  <2>4. CASE req[r].who = a
    <3>1. r \in Finders(a)
      BY <1>0, <2>4 DEF Finders
    <3>2. PICK next : Goto(r, next) /\ next.at = "login"
      BY <2>1, EntersNext
    <3>3. \A q \in Requests : req'[q] = IF q = r THEN next ELSE req[q]
      BY <1>0, <3>2 DEF AccountsTypeOK, Goto
    <3>4. Finders(a)' \subseteq Finders(a) \ {r}
      BY <3>2, <3>3 DEF Finders, At
    <3> QED
      BY <1>1, <3>1, <3>4, FewFollow
  <2> QED
    BY <2>3, <2>4
<1>3. CASE LinkCreated(r)
  <2> PICK b \in Accounts : CreateForIdentity(r, b) /\ link' = [link EXCEPT ![p] = b] /\ Enters(r, b, 0)
    BY <1>3 DEF LinkCreated, p
  <2>1. b # a
    BY DEF ShutOut, CreateForIdentity, CreateUser
  <2>2. \A q \in Providers : link'[q] = a => link[q] = a
    BY <1>0, <2>1 DEF AccountsTypeOK
  <2> QED
    BY <1>0, <1>1, <2>1, <2>2, EntersOther
<1>4. CASE LinkLost(r)
  <2>1. link' = link /\ Enters(r, link[p], 0)
    BY <1>4 DEF LinkLost, p
  <2>2. CASE link[p] # a
    BY <1>0, <1>1, <2>1, <2>2, EntersOther
  <2>3. CASE link[p] = a
    <3>1. r \in Near(a)
      BY <1>0, <2>3 DEF Near, At, p
    <3> QED
      BY <1>0, <1>1, <2>1, <3>1, EntersNear
  <2> QED
    BY <2>2, <2>3
<1> QED
  BY <1>2, <1>3, <1>4

LEMMA RotatesFew ==
    ASSUME FewInv, NEW r \in Requests, BlacklistOld(r), NEW a \in Accounts, Few(a)
    PROVE  Few(a)'
<1> DEFINE old == req[r].from
<1>0. AccountsTypeOK /\ link' = link /\ Idle.at = "idle"
  BY DEF FewInv, BlacklistOld, Idle
<1>1. old \in Tokens /\ token[old].of = req[r].who
  BY DEF FewInv, RefreshesOwn, BlacklistOld, AccountsTypeOK, At
<1>2. CASE ~MayRotate(old)
  <2>1. Goto(r, Idle) /\ LiveTokens(a)' = LiveTokens(a)
    BY <1>2 DEF BlacklistOld, LiveTokens
  <2> QED
    BY <1>0, <2>1, Leaves
<1>3. CASE MayRotate(old)
  <2>1. Enters(r, req[r].who, old) /\ token[old].state = "live"
    BY <1>3 DEF BlacklistOld, MayRotate
  <2>2. LiveTokens(a)' \subseteq LiveTokens(a) \ {old}
    BY <1>0, <1>3, Blacklisted DEF LiveTokens
  <2>3. CASE req[r].who # a
    BY <1>0, <2>1, <2>2, <2>3, EntersOther
  <2>4. CASE req[r].who = a
    <3>1. old \in LiveTokens(a)
      BY <1>1, <2>1, <2>4 DEF LiveTokens
    <3>2. Near(a)' \subseteq Near(a) \union {r} /\ Finders(a)' \subseteq Finders(a)
      BY <1>0, <2>1, EntersCounts
    <3> QED
      BY <2>2, <3>1, <3>2, FewMoved
  <2> QED
    BY <2>3, <2>4
<1> QED
  BY <1>2, <1>3

LEMMA IssuesFew ==
    ASSUME FewInv, NEW r \in Requests, IssueTokens(r), NEW a \in Accounts, Few(a)
    PROVE  Few(a)'
<1>0. AccountsTypeOK /\ link' = link /\ Goto(r, Idle) /\ Idle.at = "idle"
  BY DEF FewInv, IssueTokens, Idle
<1> PICK t \in FreeToken :
        token' = [token EXCEPT ![t] = [state |-> "live", of |-> req[r].who, from |-> req[r].from]]
  BY DEF IssueTokens
<1>1. \A s \in Tokens : token'[s] = IF s = t THEN [state |-> "live", of |-> req[r].who, from |-> req[r].from]
                                             ELSE token[s]
  BY <1>0 DEF AccountsTypeOK, FreeToken
<1>2. CASE req[r].who # a
  <2>1. LiveTokens(a)' \subseteq LiveTokens(a)
    BY <1>1, <1>2 DEF LiveTokens
  <2> QED
    BY <1>0, <2>1, Leaves
<1>3. CASE req[r].who = a
  <2>1. LiveTokens(a)' \subseteq LiveTokens(a) \union {t}
    BY <1>1 DEF LiveTokens
  <2>2. r \in Near(a)
    BY <1>3 DEF IssueTokens, Near, Coming
  <2>3. Near(a)' \subseteq Near(a) \ {r} /\ Finders(a)' \subseteq Finders(a)
    BY <1>0, GotoCounts
  <2> QED
    BY <2>1, <2>2, <2>3, FewMoved
<1> QED
  BY <1>2, <1>3

\* The account that is deleted has no session left; of others nothing changes
LEMMA DeletesFew ==
    ASSUME FewInv, NEW r \in Requests, DeleteAccount(r), NEW a \in Accounts,
           sealed'[a]
    PROVE  ShutOut(a)' /\ Few(a)'
<1>0. AccountsTypeOK /\ Goto(r, Idle) /\ Idle.at = "idle" /\ req[r].who \in Accounts
  BY DEF FewInv, DeleteAccount, Idle, At, AccountsTypeOK
<1>1. token' = Revoke(LiveTokens(req[r].who))
  BY DEF DeleteAccount, RevokeAll
<1>2. CASE a = req[r].who
  <2>1. user'[a] = [Unborn EXCEPT !.status = "DELETED"]
    BY <1>0, <1>2 DEF DeleteAccount, AccountsTypeOK
  <2>2. ShutOut(a)'
    BY <2>1 DEF ShutOut, Unborn, MayEnter
  <2>3. LiveTokens(a)' = {}
    BY <1>0, <1>1, <1>2, RevokesSome
  <2> QED
    BY <2>2, <2>3, FewAtFirst
<1>3. CASE a # req[r].who
  <2>1. user'[a] = user[a] /\ sealed[a]
    BY <1>0, <1>3 DEF DeleteAccount, AccountsTypeOK
  <2>2. \A p \in Providers : link'[p] = a => link[p] = a
    BY DEF DeleteAccount, Freed
  <2>3. LiveTokens(a)' \subseteq LiveTokens(a)
    BY <1>0, <1>1, RevokesSome
  <2>4. ShutOut(a)' /\ Few(a)
    BY <2>1 DEF FewInv, ShutOut
  <2> QED
    BY <1>0, <2>2, <2>3, <2>4, Leaves
<1> QED
  BY <1>2, <1>3

LEMMA RequestsFew ==
    ASSUME FewInv, NEW r \in Requests, RequestStep(r), ~DeleteAccount(r),
           NEW a \in Accounts, ShutOut(a), Few(a)
    PROVE  Few(a)'
<1>0. AccountsTypeOK /\ a # Nobody
  BY DEF FewInv
<1>1. Idle.at = "idle"
  BY DEF Idle
<1>2. CASE GetOrCreateUserByPhone(r)
  <2>1. link' = link /\ LiveTokens(a)' = LiveTokens(a)
    BY <1>2 DEF GetOrCreateUserByPhone, LiveTokens
  <2>2. PICK b : Enters(r, b, 0) /\ b # a
    BY <1>2 DEF GetOrCreateUserByPhone, CanLogin, ShutOut, CreateUser
  <2> QED
    BY <1>0, <2>1, <2>2, EntersOther
<1>3. CASE \E p \in Providers : LoginWithProvider(r, p)
  <2> PICK p \in Providers : LoginWithProvider(r, p)
    BY <1>3
  <2>1. link' = link /\ LiveTokens(a)' = LiveTokens(a)
    BY DEF LoginWithProvider, LiveTokens
  <2>2. CASE CanLogin(link[p]) /\ Enters(r, link[p], 0)
    <3>1. link[p] # a
      BY <2>2 DEF CanLogin, ShutOut
    <3> QED
      BY <1>0, <2>1, <2>2, <3>1, EntersOther
  <2>3. CASE link[p] = Nobody /\ Goto(r, [Idle EXCEPT !.at = "searching", !.by = p])
    <3> DEFINE next == [Idle EXCEPT !.at = "searching", !.by = p]
    <3>1. next.at = "searching" /\ next.by = p
      BY DEF Idle
    <3>2. Goto(r, next)
      BY <2>3
    <3> HIDE DEF next
    <3>3. Near(a)' \subseteq Near(a) \ {r} /\ Finders(a)' \subseteq Finders(a)
      BY <1>0, <2>1, <2>3, <3>1, <3>2, GotoCounts
    <3> QED
      BY <2>1, <3>3, FewKept
  <2> QED
    BY <2>2, <2>3 DEF LoginWithProvider
<1>4. CASE FindByEmail(r)
  BY <1>4, FindsOther
<1>5. CASE LinkFound(r) \/ LinkCreated(r) \/ LinkLost(r)
  BY <1>5, LinksFew
<1>6. CASE \E t \in Tokens : RefreshToken(r, t)
  <2>1. link' = link /\ LiveTokens(a)' = LiveTokens(a)
    BY <1>6 DEF RefreshToken, LiveTokens
  <2> PICK t \in Tokens : RefreshToken(r, t)
    BY <1>6
  <2> DEFINE next == [Idle EXCEPT !.at = "refreshing", !.who = token[t].of, !.from = t]
  <2>2. Goto(r, next) /\ next.at = "refreshing"
    BY NextAt DEF RefreshToken
  <2> HIDE DEF next
  <2> QED
    BY <1>0, <2>1, <2>2, Leaves
<1>7. CASE BlacklistOld(r)
  BY <1>7, RotatesFew
<1>8. CASE IssueTokens(r)
  BY <1>8, IssuesFew
<1>9. CASE \E b \in Accounts : Authenticate(r, b)
  <2>1. link' = link /\ LiveTokens(a)' = LiveTokens(a)
    BY <1>9 DEF Authenticate, LiveTokens
  <2> PICK b \in Accounts : Authenticate(r, b)
    BY <1>9
  <2> DEFINE next == [Idle EXCEPT !.at = "authenticated", !.who = b, !.email = user[b].email]
  <2>2. Goto(r, next) /\ next.at = "authenticated"
    BY NextAt DEF Authenticate
  <2> HIDE DEF next
  <2> QED
    BY <1>0, <2>1, <2>2, Leaves
<1>10. CASE UpdateOwnProfile(r) \/ RequestDies(r)
  <2>1. link' = link /\ LiveTokens(a)' = LiveTokens(a) /\ Goto(r, Idle)
    BY <1>10 DEF UpdateOwnProfile, RequestDies, LiveTokens
  <2> QED
    BY <1>0, <1>1, <2>1, Leaves
<1> QED
  BY <1>2, <1>3, <1>4, <1>5, <1>6, <1>7, <1>8, <1>9, <1>10 DEF RequestStep

\* What an administrator does brings nobody nearer
LEMMA AdminsFew ==
    ASSUME FewInv,
           \/ \E b \in Accounts : AccountStep(b)
           \/ \E t \in Tokens : Logout(t)
           \/ \E p \in Providers : UnlinkIdentity(p),
           NEW a \in Accounts, Few(a)
    PROVE  Few(a)'
<1>0. AccountsTypeOK
  BY DEF FewInv
<1>1. req' = req
  BY OthersRevoke
<1>2. \A p \in Providers : link'[p] = a => link[p] = a
  <2>1. ASSUME NEW b \in Accounts, AccountStep(b)
        PROVE  link' = link
    BY <2>1 DEF AccountStep, SuspendUser, ReactivateUser, ActivateAccounts, ListSessions,
       SuspendAccounts, SuspensionBreaks
  <2> QED
    BY <1>0, <2>1 DEF Logout, UnlinkIdentity, AccountsTypeOK
<1>3. LiveTokens(a)' \subseteq LiveTokens(a)
  BY <1>0, OthersRevoke, RevokesSome DEF LiveTokens
<1>4. Finders(a)' = Finders(a)
  BY <1>1 DEF Finders, At
<1>5. Near(a)' \subseteq Near(a)
  <2>1. \A q \in Requests : req[q].at \in {"searching", "linking"} => req[q].by \in Providers
    BY <1>0 DEF AccountsTypeOK
  <2> QED
    BY <1>1, <1>2, <2>1 DEF Near, Coming, Finders, At
<1> QED
  BY <1>3, <1>4, <1>5, FewKept

\* An account is shut out as long as its seal says so
LEMMA AdminsShut ==
    ASSUME FewInv, NEW b \in Accounts, AccountStep(b), NEW a \in Accounts, sealed'[a]
    PROVE  ShutOut(a)' /\ Few(a)'
<1>0. AccountsTypeOK
  BY DEF FewInv
<1>1. CASE SuspendUser(b) /\ a = b
  <2>1. user'[a] = [user[a] EXCEPT !.status = "SUSPENDED"] /\ user[a] \in UserRows
    BY <1>0, <1>1 DEF SuspendUser, AccountsTypeOK
  <2>2. ShutOut(a)'
    BY <2>1 DEF ShutOut, MayEnter, UserRows
  <2>3. LiveTokens(a)' = {}
    BY <1>0, <1>1, RevokesSome DEF SuspendUser, RevokeAll
  <2> QED
    BY <2>2, <2>3, FewAtFirst
<1>2. CASE ~(SuspendUser(b) /\ a = b)
  <2>1. sealed[a]
    BY <1>0, <1>2 DEF AccountsTypeOK, AccountStep, SuspendUser, ReactivateUser, ActivateAccounts,
       ListSessions, SuspendAccounts, SuspensionBreaks, Sealed
  <2>2. ShutOut(a) /\ Few(a)
    BY <2>1 DEF FewInv
  <2>3. user[a] \in UserRows
    BY <1>0 DEF AccountsTypeOK
  <2>4. CASE user'[a] = user[a]
    BY <2>2, <2>4, AdminsFew DEF ShutOut
  <2>5. CASE user'[a] # user[a]
    <3>1. a = b /\ (ReactivateUser(a) \/ ActivateAccounts(a) \/ SuspendAccounts(a))
      BY <1>0, <1>2, <2>5 DEF AccountsTypeOK, AccountStep, SuspendUser, ReactivateUser,
         ActivateAccounts, ListSessions, SuspendAccounts, SuspensionBreaks
    <3>2. CASE SuspendAccounts(a)
      <4>1. user'[a] = [user[a] EXCEPT !.status = "SUSPENDED"]
        BY <1>0, <3>2 DEF SuspendAccounts, AccountsTypeOK
      <4>2. ShutOut(a)'
        BY <2>3, <4>1 DEF ShutOut, MayEnter, UserRows
      <4> QED
        BY <2>2, <4>2, AdminsFew
    <3>3. CASE ReactivateUser(a) \/ ActivateAccounts(a)
      <4>1. ~MayEnter(user'[a])
        BY <1>0, <3>3 DEF ReactivateUser, ActivateAccounts, Sealed, AccountsTypeOK
      <4>2. user'[a].status = "ACTIVE"
        BY <1>0, <2>3, <3>3 DEF ReactivateUser, ActivateAccounts, AccountsTypeOK, UserRows
      <4>3. ShutOut(a)'
        BY <4>1, <4>2 DEF ShutOut, MayEnter
      <4> QED
        BY <2>2, <4>3, AdminsFew
    <3> QED
      BY <3>1, <3>2, <3>3
  <2> QED
    BY <2>4, <2>5
<1> QED
  BY <1>1, <1>2

\* A request lets nobody in who is shut out
LEMMA RequestsShut ==
    ASSUME FewInv, NEW r \in Requests, RequestStep(r), ~DeleteAccount(r), NEW a \in Accounts, sealed'[a]
    PROVE  ShutOut(a)' /\ ShutOut(a) /\ Few(a)
<1>0. AccountsTypeOK /\ user[a] \in UserRows
  BY DEF FewInv, AccountsTypeOK
<1>1. sealed' = sealed
  BY DEF RequestStep, GetOrCreateUserByPhone, LoginWithProvider, FindByEmail, LinkFound, LinkCreated,
     LinkLost, RefreshToken, BlacklistOld, IssueTokens, Authenticate, UpdateOwnProfile, RequestDies
<1>2. ShutOut(a) /\ Few(a)
  BY <1>1 DEF FewInv
<1>3. \A b \in Accounts : \A phone, email : CreateUser(b, phone, email) => user'[a] = user[a]
  BY <1>0, <1>2 DEF CreateUser, ShutOut, AccountsTypeOK
<1>4. UpdateOwnProfile(r) => user'[a].status = user[a].status /\ user'[a].is_active = user[a].is_active
  <2> SUFFICES ASSUME UpdateOwnProfile(r)
               PROVE  user'[a].status = user[a].status /\ user'[a].is_active = user[a].is_active
    OBVIOUS
  <2>1. PICK email : user' = [user EXCEPT ![req[r].who].email = email]
    BY DEF UpdateOwnProfile
  <2>2. user'[a] = IF a = req[r].who THEN [user[a] EXCEPT !.email = email] ELSE user[a]
    BY <1>0, <2>1 DEF AccountsTypeOK
  <2> QED
    BY <1>0, <2>2 DEF UserRows
<1>5. user'[a].status = user[a].status /\ user'[a].is_active = user[a].is_active
  BY <1>3, <1>4 DEF RequestStep, GetOrCreateUserByPhone, LoginWithProvider, FindByEmail, LinkFound,
     LinkCreated, LinkLost, CreateForIdentity, RefreshToken, BlacklistOld, IssueTokens, Authenticate, RequestDies
<1>6. ShutOut(a)'
  BY <1>2, <1>5 DEF ShutOut, MayEnter
<1> QED
  BY <1>2, <1>6

(* What the count rests on *)

\* A token keeps its account
LEMMA TokensKeepAccount ==
    ASSUME AccountsTypeOK, AccountsNext, NEW t \in Tokens, token[t].state # "none"
    PROVE  token'[t].state # "none" /\ token'[t].of = token[t].of
<1>1. CASE token' = token
  BY <1>1
<1>2. CASE \E list : token' = Revoke(list)
  BY <1>2, RevokeIs
<1>3. ASSUME NEW r \in Requests, BlacklistOld(r)
      PROVE  token'[t].state # "none" /\ token'[t].of = token[t].of
  BY <1>1, <1>3, Blacklisted DEF BlacklistOld
<1>4. ASSUME NEW r \in Requests, IssueTokens(r)
      PROVE  token'[t].state # "none" /\ token'[t].of = token[t].of
  BY <1>4 DEF IssueTokens, FreeToken, AccountsTypeOK
<1>5. ASSUME NEW r \in Requests, RequestStep(r)
      PROVE  token'[t].state # "none" /\ token'[t].of = token[t].of
  BY <1>1, <1>2, <1>3, <1>4, <1>5 DEF RequestStep, GetOrCreateUserByPhone, LoginWithProvider, FindByEmail,
     LinkFound, LinkCreated, LinkLost, RefreshToken, Authenticate, UpdateOwnProfile, DeleteAccount,
     RevokeAll, RequestDies
<1> QED
  BY <1>1, <1>2, <1>5, OthersRevoke DEF AccountsNext

LEMMA RefreshStep ==
    ASSUME AccountsTypeOK, RefreshesOwn, SearchesAnew, AccountsNext
    PROVE  RefreshesOwn' /\ SearchesAnew'
<1> SUFFICES ASSUME NEW q \in Requests
             PROVE  /\ req'[q].at = "refreshing" =>
                           token'[req'[q].from].state # "none" /\ token'[req'[q].from].of = req'[q].who
                    /\ req'[q].at = "searching" => req'[q].who = Nobody
  BY DEF RefreshesOwn, SearchesAnew, At
<1> DEFINE Good == /\ req'[q].at = "refreshing" =>
                           token'[req'[q].from].state # "none" /\ token'[req'[q].from].of = req'[q].who
                   /\ req'[q].at = "searching" => req'[q].who = Nobody
<1>1. CASE req'[q] = req[q]
  <2>1. req[q].at = "refreshing" => /\ req[q].from \in Tokens /\ token[req[q].from].state # "none"
                                    /\ token[req[q].from].of = req[q].who
    BY DEF RefreshesOwn, At, AccountsTypeOK
  <2>2. req[q].at = "searching" => req[q].who = Nobody
    BY DEF SearchesAnew, At
  <2> QED
    BY <1>1, <2>1, <2>2, TokensKeepAccount
<1>2. ASSUME NEW r \in Requests, NEW next, Goto(r, next), next.at \notin {"refreshing", "searching"}
      PROVE  Good
  <2>1. req'[q] = IF q = r THEN next ELSE req[q]
    BY <1>2 DEF Goto, AccountsTypeOK
  <2> QED
    BY <1>1, <1>2, <2>1
<1>3. ASSUME NEW r \in Requests, NEW b, NEW t, Enters(r, b, t)
      PROVE  Good
  <2>1. PICK next : Goto(r, next) /\ next.at = "login"
    BY <1>3, EntersNext
  <2> QED
    BY <1>2, <2>1
<1>4. ASSUME NEW r \in Requests, NEW t \in Tokens, RefreshToken(r, t)
      PROVE  Good
  <2>1. /\ token' = token /\ token[t].state = "live"
        /\ req' = [req EXCEPT ![r] = [Idle EXCEPT !.at = "refreshing", !.who = token[t].of, !.from = t]]
    BY <1>4 DEF RefreshToken, Goto
  <2>2. q # r => req'[q] = req[q]
    BY <2>1 DEF AccountsTypeOK
  <2>3. q = r => req'[q].from = t /\ req'[q].who = token[t].of /\ req'[q].at = "refreshing"
    BY <2>1, NextAt DEF AccountsTypeOK
  <2> QED
    BY <1>1, <2>1, <2>2, <2>3
<1>5. ASSUME NEW r \in Requests, NEW p \in Providers, LoginWithProvider(r, p)
      PROVE  Good
  <2>1. CASE Goto(r, [Idle EXCEPT !.at = "searching", !.by = p])
    <3>1. req' = [req EXCEPT ![r] = [Idle EXCEPT !.at = "searching", !.by = p]]
      BY <2>1 DEF Goto
    <3>2. q # r => req'[q] = req[q]
      BY <3>1 DEF AccountsTypeOK
    <3>3. q = r => req'[q].at = "searching" /\ req'[q].who = Nobody
      BY <3>1 DEF AccountsTypeOK, Idle
    <3> QED
      BY <1>1, <3>2, <3>3
  <2> QED
    BY <1>3, <1>5, <2>1 DEF LoginWithProvider
<1>6. ASSUME NEW r \in Requests, FindByEmail(r)
      PROVE  Good
  <2>1. req[r] \in ReqType
    BY TypeRestated
  <2> QED
    BY <1>2, <1>6, <2>1, LinkingAt DEF FindByEmail
<1>7. ASSUME NEW r \in Requests, NEW a \in Accounts, Authenticate(r, a)
      PROVE  Good
  BY <1>2, <1>7, NextAt DEF Authenticate
<1>8. Idle.at \notin {"refreshing", "searching"}
  BY DEF Idle
<1>9. ASSUME NEW r \in Requests, RequestStep(r)
      PROVE  Good
  <2>1. CASE \/ GetOrCreateUserByPhone(r) \/ LinkFound(r) \/ LinkCreated(r) \/ LinkLost(r)
             \/ BlacklistOld(r) \/ IssueTokens(r)
             \/ UpdateOwnProfile(r) \/ DeleteAccount(r) \/ RequestDies(r)
    BY <1>2, <1>3, <1>8, <2>1 DEF GetOrCreateUserByPhone, LinkFound, LinkCreated, LinkLost,
       BlacklistOld, IssueTokens, UpdateOwnProfile, DeleteAccount, RequestDies
  <2> QED
    BY <1>4, <1>5, <1>6, <1>7, <1>9, <2>1 DEF RequestStep
<1> QED
  BY <1>1, <1>9, OthersRevoke DEF AccountsNext

LEMMA FewInit == AccountsInit => FewInv
BY TypeInit DEF AccountsInit, FewInv, RefreshesOwn, SearchesAnew, At, Idle

LEMMA FewStep == FewInv /\ [AccountsNext]_vars => FewInv'
<1> SUFFICES ASSUME FewInv, [AccountsNext]_vars
             PROVE  FewInv'
  OBVIOUS
<1>1. CASE UNCHANGED vars
  <2>1. AccountsTypeOK'
    BY TypeStep DEF FewInv
  <2>2. RefreshesOwn' /\ SearchesAnew'
    BY <1>1 DEF FewInv, vars, RefreshesOwn, SearchesAnew, At
  <2>3. ASSUME NEW a \in Accounts, sealed'[a]  PROVE ShutOut(a)' /\ Few(a)'
    <3>1. ShutOut(a) /\ Few(a) /\ ShutOut(a)' /\ LiveTokens(a)' = LiveTokens(a)
          /\ Near(a)' = Near(a) /\ Finders(a)' = Finders(a)
      BY <1>1, <2>3 DEF FewInv, vars, ShutOut, LiveTokens, Near, Coming, Finders, At
    <3> QED
      BY <3>1, FewKept
  <2> QED
    BY <2>1, <2>2, <2>3 DEF FewInv
<1>2. CASE AccountsNext
  <2>1. AccountsTypeOK' /\ RefreshesOwn' /\ SearchesAnew'
    BY <1>2, TypeStep, RefreshStep DEF FewInv
  <2>2. ASSUME NEW a \in Accounts, sealed'[a]  PROVE ShutOut(a)' /\ Few(a)'
    <3>1. ASSUME NEW r \in Requests, RequestStep(r)  PROVE ShutOut(a)' /\ Few(a)'
      BY <2>2, <3>1, DeletesFew, RequestsShut, RequestsFew
    <3>2. ASSUME NEW b \in Accounts, AccountStep(b)  PROVE ShutOut(a)' /\ Few(a)'
      BY <2>2, <3>2, AdminsShut
    <3>3. CASE (\E t \in Tokens : Logout(t)) \/ (\E p \in Providers : UnlinkIdentity(p))
      <4>1. user' = user /\ sealed' = sealed
        BY <3>3 DEF Logout, UnlinkIdentity
      <4>2. Few(a) /\ ShutOut(a)'
        BY <2>2, <4>1 DEF FewInv, ShutOut
      <4> QED
        BY <3>3, <4>2, AdminsFew
    <3> QED
      BY <1>2, <3>1, <3>2, <3>3 DEF AccountsNext
  <2> QED
    BY <2>1, <2>2 DEF FewInv
<1> QED
  BY <1>1, <1>2

LEMMA FewIs == FewInv => ShutOutLeavesFew
<1> SUFFICES ASSUME FewInv, NEW a \in Accounts, sealed[a]
             PROVE  2 * LiveOrComing(a) <= Cardinality(Requests) * (Cardinality(Requests) + 1)
  BY DEF ShutOutLeavesFew
<1> DEFINE v == Cardinality(LiveTokens(a))  n == Cardinality(Near(a))
           f == Cardinality(Finders(a))     c == Cardinality(Coming(a))
<1>1. LiveOrComing(a) = v + c
  BY DEF LiveOrComing, Coming
<1>2. c \in Nat /\ c <= n
  BY Counted, Shrinks DEF Near
<1>3. v \in Nat /\ n \in Nat /\ f \in Nat /\ R \in Nat /\ f <= R
  BY Counted
<1>4. 2 * v + 2 * n + Worth(f) <= R * (R + 1)
  BY DEF FewInv, Few
<1> HIDE DEF v, n, f, c
<1>5. Worth(0) = 0 /\ Worth(0) <= Worth(f)
  BY <1>3, WorthGrows DEF Worth
<1>6. Worth(f) \in Int /\ R * (R + 1) \in Int
  BY <1>3 DEF Worth
<1>7. 2 * (v + c) <= R * (R + 1)
  <2> HIDE DEF Worth
  <2> QED
    BY <1>2, <1>3, <1>4, <1>5, <1>6
<1> QED
  BY <1>1, <1>7 DEF R

\* Whoever logs in, refreshes, links or loses an identity while an account is
\* suspended through the API, deleted or brought back, and however often: as long
\* as it is shut out it keeps no more sessions than R * (R + 1) / 2 for R workers,
\* those about to be issued included.
THEOREM ShutOutKeepsFew == AccountsSpec => []ShutOutLeavesFew
BY FewInit, FewStep, FewIs, PTL DEF AccountsSpec
=============================================================================
