------------------------------ MODULE Accounts ------------------------------
(***************************************************************************)
(* How people get in and are put out: accounts found or created by one     *)
(* phone number or by one identity at each provider, rotating refresh      *)
(* tokens, suspension, reactivation and deletion.  The code that proves    *)
(* the number is module Otp's; here a worker has proved it.  The           *)
(* identities show one email address, which the providers vouch for or     *)
(* not.                                                                    *)
(*                                                                         *)
(* Several requests run at once, and a request whose statements no lock    *)
(* joins is several steps: a login reads the account before it issues its  *)
(* tokens, a refresh reads it before it blacklists the old token, a        *)
(* profile is saved from the copy that authentication read, and the admin  *)
(* site suspends without a look at the logins that are under way.          *)
(***************************************************************************)
EXTENDS Naturals, FiniteSets

CONSTANTS Accounts,     \* rows of accounts_user that may come to exist
          Requests,     \* workers that serve requests at the same time
          Providers,    \* SocialProvider
          Nobody,       \* no account, and no provider
          MaxTokens,    \* bound: refresh tokens ever issued
          MaxActs       \* bound: how often administrators act on an account

ASSUME NobodyAssumption == Nobody \notin Accounts \union Providers
ASSUME BoundsAssumption == MaxTokens \in Nat /\ MaxActs \in Nat
ASSUME RequestsAssumption == IsFiniteSet(Requests)
ASSUME PhonesAssumption == Providers \intersect {"none", "number"} = {}

Tokens == 1 .. MaxTokens

VARIABLES
    user,       \* the rows
    link,       \* the account each provider's identity is linked to
    token,      \* outstanding refresh tokens and what became of them
    req,        \* what each worker is doing
    bulk,       \* suspend_accounts at work on an account, and the tokens it has read
    sealed,     \* history: shut out under the lock of its row and not let in since
    acts        \* how often administrators have acted

vars == <<user, link, token, req, bulk, sealed, acts>>

UserStatus  == {"none", "ACTIVE", "SUSPENDED", "DELETED"}    \* "none" before it is created
\* What the unique columns show, "none" standing for a value of no interest: the
\* number, or the placeholder of an identity; the identities' address
Phones      == {"none", "number"} \union Providers
EmailStates == {"none", "unverified", "verified"}
UserRows    == [status : UserStatus, is_active : BOOLEAN, phone : Phones, email : EmailStates]

Unborn  == [status |-> "none", is_active |-> FALSE, phone |-> "none", email |-> "none"]
Idle    == [at |-> "idle", who |-> Nobody, from |-> 0, by |-> Nobody, email |-> "none"]
NoToken == [state |-> "none", of |-> Nobody, from |-> 0]
NotOpen == [open |-> FALSE, list |-> {}]

AccountsTypeOK ==
    /\ user \in [Accounts -> UserRows]
    /\ link \in [Providers -> Accounts \union {Nobody}]
    /\ token \in [Tokens -> [state : {"none", "live", "rotated", "revoked"},
                             of : Accounts \union {Nobody}, from : 0 .. MaxTokens]]
    /\ req \in [Requests -> [at : {"idle", "searching", "linking", "refreshing",
                                   "login", "authenticated"},
                             who : Accounts \union {Nobody}, from : 0 .. MaxTokens,
                             by : Providers \union {Nobody}, email : EmailStates]]
    /\ \A r \in Requests : /\ req[r].at \in {"searching", "linking"} => req[r].by \in Providers
                           /\ req[r].at = "authenticated" => req[r].who \in Accounts
                           /\ req[r].at = "refreshing" => req[r].from \in Tokens
    /\ bulk \in [Accounts -> [open : BOOLEAN, list : SUBSET Tokens]]
    /\ sealed \in [Accounts -> BOOLEAN]
    /\ acts \in 0 .. MaxActs

AccountsInit ==
    /\ user = [a \in Accounts |-> Unborn]
    /\ link = [p \in Providers |-> Nobody]
    /\ token = [t \in Tokens |-> NoToken]
    /\ req = [r \in Requests |-> Idle]
    /\ bulk = [a \in Accounts |-> NotOpen]
    /\ sealed = [a \in Accounts |-> FALSE]
    /\ acts = 0

At(r, step)     == req[r].at = step
Goto(r, next)   == req' = [req EXCEPT ![r] = next]
Enters(r, a, t) == Goto(r, [Idle EXCEPT !.at = "login", !.who = a, !.from = t])

\* Who shows a number or placeholder, or the address: one account, as the columns
\* are unique
WithPhone(x) == {a \in Accounts : user[a].phone = x}
WithEmail    == {a \in Accounts : user[a].email # "none"}

\* A row whose change is not committed yet: whoever writes it waits, who refers to
\* it does not
RowLocked(a) == bulk[a].open
-----------------------------------------------------------------------------
(* Finding and creating the account *)

\* assert_user_can_login, and ActiveUserJWTAuth on every request
MayEnter(row) == row.status = "ACTIVE" /\ row.is_active
CanLogin(a)   == MayEnter(user[a])

\* create_user, in a row that did not exist
CreateUser(a, phone, email) ==
    /\ user[a].status = "none"
    /\ user' = [user EXCEPT ![a] = [status |-> "ACTIVE", is_active |-> TRUE,
                                    phone |-> phone, email |-> email]]

\* POST /otp/verify once VerifyCode of Otp is committed, in a transaction of its own;
\* two that create at once end with one row, by the unique number
GetOrCreateUserByPhone(r) ==
    /\ At(r, "idle")
    /\ \/ /\ WithPhone("number") = {}
          /\ \E a \in Accounts : CreateUser(a, "number", "none") /\ Enters(r, a, 0)
       \/ /\ \E a \in WithPhone("number") : CanLogin(a) /\ Enters(r, a, 0)
          /\ UNCHANGED user
    /\ UNCHANGED <<link, token, bulk, sealed, acts>>

\* POST /social/{provider}: the identity is known, and its account may log in, or
\* it is not ...
LoginWithProvider(r, p) ==
    /\ At(r, "idle")
    /\ \/ link[p] # Nobody /\ CanLogin(link[p]) /\ Enters(r, link[p], 0)
       \/ link[p] = Nobody /\ Goto(r, [Idle EXCEPT !.at = "searching", !.by = p])
    /\ UNCHANGED <<user, link, token, bulk, sealed, acts>>

\* ... then an account is looked for by an address verified on both sides
\* (_find_linkable_by_email) ...
Linkable(email) == {a \in Accounts : email = "verified" /\ user[a].email = "verified"}

FindByEmail(r) ==
    /\ At(r, "searching")
    /\ \E email \in EmailStates \ {"none"} :
          \/ /\ Linkable(email) = {}
             /\ Goto(r, [req[r] EXCEPT !.at = "linking", !.email = email])
          \/ \E a \in Linkable(email) :
                /\ CanLogin(a)
                /\ Goto(r, [req[r] EXCEPT !.at = "linking", !.email = email, !.who = a])
    /\ UNCHANGED <<user, link, token, bulk, sealed, acts>>

\* ... or one is created, with the identity's placeholder for a number and the
\* address if nobody has it; the placeholder is unique, so that this fails where an
\* account was made for the identity before
CreateForIdentity(r, a) ==
    /\ WithPhone(req[r].by) = {}
    /\ CreateUser(a, req[r].by, IF WithEmail = {} THEN req[r].email ELSE "none")

\* The identity is linked to the account that was found ...
LinkFound(r) ==
    /\ At(r, "linking") /\ link[req[r].by] = Nobody /\ req[r].who # Nobody
    /\ link' = [link EXCEPT ![req[r].by] = req[r].who]
    /\ Enters(r, req[r].who, 0)
    /\ UNCHANGED <<user, token, bulk, sealed, acts>>

\* ... or to the one that is created
LinkCreated(r) ==
    /\ At(r, "linking") /\ link[req[r].by] = Nobody /\ req[r].who = Nobody
    /\ \E a \in Accounts :
          /\ CreateForIdentity(r, a)
          /\ link' = [link EXCEPT ![req[r].by] = a]
          /\ Enters(r, a, 0)
    /\ UNCHANGED <<token, bulk, sealed, acts>>

\* The unique identity sends a loser to the winner's account, which nobody looks at
\* again; a row it had created for itself is left behind
LinkLost(r) ==
    /\ At(r, "linking") /\ link[req[r].by] # Nobody
    /\ IF req[r].who # Nobody THEN UNCHANGED user
                              ELSE \E a \in Accounts : CreateForIdentity(r, a)
    /\ Enters(r, link[req[r].by], 0)
    /\ UNCHANGED <<link, token, bulk, sealed, acts>>
-----------------------------------------------------------------------------
(* Refresh tokens *)

FreeToken == {t \in Tokens : token[t].state = "none" /\ \A s \in 1 .. (t - 1) : token[s].state # "none"}

\* From the row read earlier in the request, without another look at it
IssueTokens(r) ==
    /\ At(r, "login")
    /\ \E t \in FreeToken :
          token' = [token EXCEPT ![t] = [state |-> "live", of |-> req[r].who, from |-> req[r].from]]
    /\ Goto(r, Idle)
    /\ UNCHANGED <<user, link, bulk, sealed, acts>>

\* POST /token/refresh: the signature, the blacklist and the account are read ...
RefreshToken(r, t) ==
    /\ At(r, "idle")
    /\ token[t].state = "live" /\ CanLogin(token[t].of)
    /\ Goto(r, [Idle EXCEPT !.at = "refreshing", !.who = token[t].of, !.from = t])
    /\ UNCHANGED <<user, link, token, bulk, sealed, acts>>

\* ... then the old token is blacklisted, and the request that created the row
\* of the blacklist is the one that goes on
BadMayRotate(t) == TRUE                         \* created is not looked at
MayRotate(t)    == token[t].state = "live"

BlacklistOld(r) ==
    /\ At(r, "refreshing")
    /\ IF MayRotate(req[r].from)
       THEN /\ token' = [token EXCEPT ![req[r].from].state = IF @ = "live" THEN "rotated" ELSE @]
            /\ Enters(r, req[r].who, req[r].from)
       ELSE Goto(r, Idle) /\ UNCHANGED token
    /\ UNCHANGED <<user, link, bulk, sealed, acts>>

Revoke(list) == [t \in Tokens |-> IF t \in list /\ token[t].state = "live"
                                  THEN [token[t] EXCEPT !.state = "revoked"] ELSE token[t]]
LiveTokens(a) == {t \in Tokens : token[t].of = a /\ token[t].state = "live"}

BadRevokeAll(a) == token                        \* sessions are left alone
RevokeAll(a)    == Revoke(LiveTokens(a))

\* POST /logout
Logout(t) ==
    /\ token[t].state = "live"
    /\ token' = Revoke({t})
    /\ UNCHANGED <<user, link, req, bulk, sealed, acts>>
-----------------------------------------------------------------------------
(* What owners do to their accounts *)

\* Authentication reads the row that the handler then works on
Authenticate(r, a) ==
    /\ At(r, "idle") /\ CanLogin(a)
    /\ Goto(r, [Idle EXCEPT !.at = "authenticated", !.who = a, !.email = user[a].email])
    /\ UNCHANGED <<user, link, token, bulk, sealed, acts>>

\* PATCH /me: name and address are written together, from that copy where they were
\* not given.  An address must be free, and one typed in is not verified
UpdateOwnProfile(r) ==
    LET a == req[r].who IN
    /\ At(r, "authenticated") /\ ~RowLocked(a)
    /\ \E email \in {req[r].email, "none"}
                    \union (IF req[r].email = "none" THEN {"unverified"} ELSE {}) :
          /\ email # "none" => WithEmail \subseteq {a}
          /\ user' = [user EXCEPT ![a].email = email]
    /\ Goto(r, Idle)
    /\ UNCHANGED <<link, token, bulk, sealed, acts>>

Freed(holder, a) == IF holder = a THEN Nobody ELSE holder

\* POST /me/delete, under the lock of the row: identity and sessions go in one
\* transaction, whatever has become of the account since authentication
DeleteAccount(r) ==
    LET a == req[r].who IN
    /\ At(r, "authenticated") /\ ~RowLocked(a)
    /\ user' = [user EXCEPT ![a] = [Unborn EXCEPT !.status = "DELETED"]]
    /\ link' = [p \in Providers |-> Freed(link[p], a)]
    /\ token' = RevokeAll(a)
    /\ sealed' = [sealed EXCEPT ![a] = TRUE]
    /\ Goto(r, Idle)
    /\ UNCHANGED <<bulk, acts>>

\* A request is refused, or its worker dies; what it has not committed is rolled back
RequestDies(r) ==
    /\ ~At(r, "idle")
    /\ Goto(r, Idle)
    /\ UNCHANGED <<user, link, token, bulk, sealed, acts>>
-----------------------------------------------------------------------------
(* What administrators do to an account *)

Act == acts < MaxActs /\ acts' = acts + 1

Sealed(a, row) == [sealed EXCEPT ![a] = @ /\ ~MayEnter(row)]

\* POST /users/{id}/suspend, under the lock of the row.  A token that a login is
\* about to insert refers to the row and waits for that lock
SuspendUser(a) ==
    /\ Act
    /\ user[a].status = "ACTIVE" /\ ~RowLocked(a)
    /\ user' = [user EXCEPT ![a].status = "SUSPENDED"]
    /\ token' = RevokeAll(a)
    /\ sealed' = [sealed EXCEPT ![a] = TRUE]
    /\ UNCHANGED <<link, req, bulk>>

\* POST /users/{id}/reactivate
ReactivateUser(a) ==
    /\ Act
    /\ user[a].status = "SUSPENDED" /\ ~RowLocked(a)
    /\ user' = [user EXCEPT ![a].status = "ACTIVE"]
    /\ sealed' = Sealed(a, user'[a])
    /\ UNCHANGED <<link, token, req, bulk>>

\* The two bulk actions of the admin site look at no status
ActivateAccounts(a) ==
    /\ Act
    /\ user[a].status # "none" /\ ~RowLocked(a)
    /\ user' = [user EXCEPT ![a].status = "ACTIVE", ![a].is_active = TRUE]
    /\ sealed' = Sealed(a, user'[a])
    /\ UNCHANGED <<link, token, req, bulk>>

\* The UPDATE of suspend_accounts keeps other writers of the row out, but no login
\* that inserts a token or an identity; then the tokens are read ...
ListSessions(a) ==
    /\ Act
    /\ user[a].status # "none" /\ ~RowLocked(a)
    /\ bulk' = [bulk EXCEPT ![a] = [open |-> TRUE, list |-> LiveTokens(a)]]
    /\ UNCHANGED <<user, link, token, req, sealed>>

\* ... and those that were read are revoked
SuspendAccounts(a) ==
    /\ bulk[a].open
    /\ user' = [user EXCEPT ![a].status = "SUSPENDED"]
    /\ token' = Revoke(bulk[a].list)
    /\ bulk' = [bulk EXCEPT ![a] = NotOpen]
    /\ UNCHANGED <<link, req, sealed, acts>>

SuspensionBreaks(a) ==
    /\ bulk[a].open
    /\ bulk' = [bulk EXCEPT ![a] = NotOpen]
    /\ UNCHANGED <<user, link, token, req, sealed, acts>>

\* A superuser deletes the row of an identity
UnlinkIdentity(p) ==
    /\ Act
    /\ link[p] # Nobody
    /\ link' = [link EXCEPT ![p] = Nobody]
    /\ UNCHANGED <<user, token, req, bulk, sealed>>
-----------------------------------------------------------------------------
RequestStep(r) ==
    \/ GetOrCreateUserByPhone(r)
    \/ \E p \in Providers : LoginWithProvider(r, p)
    \/ FindByEmail(r) \/ LinkFound(r) \/ LinkCreated(r) \/ LinkLost(r)
    \/ \E t \in Tokens : RefreshToken(r, t)
    \/ BlacklistOld(r) \/ IssueTokens(r)
    \/ \E a \in Accounts : Authenticate(r, a)
    \/ UpdateOwnProfile(r) \/ DeleteAccount(r)
    \/ RequestDies(r)

AccountStep(a) ==
    \/ SuspendUser(a) \/ ReactivateUser(a) \/ ActivateAccounts(a)
    \/ ListSessions(a) \/ SuspendAccounts(a) \/ SuspensionBreaks(a)

AccountsNext ==
    \/ \E r \in Requests : RequestStep(r)
    \/ \E a \in Accounts : AccountStep(a)
    \/ \E t \in Tokens : Logout(t)
    \/ \E p \in Providers : UnlinkIdentity(p)

AccountsSpec == AccountsInit /\ [][AccountsNext]_vars
-----------------------------------------------------------------------------
(* Properties *)

\* A refresh token is exchanged for one new pair at most, whichever requests
\* present it at once, and one that logout, suspension or deletion revoked
\* first never is (tokens.py: rotation through the row of the blacklist).
RotatedOnce ==
    /\ \A s, t \in Tokens : token[s].from = token[t].from /\ token[s].from # 0 => s = t
    /\ \A s, t \in Tokens : token[s].from = t => token[t].state = "rotated"

\* Suspension through the API and deletion leave no session but those of requests
\* under way (sessions.py, under the lock of the row), however often the account
\* comes and goes: one for each worker, and more only where a worker links an
\* identity to an account it had found before, and those that lose the race for
\* that identity are let into it too (social.py: link_or_create_user).  The k-th
\* worker from the last to do so takes at most k - 1 with it.
LiveOrComing(a) == Cardinality(LiveTokens(a)) + Cardinality({r \in Requests : At(r, "login") /\ req[r].who = a})

ShutOutLeavesFew ==
    \A a \in Accounts : sealed[a] =>
        2 * LiveOrComing(a) <= Cardinality(Requests) * (Cardinality(Requests) + 1)

\* Not promised, and no run checks them.  The same of the suspension of the admin
\* site, which reads the tokens while logins still insert them (accounts/admin.py:
\* suspend_accounts).
EverySuspensionLeavesFew ==
    \A a \in Accounts : user[a].status = "SUSPENDED" =>
        2 * LiveOrComing(a) <= Cardinality(Requests) * (Cardinality(Requests) + 1)

\* Deletion frees identity, number and address, so that they can register again
\* (account_deletion.py): a login that found the account before, a profile saved
\* from an older copy bring them back.
IdentityIsFreed == \A p \in Providers : link[p] # Nobody => user[link[p]].status # "DELETED"
RowIsFreed      == \A a \in Accounts : user[a].status = "DELETED" =>
                      user[a].phone = "none" /\ user[a].email = "none"

\* A deleted account stays deleted (account_deletion.py).
DeletedIsFinal == [][\A a \in Accounts : user[a].status = "DELETED" => user'[a].status = "DELETED"]_vars
=============================================================================
