------------------------------ MODULE Connect ------------------------------
(***************************************************************************)
(* A contractor's account at the payout provider: created once, under the  *)
(* lock of its row, and told of its status by events that come late, twice *)
(* or in the wrong order.                                                  *)
(***************************************************************************)
EXTENDS Naturals

CONSTANTS MaxEvents     \* bound: account events the provider ever sends

ASSUME MaxEventsAssumption == MaxEvents \in Nat

Events == 1 .. MaxEvents

VARIABLES
    accounts,   \* accounts the provider holds for this contractor
    calling,    \* a transaction holds the row and has called the provider
    linked,     \* external_account_id is on the row
    status,     \* ContractorPayoutAccount.status
    sent,       \* status each event carries, "none" until it is sent
    seen        \* events of which PayoutWebhookEvent has a row

connectVars == <<accounts, calling, linked, status, sent, seen>>

ReportedStatus == {"PENDING", "RESTRICTED", "ENABLED"}

ConnectTypeOK ==
    /\ accounts \in Nat
    /\ calling \in BOOLEAN /\ linked \in BOOLEAN
    /\ status \in ReportedStatus \union {"NOT_STARTED"}
    /\ sent \in [Events -> ReportedStatus \union {"none"}]
    /\ seen \subseteq Events

ConnectInit ==
    /\ accounts = 0 /\ calling = FALSE /\ linked = FALSE
    /\ status = "NOT_STARTED"
    /\ sent = [e \in Events |-> "none"]
    /\ seen = {}

\* stripe.Account.create with a key that is the contractor's: the provider
\* answers a repeated call with the account it made before
BadCreateAccount == accounts + 1                \* a new key for every call
CreateAccount    == 1

\* create_onboarding_link: get_or_create locks the row, the provider is called
\* under that lock.  A row that has its account skips to the link, which
\* changes nothing here
CreateOnboardingLink ==
    /\ ~calling /\ ~linked
    /\ calling' = TRUE
    /\ accounts' = CreateAccount
    /\ UNCHANGED <<linked, status, sent, seen>>

\* ... the answer is committed with the row, as the account was when it was new
LinkAccount ==
    /\ calling
    /\ calling' = FALSE /\ linked' = TRUE
    /\ status' = "PENDING"
    /\ UNCHANGED <<accounts, sent, seen>>

\* ... or the provider refused, or the process died: the row is rolled back
OnboardingFails ==
    /\ calling
    /\ calling' = FALSE
    /\ UNCHANGED <<accounts, linked, status, sent, seen>>

\* The provider's view changes; its event is on the way
AccountUpdated(s) ==
    /\ accounts > 0
    /\ \E e \in Events :
          /\ sent[e] = "none" /\ \A d \in 1 .. (e - 1) : sent[d] # "none"
          /\ sent' = [sent EXCEPT ![e] = s]
    /\ UNCHANGED <<accounts, calling, linked, status, seen>>

\* _persist_connect_event.  One that was seen before changes nothing; one of an
\* account no row names is kept as seen and will not be looked at again.  The
\* row takes what the event says, whether or not a later one came before it
PersistConnectEvent(e) ==
    /\ sent[e] # "none"
    /\ IF e \notin seen
       THEN /\ seen' = seen \union {e}
            /\ status' = IF linked THEN sent[e] ELSE status
       ELSE UNCHANGED <<seen, status>>
    /\ UNCHANGED <<accounts, calling, linked, sent>>

ConnectNext ==
    \/ CreateOnboardingLink \/ LinkAccount \/ OnboardingFails
    \/ \E s \in ReportedStatus : AccountUpdated(s)
    \/ \E e \in Events : PersistConnectEvent(e)

ConnectSpec == ConnectInit /\ [][ConnectNext]_connectVars
-----------------------------------------------------------------------------
(* Properties *)

\* However often onboarding is begun, breaks or dies, the provider holds one
\* account of the contractor, so that money cannot go to one the row does not
\* name (connect.py: create_onboarding_link; the adapter's key).
OneAccount == accounts <= 1 /\ (linked => accounts = 1)

\* What the code does NOT promise: an account moved by an event stays as the
\* provider last described it.  Nothing compares an event with the one before
\* it, so that an older one which is delivered later puts its status back
\* (_persist_connect_event).  No run checks it.
NewestEventWins ==
    [][\A e \in seen' \ seen :
          linked /\ status' # status => \A d \in seen : d < e]_connectVars
=============================================================================
