--------------------------- MODULE Notifications ---------------------------
(***************************************************************************)
(* Notifications, and the support requests whose progress they report.     *)
(*                                                                         *)
(* A notification is a row; its push is an attempt to reach the devices of *)
(* its user.  Whoever delivers reads the row and the devices without a     *)
(* lock, calls the provider, and then writes what it knows over the row.   *)
(* The creation hook, a queue of lists, and the periodic retry may deliver *)
(* the same notification at the same time.                                 *)
(***************************************************************************)
EXTENDS Naturals, FiniteSets

CONSTANTS Users, Devices,
          Messages,     \* notifications that may come to exist
          Recipient,    \* [Messages -> Users]
          Requests,     \* support requests
          Workers,      \* processes that deliver, requests and tasks alike
          MaxAttempts,  \* NOTIFICATIONS_MAX_PUSH_ATTEMPTS
          MaxCrashes,   \* bound: deliveries that are cut off
          RetryLimit,   \* how many rows one run of retry_pending takes
          MaxTries,     \* bound: tries that are told apart
          None

ASSUME NotificationsAssumption ==
    /\ IsFiniteSet(Users) /\ IsFiniteSet(Devices) /\ IsFiniteSet(Workers)
    /\ Recipient \in [Messages -> Users]
    /\ MaxAttempts \in Nat \ {0} /\ MaxCrashes \in Nat
    /\ RetryLimit \in Nat \ {0}
    /\ MaxTries \in Nat /\ MaxTries >= MaxAttempts
    /\ None \notin Users \union Messages

VARIABLES
    support,    \* SupportRequest.status
    row,        \* Notification: push_status, push_attempts, pushed_at is set
    age,        \* of each notification, as retry_pending tells them apart
    owner,      \* DeviceToken.user
    queue,      \* lists of notifications the broker holds
    worker,     \* what each worker is doing
    shown,      \* devices each notification reached, as the provider confirmed
    tries,      \* deliveries of each that found a device and tried to reach it,
                \* whether or not the row still counts them
    crashes

pushVars == <<row, age, owner, queue, worker, shown, tries, crashes>>
notificationVars == <<support, pushVars>>

SupportStatus == {"SUBMITTED", "UNDER_REVIEW", "RESOLVED"}
Statuses == {"none", "PENDING", "SENT", "PARTIAL", "NO_DEVICE", "FAILED"}
Answers  == {"none", "broken", "delivered", "partly", "failed", "nobody"}
Idle     == [todo |-> {}, m |-> None, tokens |-> {}, attempts |-> 0,
             pushed |-> FALSE, answer |-> "none"]

NotificationsTypeOK ==
    /\ support \in [Requests -> SupportStatus]
    /\ row \in [Messages -> [status : Statuses, attempts : Nat, pushed : BOOLEAN]]
    /\ age \in [Messages -> {"new", "due", "old"}]
    /\ owner \in [Devices -> Users \union {None}]
    /\ queue \subseteq SUBSET Messages
    /\ worker \in [Workers -> [todo : SUBSET Messages, m : Messages \union {None},
                               tokens : SUBSET Devices, attempts : Nat,
                               pushed : BOOLEAN, answer : Answers]]
    /\ shown \in [Messages -> SUBSET Devices]
    /\ tries \in [Messages -> 0 .. MaxTries]
    /\ crashes \in 0 .. MaxCrashes

NotificationsInit ==
    /\ support = [r \in Requests |-> "SUBMITTED"]
    /\ row = [m \in Messages |-> [status |-> "none", attempts |-> 0, pushed |-> FALSE]]
    /\ age = [m \in Messages |-> "new"]
    /\ owner \in [Devices -> Users \union {None}]
    /\ queue = {}
    /\ worker = [w \in Workers |-> Idle]
    /\ shown = [m \in Messages |-> {}]
    /\ tries = [m \in Messages |-> 0]
    /\ crashes = 0
-----------------------------------------------------------------------------
(* Rows *)

\* notify, and create_broadcast for many: PENDING, handed to the broker after
\* the commit, which may refuse, or is there no longer
Create(ms) ==
    /\ row' = [m \in Messages |-> IF m \in ms THEN [row[m] EXCEPT !.status = "PENDING"] ELSE row[m]]
    /\ \/ queue' = queue \union {ms}
       \/ queue' = queue
    /\ UNCHANGED <<age, owner, worker, shown, tries, crashes>>

New(m) == row[m].status = "none"

\* An event of the program, once its transaction has committed, tells one
\* person: a new offer, a confirmed booking, a job that was marked done ...
Emit == \E m \in Messages : New(m) /\ Create({m})

EventHappens == Emit /\ UNCHANGED support

\* recipients_for: all users, or those of one role
CreateBroadcast ==
    /\ \E ms \in SUBSET {m \in Messages : New(m)} \ {{}} : Create(ms)
    /\ UNCHANGED support

\* DeviceToken.token is unique: a device moves to who signs in on it
RegisterDevice(d, u) ==
    /\ owner[d] # u
    /\ owner' = [owner EXCEPT ![d] = u]
    /\ UNCHANGED <<support, row, age, queue, worker, shown, tries, crashes>>

\* unregister_device, and cleanup of devices not seen for long
UnregisterDevice(d) ==
    /\ owner[d] # None
    /\ owner' = [owner EXCEPT ![d] = None]
    /\ UNCHANGED <<support, row, age, queue, worker, shown, tries, crashes>>

\* The grace period of a few minutes ends
BecomesDue(m) ==
    /\ ~New(m) /\ age[m] = "new"
    /\ age' = [age EXCEPT ![m] = "due"]
    /\ UNCHANGED <<support, row, owner, queue, worker, shown, tries, crashes>>

\* After a day nobody tries any more
BecomesOld(m) ==
    /\ age[m] = "due"
    /\ age' = [age EXCEPT ![m] = "old"]
    /\ UNCHANGED <<support, row, owner, queue, worker, shown, tries, crashes>>
-----------------------------------------------------------------------------
(* Support requests *)

\* change_status, under the lock of the row: a status that may follow.  After
\* the commit the sender is told, unless the process is gone by then.
Follows(s) == CASE s = "SUBMITTED"    -> {"UNDER_REVIEW", "RESOLVED"}
                [] s = "UNDER_REVIEW" -> {"RESOLVED"}
                [] OTHER              -> {}

ChangeStatus(r) ==
    /\ \E s \in Follows(support[r]) : support' = [support EXCEPT ![r] = s]
    /\ Emit \/ UNCHANGED pushVars
-----------------------------------------------------------------------------
(* Delivery *)

Free(w)     == worker[w].todo = {}
Sending(w)  == worker[w].m # None
Settled     == {"SENT", "NO_DEVICE", "PARTIAL"}
Take(w, ms) == worker' = [worker EXCEPT ![w] = [Idle EXCEPT !.todo = ms]]

\* deliver_notifications: a list from the broker; the hook itself when inline
TakeList(w) ==
    /\ Free(w)
    /\ \E ms \in queue : Take(w, ms) /\ queue' = queue \ {ms}
    /\ UNCHANGED <<support, row, age, owner, shown, tries, crashes>>

BadDue == {m \in Messages : row[m].status = "PENDING" /\ age[m] = "due" /\ row[m].attempts = 0}
Due     == {m \in Messages : row[m].status = "PENDING" /\ age[m] = "due"}

\* retry_pending makes its list at once and works through it.  Which rows the
\* limit leaves out, the oldest, is not modelled: any of them may be
RetryPending(w) ==
    /\ Free(w) /\ Due # {}
    /\ \E ms \in SUBSET Due :
          /\ ms = Due \/ Cardinality(ms) = RetryLimit
          /\ Take(w, ms)
    /\ UNCHANGED <<support, row, age, owner, queue, shown, tries, crashes>>

DevicesOf(u) == {d \in Devices : owner[d] = u}

\* deliver reads the row, and is done with one that is settled
Deliver(w, m) ==
    /\ ~Sending(w) /\ m \in worker[w].todo
    /\ worker' = IF row[m].status \in Settled
                 THEN [worker EXCEPT ![w].todo = @ \ {m}]
                 ELSE [worker EXCEPT ![w] = [@ EXCEPT !.m = m, !.tokens = DevicesOf(Recipient[m]),
                                                      !.attempts = row[m].attempts,
                                                      !.pushed = row[m].pushed]]
    /\ UNCHANGED <<support, row, age, owner, queue, shown, tries, crashes>>

Answer(delivered, failed) ==
    IF delivered = {} THEN IF failed = {} THEN "nobody" ELSE "failed"
    ELSE IF failed = {} THEN "delivered" ELSE "partly"

\* The provider takes the tokens one by one.  One it calls invalid is deleted,
\* whoever owns it now.  One that failed, and those of a call that breaks, may
\* have been reached all the same; nobody is told.  A push is "broken" too when
\* the adapter cannot be built, and the provider hears nothing of it: deliver
\* counts both alike.  Without tokens nothing is tried
Push(w) ==
    /\ Sending(w) /\ worker[w].answer = "none"
    /\ \/ \E delivered \in SUBSET worker[w].tokens :
            \E failed \in SUBSET (worker[w].tokens \ delivered) :
               LET invalid == worker[w].tokens \ (delivered \union failed)
               IN /\ worker' = [worker EXCEPT ![w].answer = Answer(delivered, failed)]
                  /\ owner' = [d \in Devices |-> IF d \in invalid THEN None ELSE owner[d]]
                  /\ shown' = [shown EXCEPT ![worker[w].m] = @ \union delivered]
       \/ /\ worker[w].tokens # {}
          /\ worker' = [worker EXCEPT ![w].answer = "broken"]
          /\ UNCHANGED <<owner, shown>>
    /\ tries' = IF worker[w].tokens = {} THEN tries
               ELSE [tries EXCEPT ![worker[w].m] = IF @ < MaxTries THEN @ + 1 ELSE @]
    /\ UNCHANGED <<support, row, age, queue, crashes>>

BadPendingOrFailed(n) == IF n + 1 >= MaxAttempts THEN "FAILED" ELSE "PENDING"
PendingOrFailed(n) == IF n >= MaxAttempts THEN "FAILED" ELSE "PENDING"

BadStatusAfter(answer, n) ==                    \* nothing failed, so it was sent
    IF answer \in {"delivered", "nobody"} THEN "SENT"
    ELSE IF answer = "partly" THEN "PARTIAL" ELSE PendingOrFailed(n)
StatusAfter(answer, n) ==
    CASE answer = "delivered" -> "SENT"
      [] answer = "partly"    -> "PARTIAL"
      [] answer = "nobody"    -> "NO_DEVICE"
      [] OTHER                -> PendingOrFailed(n)

\* The copy is saved over the row
Delivered(w) ==
    /\ Sending(w) /\ worker[w].answer # "none"
    /\ LET m == worker[w].m
           n == worker[w].attempts + 1
           a == worker[w].answer
       IN /\ row' = [row EXCEPT ![m] = [status |-> StatusAfter(a, n), attempts |-> n,
                                        pushed |-> worker[w].pushed \/ a \in {"delivered", "partly"}]]
          /\ Take(w, worker[w].todo \ {m})
    /\ UNCHANGED <<support, age, owner, queue, shown, tries, crashes>>

\* A process is killed with its list
WorkerDies(w) ==
    /\ ~Free(w) /\ crashes < MaxCrashes
    /\ Take(w, {})
    /\ crashes' = crashes + 1
    /\ UNCHANGED <<support, row, age, owner, queue, shown, tries>>
-----------------------------------------------------------------------------
WorkerStep(w) == (\E m \in Messages : Deliver(w, m)) \/ Push(w) \/ Delivered(w)
SomebodyRetries == \E w \in Workers : RetryPending(w)

NotificationsNext ==
    \/ EventHappens \/ CreateBroadcast
    \/ \E d \in Devices : UnregisterDevice(d) \/ \E u \in Users : RegisterDevice(d, u)
    \/ \E m \in Messages : BecomesDue(m) \/ BecomesOld(m)
    \/ \E r \in Requests : ChangeStatus(r)
    \/ \E w \in Workers : TakeList(w) \/ WorkerStep(w) \/ WorkerDies(w)
    \/ SomebodyRetries

NotificationsSpec == NotificationsInit /\ [][NotificationsNext]_notificationVars

\* A worker goes on with its list, time passes, and the retry task is run every
\* five minutes
FairNotificationsSpec ==
    /\ NotificationsSpec
    /\ \A w \in Workers : WF_notificationVars(WorkerStep(w))
    /\ \A m \in Messages : WF_notificationVars(BecomesDue(m))
    /\ WF_notificationVars(SomebodyRetries)
-----------------------------------------------------------------------------
(* Properties *)

\* A notification is given up only after as many deliveries as the limit says
\* found a device and tried to reach it, although deliveries overlap, write over
\* each other's count and are cut off.  A try may have broken before the provider
\* was called (notifications.py, deliver and _pending_or_failed).
GivenUpAfterTries ==
    \A m \in Messages : row[m].status = "FAILED" => tries[m] >= MaxAttempts

\* SENT and PARTIAL, and pushed_at, say that the notification has appeared on
\* some device, whatever another delivery wrote before or writes now
\* (notifications.py, deliver).
SentWasShown ==
    \A m \in Messages :
        row[m].status \in {"SENT", "PARTIAL"} \/ row[m].pushed => shown[m] # {}

\* Whatever becomes of the provider, the devices and single deliveries, there
\* comes a time from which a notification is no longer PENDING, except one that
\* is too old to be tried (notifications.py, retry_pending).
PushSettles ==
    \A m \in Messages : <>[](row[m].status # "PENDING" \/ age[m] = "old")

\* What the first lines of notifications.py promise, and the code does not keep:
\* a push is tried up to the limit and no more.  (Not checked by a run
\* that passes.)
TriedUpToLimit == \A m \in Messages : tries[m] <= MaxAttempts
=============================================================================
