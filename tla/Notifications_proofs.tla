------------------------- MODULE Notifications_proofs -------------------------
(***************************************************************************)
(* What the row of a notification says of its push is true, for any        *)
(* people, devices and notifications and any number of workers that        *)
(* deliver the same one at the same time.                                  *)
(*                                                                         *)
(* A delivery saves a copy, so what a row will say is what some worker has *)
(* read: the invariants speak of rows and of copies alike.                 *)
(***************************************************************************)
EXTENDS Notifications, TLAPS

USE NotificationsAssumption

RowType    == [status : Statuses, attempts : Nat, pushed : BOOLEAN]
WorkerType == [todo : SUBSET Messages, m : Messages \union {None},
               tokens : SUBSET Devices, attempts : Nat,
               pushed : BOOLEAN, answer : Answers]

Reaches == {"delivered", "partly"}

\* What a worker is about to write over the row was shown
CopiesWereShown ==
    \A w \in Workers :
        Sending(w) /\ (worker[w].pushed \/ worker[w].answer \in Reaches)
            => shown[worker[w].m] # {}

\* Who delivers nothing has no answer
NoAnswerYet == \A w \in Workers : ~Sending(w) => worker[w].answer = "none"

ShownInv == NotificationsTypeOK /\ NoAnswerYet /\ SentWasShown /\ CopiesWereShown

\* There were n tries, as far as tries are told apart
Covered(m, n) == n <= tries[m] \/ tries[m] = MaxTries

\* What a worker is about to count: the try is over, unless there was none
Tried(w)  == worker[w].tokens # {} /\ worker[w].answer # "none"
Counted(w) == IF Tried(w) THEN worker[w].attempts + 1 ELSE worker[w].attempts

RowsAreCovered ==
    \A m \in Messages :
        /\ row[m].status \notin Settled => Covered(m, row[m].attempts)
        /\ row[m].status = "FAILED" => row[m].attempts >= MaxAttempts

CopiesAreCovered ==
    \A w \in Workers :
        Sending(w) => /\ Covered(worker[w].m, Counted(w))
                      /\ worker[w].tokens = {} => worker[w].answer \in {"none", "nobody"}

TriesInv == NotificationsTypeOK /\ NoAnswerYet /\ RowsAreCovered /\ CopiesAreCovered
-----------------------------------------------------------------------------
(* Types *)

LEMMA IdleType == Idle \in WorkerType
BY DEF Idle, WorkerType, Answers

LEMMA TodoType ==
    ASSUME NEW q \in WorkerType, NEW ms \in SUBSET Messages
    PROVE  [q EXCEPT !.todo = ms] \in WorkerType
BY DEF WorkerType

LEMMA CopyType ==
    ASSUME NEW q \in WorkerType, NEW m \in Messages, NEW ds \in SUBSET Devices,
           NEW n \in Nat, NEW b \in BOOLEAN
    PROVE  [q EXCEPT !.m = m, !.tokens = ds, !.attempts = n, !.pushed = b] \in WorkerType
BY DEF WorkerType

LEMMA AnswerType ==
    ASSUME NEW ws \in [Workers -> WorkerType], NEW w \in Workers, NEW a \in Answers
    PROVE  [ws EXCEPT ![w].answer = a] \in [Workers -> WorkerType]
BY DEF WorkerType

\* A worker takes a list or is done with one
LEMMA TakeIs ==
    ASSUME NotificationsTypeOK, NEW w \in Workers, NEW ms \in SUBSET Messages, Take(w, ms)
    PROVE  /\ worker' \in [Workers -> WorkerType]
           /\ ~Sending(w)'
           /\ \A v \in Workers \ {w} : worker'[v] = worker[v]
<1>1. [Idle EXCEPT !.todo = ms] \in WorkerType /\ [Idle EXCEPT !.todo = ms].m = None
  BY DEF Idle, WorkerType, Answers
<1>2. worker \in [Workers -> WorkerType]
  BY DEF NotificationsTypeOK, WorkerType
<1> QED
  BY <1>1, <1>2 DEF Take, Sending

LEMMA CreateType ==
    ASSUME NotificationsTypeOK, NEW ms \in SUBSET Messages, Create(ms)
    PROVE  row' \in [Messages -> RowType] /\ queue' \subseteq SUBSET Messages
<1>1. \A m \in Messages : [row[m] EXCEPT !.status = "PENDING"] \in RowType
  BY DEF NotificationsTypeOK, RowType, Statuses
<1> QED
  BY <1>1 DEF Create, NotificationsTypeOK, RowType

LEMMA StatusIs ==
    ASSUME NEW a, NEW n
    PROVE  StatusAfter(a, n) = IF a = "delivered" THEN "SENT"
                               ELSE IF a = "partly" THEN "PARTIAL"
                               ELSE IF a = "nobody" THEN "NO_DEVICE" ELSE PendingOrFailed(n)
<1>1. CASE a = "delivered"
  BY <1>1 DEF StatusAfter
<1>2. CASE a = "partly"
  BY <1>2 DEF StatusAfter
<1>3. CASE a = "nobody"
  BY <1>3 DEF StatusAfter
<1>4. CASE a \notin {"delivered", "partly", "nobody"}
  BY <1>4 DEF StatusAfter
<1> QED
  BY <1>1, <1>2, <1>3, <1>4

LEMMA StatusType ==
    ASSUME NEW a \in Answers, NEW n \in Nat
    PROVE  StatusAfter(a, n) \in Statuses
BY StatusIs DEF PendingOrFailed, Statuses

LEMMA TypeInit == NotificationsInit => NotificationsTypeOK
<1> SUFFICES ASSUME NotificationsInit  PROVE NotificationsTypeOK
  OBVIOUS
<1>1. worker \in [Workers -> WorkerType]
  BY IdleType DEF NotificationsInit
<1>2. row \in [Messages -> RowType]
  BY DEF NotificationsInit, RowType, Statuses
<1> QED
  BY <1>1, <1>2 DEF NotificationsInit, NotificationsTypeOK, WorkerType, RowType, SupportStatus

LEMMA WorkersKeepTypes ==
    ASSUME NotificationsTypeOK, NEW w \in Workers,
           TakeList(w) \/ WorkerStep(w) \/ WorkerDies(w) \/ RetryPending(w)
    PROVE  NotificationsTypeOK'
<1> USE DEF NotificationsTypeOK, WorkerType, RowType
<1>1. CASE TakeList(w)
  BY <1>1, TakeIs DEF TakeList
<1>2. CASE \E m \in Messages : Deliver(w, m)
  <2> PICK m \in Messages : Deliver(w, m)
    BY <1>2
  <2>0. worker[w] \in WorkerType
    OBVIOUS
  <2>1. [worker[w] EXCEPT !.todo = @ \ {m}] \in WorkerType
    <3>1. worker[w].todo \ {m} \in SUBSET Messages
      BY <2>0
    <3> HIDE DEF WorkerType, NotificationsTypeOK
    <3> QED
      BY <2>0, <3>1, TodoType, Zenon
  <2>2. [worker[w] EXCEPT !.m = m, !.tokens = DevicesOf(Recipient[m]),
                          !.attempts = row[m].attempts, !.pushed = row[m].pushed] \in WorkerType
    <3>1. /\ DevicesOf(Recipient[m]) \in SUBSET Devices
          /\ row[m].attempts \in Nat /\ row[m].pushed \in BOOLEAN
      BY DEF DevicesOf
    <3> HIDE DEF WorkerType, NotificationsTypeOK
    <3> QED
      BY <2>0, <3>1, CopyType, Zenon
  <2>3. worker' \in [Workers -> WorkerType]
    BY <2>1, <2>2 DEF Deliver
  <2> QED
    BY <2>3 DEF Deliver
<1>3. CASE Push(w)
  <2>0. UNCHANGED <<support, row, age, queue, crashes>>
    BY <1>3 DEF Push
  <2>1. worker[w].m \in Messages
    BY <1>3 DEF Push, Sending
  <2>2. tries' \in [Messages -> 0 .. MaxTries]
    BY <1>3, <2>1 DEF Push
  <2>5. ASSUME worker' \in [Workers -> WorkerType],
               owner' \in [Devices -> Users \union {None}], shown' \in [Messages -> SUBSET Devices]
        PROVE  NotificationsTypeOK'
    BY <2>0, <2>2, <2>5
  <2>3. CASE \E delivered \in SUBSET worker[w].tokens :
               \E failed \in SUBSET (worker[w].tokens \ delivered) :
                  /\ worker' = [worker EXCEPT ![w].answer = Answer(delivered, failed)]
                  /\ owner' = [d \in Devices |->
                        IF d \in worker[w].tokens \ (delivered \union failed) THEN None ELSE owner[d]]
                  /\ shown' = [shown EXCEPT ![worker[w].m] = @ \union delivered]
    <3> PICK delivered \in SUBSET worker[w].tokens, failed \in SUBSET worker[w].tokens :
                  /\ worker' = [worker EXCEPT ![w].answer = Answer(delivered, failed)]
                  /\ owner' = [d \in Devices |->
                        IF d \in worker[w].tokens \ (delivered \union failed) THEN None ELSE owner[d]]
                  /\ shown' = [shown EXCEPT ![worker[w].m] = @ \union delivered]
      BY <2>3
    <3>1. Answer(delivered, failed) \in Answers
      BY DEF Answer, Answers
    <3>2. owner' \in [Devices -> Users \union {None}] /\ shown' \in [Messages -> SUBSET Devices]
      BY <2>1
    <3>3. worker' \in [Workers -> WorkerType]
      <4> HIDE DEF WorkerType, NotificationsTypeOK
      <4>1. worker \in [Workers -> WorkerType]
        BY DEF WorkerType, NotificationsTypeOK
      <4> QED
        BY <3>1, <4>1, AnswerType
    <3> QED
      BY <2>5, <3>2, <3>3
  <2>4. CASE worker' = [worker EXCEPT ![w].answer = "broken"] /\ UNCHANGED <<owner, shown>>
    BY <1>3, <2>2, <2>4 DEF Push, Answers
  <2> QED
    BY <1>3, <2>3, <2>4 DEF Push
<1>4. CASE Delivered(w)
  <2> DEFINE n == worker[w].attempts + 1
             new == [status |-> StatusAfter(worker[w].answer, n), attempts |-> n,
                     pushed |-> worker[w].pushed \/ worker[w].answer \in {"delivered", "partly"}]
  <2>1. new \in RowType
    BY StatusType
  <2>2. row' = [row EXCEPT ![worker[w].m] = new] /\ Take(w, worker[w].todo \ {worker[w].m})
    BY <1>4 DEF Delivered
  <2> HIDE DEF new
  <2>3. row' \in [Messages -> RowType]
    BY <2>1, <2>2
  <2> QED
    BY <1>4, <2>2, <2>3, TakeIs DEF Delivered
<1>5. CASE WorkerDies(w)
  BY <1>5, TakeIs DEF WorkerDies
<1>6. CASE RetryPending(w)
  <2> PICK ms \in SUBSET Due : Take(w, ms)
    BY <1>6 DEF RetryPending
  <2>1. ms \in SUBSET Messages
    BY DEF Due
  <2> QED
    BY <1>6, <2>1, TakeIs DEF RetryPending
<1> QED
  BY <1>1, <1>2, <1>3, <1>4, <1>5, <1>6 DEF WorkerStep

LEMMA TypeStep ==
    NotificationsTypeOK /\ [NotificationsNext]_notificationVars => NotificationsTypeOK'
<1> SUFFICES ASSUME NotificationsTypeOK, [NotificationsNext]_notificationVars
             PROVE  NotificationsTypeOK'
  OBVIOUS
<1> USE DEF NotificationsTypeOK
<1>1. CASE UNCHANGED notificationVars
  BY <1>1 DEF notificationVars, pushVars
<1>2. ASSUME NEW ms \in SUBSET Messages, Create(ms), support' \in [Requests -> SupportStatus]
      PROVE  NotificationsTypeOK'
  BY <1>2, CreateType DEF Create, RowType
<1>3. CASE EventHappens \/ CreateBroadcast
  BY <1>2, <1>3 DEF EventHappens, Emit, CreateBroadcast
<1>4. ASSUME NEW r \in Requests, ChangeStatus(r)
      PROVE  NotificationsTypeOK'
  <2>1. support' \in [Requests -> SupportStatus]
    BY <1>4 DEF ChangeStatus, Follows, SupportStatus
  <2> QED
    BY <1>2, <1>4, <2>1 DEF ChangeStatus, Emit, pushVars
<1>5. CASE \E d \in Devices : UnregisterDevice(d) \/ \E u \in Users : RegisterDevice(d, u)
  BY <1>5 DEF UnregisterDevice, RegisterDevice
<1>6. CASE \E m \in Messages : BecomesDue(m) \/ BecomesOld(m)
  BY <1>6 DEF BecomesDue, BecomesOld
<1> QED
  BY <1>1, <1>3, <1>4, <1>5, <1>6, WorkersKeepTypes DEF NotificationsNext, SomebodyRetries

\* Rows have one of their statuses, and workers hold what a delivery holds.
THEOREM NotificationsTypeCorrect == NotificationsSpec => []NotificationsTypeOK
BY TypeInit, TypeStep, PTL DEF NotificationsSpec
-----------------------------------------------------------------------------
(* What a step does to rows, copies, devices reached and tries             *)

\* All steps but those of a delivery leave rows alone, or create some
Creates(ms) ==
    /\ \A m \in ms : New(m)
    /\ row' = [m \in Messages |-> IF m \in ms THEN [row[m] EXCEPT !.status = "PENDING"] ELSE row[m]]

\* A worker that is not delivering yet, or no longer
Rests(w) ==
    /\ ~Sending(w)' /\ worker'[w].answer = "none"
    /\ \A v \in Workers \ {w} : worker'[v] = worker[v]

LEMMA TakeRests ==
    ASSUME NotificationsTypeOK, NEW w \in Workers, NEW ms \in SUBSET Messages, Take(w, ms)
    PROVE  Rests(w)
BY TakeIs DEF Rests, Take, NotificationsTypeOK, Idle, Sending

LEMMA OthersAre ==
    ASSUME NotificationsTypeOK, [NotificationsNext]_notificationVars,
           ~\E w \in Workers : WorkerStep(w)
    PROVE  /\ UNCHANGED <<shown, tries>>
           /\ \/ row' = row
              \/ \E ms \in SUBSET Messages : Creates(ms)
           /\ \/ worker' = worker
              \/ row' = row /\ \E w \in Workers : Rests(w)
<1>1. CASE UNCHANGED notificationVars
  BY <1>1 DEF notificationVars, pushVars
<1>2. CASE EventHappens \/ CreateBroadcast \/ \E r \in Requests : ChangeStatus(r)
  <2>1. CASE UNCHANGED pushVars
    BY <2>1 DEF pushVars
  <2>2. CASE Emit
    <3> PICK m \in Messages : New(m) /\ Create({m})
      BY <2>2 DEF Emit
    <3>1. Creates({m})
      BY DEF Creates, Create
    <3> QED
      BY <3>1 DEF Create
  <2>3. CASE CreateBroadcast
    <3> PICK ms \in SUBSET {m \in Messages : New(m)} : Create(ms)
      BY <2>3 DEF CreateBroadcast
    <3>1. ms \in SUBSET Messages /\ Creates(ms)
      BY DEF Creates, Create
    <3> QED
      BY <3>1 DEF Create
  <2> QED
    BY <1>2, <2>1, <2>2, <2>3 DEF EventHappens, ChangeStatus
<1>3. CASE \/ \E d \in Devices : UnregisterDevice(d) \/ \E u \in Users : RegisterDevice(d, u)
           \/ \E m \in Messages : BecomesDue(m) \/ BecomesOld(m)
  BY <1>3 DEF UnregisterDevice, RegisterDevice, BecomesDue, BecomesOld
<1>4. ASSUME NEW w \in Workers, TakeList(w) \/ WorkerDies(w) \/ RetryPending(w)
      PROVE  UNCHANGED <<row, shown, tries>> /\ Rests(w)
  <2>1. \E ms \in SUBSET Messages : Take(w, ms)
    BY <1>4 DEF TakeList, WorkerDies, RetryPending, Due, NotificationsTypeOK
  <2>2. Rests(w)
    BY <2>1, TakeRests
  <2> QED
    BY <1>4, <2>2 DEF TakeList, WorkerDies, RetryPending
<1> QED
  BY <1>1, <1>2, <1>3, <1>4 DEF NotificationsNext, SomebodyRetries

\* deliver reads: the worker is done with the notification, or copies its row
Copies(w, m) ==
    /\ worker'[w].m = m /\ row[m].status \notin Settled
    /\ worker'[w].attempts = row[m].attempts /\ worker'[w].pushed = row[m].pushed
    /\ worker'[w].answer = worker[w].answer
    /\ \A v \in Workers \ {w} : worker'[v] = worker[v]

LEMMA DeliverIs ==
    ASSUME NotificationsTypeOK, NoAnswerYet, NEW w \in Workers, NEW m \in Messages, Deliver(w, m)
    PROVE  /\ UNCHANGED <<row, shown, tries>>
           /\ worker[w].answer = "none"
           /\ Rests(w) \/ Copies(w, m)
<1>1. worker[w].answer = "none" /\ ~Sending(w)
  BY DEF Deliver, NoAnswerYet
<1>2. CASE row[m].status \in Settled
  <2>1. worker' = [worker EXCEPT ![w].todo = @ \ {m}]
    BY <1>2 DEF Deliver
  <2>2. Rests(w)
    BY <1>1, <2>1 DEF Rests, Sending, NotificationsTypeOK
  <2> QED
    BY <1>1, <2>2 DEF Deliver
<1>3. CASE row[m].status \notin Settled
  <2>1. worker' = [worker EXCEPT ![w] = [@ EXCEPT !.m = m, !.tokens = DevicesOf(Recipient[m]),
                                                  !.attempts = row[m].attempts, !.pushed = row[m].pushed]]
    BY <1>3 DEF Deliver
  <2>2. Copies(w, m)
    BY <1>3, <2>1 DEF Copies, NotificationsTypeOK
  <2> QED
    BY <1>1, <2>2 DEF Deliver
<1> QED
  BY <1>2, <1>3

\* The provider answers, and may have shown the notification
LEMMA PushIs ==
    ASSUME NotificationsTypeOK, NEW w \in Workers, Push(w)
    PROVE  LET m == worker[w].m IN
           /\ m \in Messages /\ row' = row /\ worker[w].answer = "none"
           /\ \A v \in Workers \ {w} : worker'[v] = worker[v]
           /\ worker'[w].m = m /\ worker'[w].tokens = worker[w].tokens
           /\ worker'[w].attempts = worker[w].attempts /\ worker'[w].pushed = worker[w].pushed
           /\ worker[w].tokens = {} => worker'[w].answer = "nobody"
           /\ worker'[w].answer \in Reaches => shown'[m] # {}
           /\ \A k \in Messages : shown[k] \subseteq shown'[k]
           /\ tries' = IF worker[w].tokens = {} THEN tries
                       ELSE [tries EXCEPT ![m] = IF @ < MaxTries THEN @ + 1 ELSE @]
<1> DEFINE m == worker[w].m
<1>1. m \in Messages /\ row' = row /\ worker[w].answer = "none"
  BY DEF Push, Sending, NotificationsTypeOK
<1>2. tries' = IF worker[w].tokens = {} THEN tries
               ELSE [tries EXCEPT ![m] = IF @ < MaxTries THEN @ + 1 ELSE @]
  BY DEF Push
<1>3. ASSUME NEW a, worker' = [worker EXCEPT ![w].answer = a]
      PROVE  /\ \A v \in Workers \ {w} : worker'[v] = worker[v]
             /\ worker'[w].m = m /\ worker'[w].tokens = worker[w].tokens
             /\ worker'[w].attempts = worker[w].attempts /\ worker'[w].pushed = worker[w].pushed
             /\ worker'[w].answer = a
  BY <1>3 DEF NotificationsTypeOK
<1>4. CASE \E delivered \in SUBSET worker[w].tokens :
             \E failed \in SUBSET (worker[w].tokens \ delivered) :
                /\ worker' = [worker EXCEPT ![w].answer = Answer(delivered, failed)]
                /\ shown' = [shown EXCEPT ![m] = @ \union delivered]
  <2> PICK delivered \in SUBSET worker[w].tokens :
             \E failed \in SUBSET (worker[w].tokens \ delivered) :
                /\ worker' = [worker EXCEPT ![w].answer = Answer(delivered, failed)]
                /\ shown' = [shown EXCEPT ![m] = @ \union delivered]
    BY <1>4
  <2> PICK failed \in SUBSET (worker[w].tokens \ delivered) :
                /\ worker' = [worker EXCEPT ![w].answer = Answer(delivered, failed)]
                /\ shown' = [shown EXCEPT ![m] = @ \union delivered]
    OBVIOUS
  <2>1. \A k \in Messages : shown'[k] = IF k = m THEN shown[k] \union delivered ELSE shown[k]
    BY <1>1 DEF NotificationsTypeOK
  <2>2. /\ Answer(delivered, failed) \in Reaches => delivered # {}
        /\ worker[w].tokens = {} => Answer(delivered, failed) = "nobody"
    BY DEF Answer, Reaches
  <2>3. worker'[w].answer = Answer(delivered, failed)
    BY <1>3
  <2> HIDE DEF m
  <2>4. /\ worker'[w].answer \in Reaches => shown'[m] # {}
        /\ \A k \in Messages : shown[k] \subseteq shown'[k]
    BY <1>1, <2>1, <2>2, <2>3
  <2> QED
    BY <1>1, <1>2, <1>3, <2>2, <2>3, <2>4 DEF m
<1>5. CASE worker[w].tokens # {} /\ worker' = [worker EXCEPT ![w].answer = "broken"] /\ shown' = shown
  BY <1>1, <1>2, <1>3, <1>5 DEF Reaches
<1> QED
  BY <1>4, <1>5 DEF Push

\* The copy is saved
LEMMA DeliveredIs ==
    ASSUME NotificationsTypeOK, NEW w \in Workers, Delivered(w)
    PROVE  LET m == worker[w].m
               n == worker[w].attempts + 1
           IN  /\ m \in Messages /\ n \in Nat /\ Rests(w) /\ UNCHANGED <<shown, tries>>
               /\ worker[w].answer # "none" /\ Sending(w)
               /\ \A k \in Messages \ {m} : row'[k] = row[k]
               /\ row'[m].status = StatusAfter(worker[w].answer, n)
               /\ row'[m].attempts = n
               /\ row'[m].pushed = (worker[w].pushed \/ worker[w].answer \in Reaches)
<1> DEFINE m == worker[w].m
           n == worker[w].attempts + 1
           new == [status |-> StatusAfter(worker[w].answer, n), attempts |-> n,
                   pushed |-> worker[w].pushed \/ worker[w].answer \in {"delivered", "partly"}]
<1>1. /\ row' = [row EXCEPT ![m] = new] /\ Take(w, worker[w].todo \ {m})
      /\ UNCHANGED <<shown, tries>> /\ worker[w].answer # "none" /\ Sending(w)
  BY DEF Delivered
<1>2. m \in Messages /\ n \in Nat /\ worker[w].todo \ {m} \in SUBSET Messages
  BY <1>1 DEF Sending, NotificationsTypeOK
<1>3. Rests(w)
  BY <1>1, <1>2, TakeRests
<1>4. /\ new.status = StatusAfter(worker[w].answer, n) /\ new.attempts = n
      /\ new.pushed = (worker[w].pushed \/ worker[w].answer \in Reaches)
  BY DEF Reaches
<1> HIDE DEF new
<1>5. row'[m] = new /\ \A k \in Messages \ {m} : row'[k] = row[k]
  BY <1>1, <1>2 DEF NotificationsTypeOK
<1> QED
  BY <1>1, <1>2, <1>3, <1>4, <1>5

\* Which of these a step is
LEMMA StepCases ==
    ASSUME NotificationsTypeOK, [NotificationsNext]_notificationVars
    PROVE  \/ ~\E w \in Workers : WorkerStep(w)
           \/ \E w \in Workers : \/ \E m \in Messages : Deliver(w, m)
                                \/ Push(w)
                                \/ Delivered(w)
BY DEF WorkerStep

LEMMA AnswersInit == NotificationsInit => NoAnswerYet
BY DEF NotificationsInit, NoAnswerYet, Idle

LEMMA AnswersStep ==
    ASSUME NotificationsTypeOK, NoAnswerYet, [NotificationsNext]_notificationVars
    PROVE  NoAnswerYet'
<1>1. ASSUME NEW w \in Workers, Rests(w)
      PROVE  NoAnswerYet'
  BY <1>1 DEF NoAnswerYet, Rests, Sending
<1>2. CASE ~\E w \in Workers : WorkerStep(w)
  BY <1>1, <1>2, OthersAre DEF NoAnswerYet, Sending
<1>3. ASSUME NEW w \in Workers, NEW m \in Messages, Deliver(w, m)
      PROVE  NoAnswerYet'
  BY <1>1, <1>3, DeliverIs DEF NoAnswerYet, Copies, Sending
<1>4. ASSUME NEW w \in Workers, Push(w)
      PROVE  NoAnswerYet'
  <2>1. \A v \in Workers \ {w} : worker'[v] = worker[v]
    BY <1>4, PushIs
  <2>2. worker'[w].m # None
    BY <1>4, PushIs
  <2> QED
    BY <2>1, <2>2 DEF NoAnswerYet, Sending
<1>5. ASSUME NEW w \in Workers, Delivered(w)
      PROVE  NoAnswerYet'
  BY <1>1, <1>5, DeliveredIs
<1> QED
  BY <1>2, <1>3, <1>4, <1>5, StepCases
-----------------------------------------------------------------------------
(* SENT was shown *)

LEMMA ShownInit == NotificationsInit => ShownInv
<1> SUFFICES ASSUME NotificationsInit  PROVE SentWasShown /\ CopiesWereShown
  BY TypeInit, AnswersInit DEF ShownInv
<1> QED
  BY DEF NotificationsInit, SentWasShown, CopiesWereShown, Sending, Idle

\* Rows that were there, or were made now, and copies that were there
LEMMA KeepsShown ==
    ASSUME ShownInv, UNCHANGED shown,
           \A m \in Messages :
               /\ row'[m].pushed = row[m].pushed
               /\ row'[m].status \in {row[m].status, "PENDING"},
           \A v \in Workers :
               Sending(v)' => \/ Sending(v) /\ worker'[v] = worker[v]
                              \/ worker'[v].answer = "none" /\ \E m \in Messages :
                                    worker'[v].m = m /\ worker'[v].pushed = row[m].pushed
    PROVE  SentWasShown' /\ CopiesWereShown'
<1>1. SentWasShown'
  BY DEF ShownInv, SentWasShown
<1>2. CopiesWereShown'
  <2> SUFFICES ASSUME NEW v \in Workers, Sending(v)',
                      worker'[v].pushed \/ worker'[v].answer \in Reaches
               PROVE  shown'[worker'[v].m] # {}
    BY DEF CopiesWereShown
  <2>1. CASE Sending(v) /\ worker'[v] = worker[v]
    BY <2>1 DEF ShownInv, CopiesWereShown
  <2>2. CASE worker'[v].answer = "none"
    BY <2>2 DEF ShownInv, SentWasShown, CopiesWereShown, Reaches
  <2> QED
    BY <2>1, <2>2
<1> QED
  BY <1>1, <1>2

LEMMA ShownStep == ShownInv /\ [NotificationsNext]_notificationVars => ShownInv'
<1> SUFFICES ASSUME ShownInv, [NotificationsNext]_notificationVars
             PROVE  SentWasShown' /\ CopiesWereShown'
  BY TypeStep, AnswersStep DEF ShownInv
<1>0. NotificationsTypeOK /\ NoAnswerYet
  BY DEF ShownInv
<1>1. ASSUME NEW w \in Workers, Rests(w), UNCHANGED <<row, shown>>
      PROVE  SentWasShown' /\ CopiesWereShown'
  BY <1>1, KeepsShown DEF Rests, Sending
<1>2. CASE ~\E w \in Workers : WorkerStep(w)
  <2>1. ASSUME NEW ms \in SUBSET Messages, Creates(ms), UNCHANGED <<worker, shown>>
        PROVE  SentWasShown' /\ CopiesWereShown'
    <3>1. \A m \in Messages : /\ row'[m].pushed = row[m].pushed
                              /\ row'[m].status \in {row[m].status, "PENDING"}
      BY <1>0, <2>1 DEF Creates, NotificationsTypeOK
    <3> QED
      BY <2>1, <3>1, KeepsShown DEF Sending
  <2>2. CASE UNCHANGED <<row, worker, shown>>
    BY <2>2, KeepsShown DEF Sending
  <2> QED
    BY <1>0, <1>1, <1>2, <2>1, <2>2, OthersAre
<1>3. ASSUME NEW w \in Workers, NEW m \in Messages, Deliver(w, m)
      PROVE  SentWasShown' /\ CopiesWereShown'
  <2>1. CASE Copies(w, m)
    BY <1>0, <1>3, <2>1, DeliverIs, KeepsShown DEF Copies, Sending
  <2> QED
    BY <1>0, <1>1, <1>3, <2>1, DeliverIs
<1>4. ASSUME NEW w \in Workers, Push(w)
      PROVE  SentWasShown' /\ CopiesWereShown'
  <2> DEFINE m == worker[w].m
  <2>1. /\ m \in Messages /\ row' = row
        /\ \A v \in Workers \ {w} : worker'[v] = worker[v]
        /\ worker'[w].m = m /\ worker'[w].pushed = worker[w].pushed
        /\ worker'[w].answer \in Reaches => shown'[m] # {}
        /\ \A k \in Messages : shown[k] \subseteq shown'[k]
    BY <1>0, <1>4, PushIs
  <2>2. SentWasShown'
    BY <2>1 DEF ShownInv, SentWasShown
  <2>3. ASSUME NEW v \in Workers, v # w, Sending(v)',
               worker'[v].pushed \/ worker'[v].answer \in Reaches
        PROVE  shown'[worker'[v].m] # {}
    <3>1. worker'[v] = worker[v] /\ Sending(v) /\ worker[v].m \in Messages
      BY <1>0, <2>1, <2>3 DEF Sending, NotificationsTypeOK
    <3>2. shown[worker[v].m] # {}
      BY <2>3, <3>1 DEF ShownInv, CopiesWereShown
    <3> QED
      BY <2>1, <3>1, <3>2
  <2>4. ASSUME worker'[w].pushed
        PROVE  shown'[m] # {}
    <3>1. worker[w].pushed /\ Sending(w)
      BY <1>4, <2>1, <2>4 DEF Push
    <3>2. shown[m] # {}
      BY <3>1 DEF ShownInv, CopiesWereShown
    <3> QED
      BY <2>1, <3>2
  <2>5. CopiesWereShown'
    BY <2>1, <2>3, <2>4 DEF CopiesWereShown
  <2> QED
    BY <2>2, <2>5
<1>5. ASSUME NEW w \in Workers, Delivered(w)
      PROVE  SentWasShown' /\ CopiesWereShown'
  <2> DEFINE m == worker[w].m
             n == worker[w].attempts + 1
             a == worker[w].answer
  <2>1. /\ m \in Messages /\ Rests(w) /\ UNCHANGED shown /\ Sending(w)
        /\ \A k \in Messages \ {m} : row'[k] = row[k]
        /\ row'[m].status = StatusAfter(a, n)
        /\ row'[m].pushed = (worker[w].pushed \/ a \in Reaches)
    BY <1>0, <1>5, DeliveredIs
  <2>2. StatusAfter(a, n) \in {"SENT", "PARTIAL"} => a \in Reaches
    BY StatusIs DEF Reaches, PendingOrFailed
  <2>3. row'[m].status \in {"SENT", "PARTIAL"} \/ row'[m].pushed => shown[m] # {}
    BY <2>1, <2>2 DEF ShownInv, CopiesWereShown
  <2>4. SentWasShown'
    BY <2>1, <2>3 DEF ShownInv, SentWasShown
  <2>5. CopiesWereShown'
    BY <2>1 DEF ShownInv, CopiesWereShown, Rests, Sending
  <2> QED
    BY <2>4, <2>5
<1> QED
  BY <1>0, <1>2, <1>3, <1>4, <1>5, StepCases

\* SENT, PARTIAL and the moment of the push say that the notification appeared
\* on a device, for any number of deliveries that write over each other
\* (notifications.py, deliver).
THEOREM SentIsTrue == NotificationsSpec => []SentWasShown
<1>1. ShownInv => SentWasShown
  BY DEF ShownInv
<1> QED
  BY <1>1, ShownInit, ShownStep, PTL DEF NotificationsSpec
-----------------------------------------------------------------------------
(***************************************************************************)
(* FAILED was tried.  A count that is saved is that of a copy, so rows may *)
(* count fewer tries than there were, but never more: each copy was read   *)
(* from a row that was covered, and its worker made one try since.         *)
(***************************************************************************)

LEMMA TriesInit == NotificationsInit => TriesInv
<1> SUFFICES ASSUME NotificationsInit  PROVE RowsAreCovered /\ CopiesAreCovered
  BY TypeInit, AnswersInit DEF TriesInv
<1> QED
  BY DEF NotificationsInit, RowsAreCovered, CopiesAreCovered, Covered, Sending, Idle

LEMMA TriesStep == TriesInv /\ [NotificationsNext]_notificationVars => TriesInv'
<1> SUFFICES ASSUME TriesInv, [NotificationsNext]_notificationVars
             PROVE  RowsAreCovered' /\ CopiesAreCovered'
  BY TypeStep, AnswersStep DEF TriesInv
<1>0. NotificationsTypeOK /\ NoAnswerYet
  BY DEF TriesInv
<1>1. ASSUME NEW w \in Workers, Rests(w), UNCHANGED <<row, tries>>
      PROVE  RowsAreCovered' /\ CopiesAreCovered'
  BY <1>1 DEF TriesInv, RowsAreCovered, CopiesAreCovered, Covered, Counted, Tried, Rests, Sending
<1>2. CASE ~\E w \in Workers : WorkerStep(w)
  <2>1. ASSUME NEW ms \in SUBSET Messages, Creates(ms), UNCHANGED <<worker, tries>>
        PROVE  RowsAreCovered' /\ CopiesAreCovered'
    <3>1. \A m \in Messages : /\ row'[m].attempts = row[m].attempts
                              /\ \/ row'[m].status = row[m].status
                                 \/ row'[m].status = "PENDING" /\ row[m].status = "none"
      BY <1>0, <2>1 DEF Creates, New, NotificationsTypeOK
    <3>2. RowsAreCovered'
      BY <2>1, <3>1 DEF TriesInv, RowsAreCovered, Covered, Settled
    <3>3. CopiesAreCovered'
      BY <2>1 DEF TriesInv, CopiesAreCovered, Covered, Counted, Tried, Sending
    <3> QED
      BY <3>2, <3>3
  <2>2. CASE UNCHANGED <<row, worker, tries>>
    BY <2>2 DEF TriesInv, RowsAreCovered, CopiesAreCovered, Covered, Counted, Tried, Sending
  <2> QED
    BY <1>0, <1>1, <1>2, <2>1, <2>2, OthersAre
<1>3. ASSUME NEW w \in Workers, NEW m \in Messages, Deliver(w, m)
      PROVE  RowsAreCovered' /\ CopiesAreCovered'
  <2>1. CASE Copies(w, m)
    <3>1. UNCHANGED <<row, tries>> /\ worker'[w].answer = "none"
      BY <1>0, <1>3, <2>1, DeliverIs DEF Copies
    <3>2. Covered(m, row[m].attempts)
      BY <2>1 DEF Copies, TriesInv, RowsAreCovered
    <3>3. RowsAreCovered'
      BY <3>1 DEF TriesInv, RowsAreCovered, Covered
    <3>4. CopiesAreCovered'
      BY <2>1, <3>1, <3>2 DEF TriesInv, CopiesAreCovered, Covered, Counted, Tried, Copies, Sending
    <3> QED
      BY <3>3, <3>4
  <2> QED
    BY <1>0, <1>1, <1>3, <2>1, DeliverIs
<1>4. ASSUME NEW w \in Workers, Push(w)
      PROVE  RowsAreCovered' /\ CopiesAreCovered'
  <2> DEFINE m == worker[w].m
  <2>1. /\ m \in Messages /\ row' = row /\ worker[w].answer = "none"
        /\ \A v \in Workers \ {w} : worker'[v] = worker[v]
        /\ worker'[w].m = m /\ worker'[w].tokens = worker[w].tokens
        /\ worker'[w].attempts = worker[w].attempts
        /\ worker[w].tokens = {} => worker'[w].answer = "nobody"
        /\ tries' = IF worker[w].tokens = {} THEN tries
                    ELSE [tries EXCEPT ![m] = IF @ < MaxTries THEN @ + 1 ELSE @]
    BY <1>0, <1>4, PushIs
  <2>2. Sending(w) /\ worker[w].attempts \in Nat
    BY <1>0, <1>4 DEF Push, NotificationsTypeOK
  <2> HIDE DEF m
  <2>3. \A k \in Messages, n \in Nat : Covered(k, n) => Covered(k, n)'
    BY <1>0, <2>1 DEF Covered, NotificationsTypeOK
  <2>4. ASSUME worker[w].tokens # {}, NEW n \in Nat, Covered(m, n)
        PROVE  n + 1 <= tries'[m] \/ tries'[m] = MaxTries
    <3>1. tries[m] \in 0 .. MaxTries
      BY <1>0, <2>1 DEF NotificationsTypeOK
    <3>2. tries'[m] = IF tries[m] < MaxTries THEN tries[m] + 1 ELSE tries[m]
      BY <1>0, <2>1, <2>4 DEF NotificationsTypeOK
    <3> QED
      BY <2>4, <3>1, <3>2 DEF Covered
  <2>5. RowsAreCovered'
    <3>1. \A k \in Messages : row[k].attempts \in Nat
      BY <1>0 DEF NotificationsTypeOK
    <3> QED
      BY <2>1, <2>3, <3>1 DEF TriesInv, RowsAreCovered
  <2>6. ASSUME NEW v \in Workers \ {w}, Sending(v)'
        PROVE  /\ Covered(worker[v].m, Counted(v))' 
               /\ worker'[v].tokens = {} => worker'[v].answer \in {"none", "nobody"}
    <3>1. worker'[v] = worker[v] /\ Sending(v) /\ worker[v].m \in Messages
      BY <1>0, <2>1, <2>6 DEF Sending, NotificationsTypeOK
    <3>2. Counted(v)' = Counted(v) /\ Counted(v) \in Nat
      BY <1>0, <3>1 DEF Counted, Tried, NotificationsTypeOK
    <3>3. Covered(worker[v].m, Counted(v))
      BY <3>1 DEF TriesInv, CopiesAreCovered
    <3>4. Covered(worker[v].m, Counted(v))'
      BY <2>3, <3>1, <3>2, <3>3 DEF Covered
    <3> QED
      BY <3>1, <3>4 DEF TriesInv, CopiesAreCovered
  <2>7. /\ Covered(worker[w].m, Counted(w))'
        /\ worker'[w].tokens = {} => worker'[w].answer \in {"none", "nobody"}
    <3>1. Covered(m, worker[w].attempts)
      BY <2>1, <2>2 DEF TriesInv, CopiesAreCovered, Counted, Tried, m
    <3>2. CASE worker[w].tokens = {}
      <4>1. Counted(w)' = worker[w].attempts
        BY <2>1, <3>2 DEF Counted, Tried
      <4> QED
        BY <2>1, <2>2, <3>1, <3>2, <4>1 DEF Covered, m
    <3>3. CASE worker[w].tokens # {}
      <4>1. worker[w].attempts + 1 <= tries'[m] \/ tries'[m] = MaxTries
        BY <2>2, <2>4, <3>1, <3>3
      <4>2. Counted(w)' \in {worker[w].attempts, worker[w].attempts + 1}
        BY <2>1 DEF Counted, Tried
      <4>3. tries'[m] \in Nat
        BY <1>0, <2>1 DEF NotificationsTypeOK
      <4>4. Counted(w)' <= tries'[m] \/ tries'[m] = MaxTries
        BY <2>2, <4>1, <4>2, <4>3
      <4> QED
        BY <2>1, <3>3, <4>4 DEF Covered, m
    <3> QED
      BY <3>2, <3>3
  <2>8. CopiesAreCovered'
    BY <2>6, <2>7 DEF CopiesAreCovered
  <2> QED
    BY <2>5, <2>8
<1>5. ASSUME NEW w \in Workers, Delivered(w)
      PROVE  RowsAreCovered' /\ CopiesAreCovered'
  <2> DEFINE m == worker[w].m
             n == worker[w].attempts + 1
             a == worker[w].answer
  <2>1. /\ m \in Messages /\ n \in Nat /\ Rests(w) /\ UNCHANGED tries
        /\ a # "none" /\ Sending(w)
        /\ \A k \in Messages \ {m} : row'[k] = row[k]
        /\ row'[m].status = StatusAfter(a, n) /\ row'[m].attempts = n
    BY <1>0, <1>5, DeliveredIs
  <2>2. /\ StatusAfter(a, n) = "FAILED" => n >= MaxAttempts
        /\ StatusAfter(a, n) \notin Settled => a \notin {"none", "nobody"}
    BY <2>1, StatusIs DEF PendingOrFailed, Settled
  <2>3. row'[m].status \notin Settled => Covered(m, n)
    <3> SUFFICES ASSUME a \notin {"none", "nobody"}
                 PROVE  Covered(m, n)
      BY <2>1, <2>2
    <3>1. Counted(w) = n
      BY <2>1 DEF TriesInv, CopiesAreCovered, Counted, Tried
    <3> QED
      BY <2>1, <3>1 DEF TriesInv, CopiesAreCovered
  <2> HIDE DEF m, n, a
  <2>4. RowsAreCovered'
    BY <2>1, <2>2, <2>3 DEF TriesInv, RowsAreCovered, Covered
  <2>5. CopiesAreCovered'
    BY <2>1 DEF TriesInv, CopiesAreCovered, Covered, Counted, Tried, Rests, Sending
  <2> QED
    BY <2>4, <2>5
<1> QED
  BY <1>0, <1>2, <1>3, <1>4, <1>5, StepCases

LEMMA TriesIs == TriesInv => GivenUpAfterTries
<1> SUFFICES ASSUME TriesInv, NEW m \in Messages, row[m].status = "FAILED"
             PROVE  tries[m] >= MaxAttempts
  BY DEF GivenUpAfterTries
<1>1. row[m].attempts \in Nat /\ tries[m] \in Nat
  BY DEF TriesInv, NotificationsTypeOK
<1>2. row[m].attempts >= MaxAttempts /\ Covered(m, row[m].attempts)
  BY DEF TriesInv, RowsAreCovered, Settled
<1> QED
  BY <1>1, <1>2 DEF Covered

\* No notification is given up before as many deliveries as the limit says tried
\* to reach a device, however many deliveries overlap, die or save an old count
\* (notifications.py, deliver and _pending_or_failed).
THEOREM FailedWasTried == NotificationsSpec => []GivenUpAfterTries
BY TriesIs, TriesInit, TriesStep, PTL DEF NotificationsSpec
=============================================================================
