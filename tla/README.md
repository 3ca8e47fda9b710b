# cleaning_house: a TLA+ model of the marketplace

The program (Django and Ninja, Postgres) lets a customer book a cleaning, offers the booking to one
contractor after another, charges the customer when one accepts, follows the job to its confirmation
and pays the contractor. Around that path lie accounts and their sessions, administrators, the
verification of contractors, properties, invoices, notifications and the catalogue. These modules
model all of that with everything that may happen in between: racing requests, periodic tasks, lost
hooks, processes that die, provider calls that break, events that come late.

All handlers run in two gunicorn workers (`--timeout 60`, `Procfile`) and in a process that runs the
periodic tasks every five minutes (`run_periodic_tasks`, started by the cron of the `Procfile`; Celery's
beat, where it is used, runs most of them). The database runs at
READ COMMITTED; what protects a row is `select_for_update`, a uniqueness constraint, a conditional
update, or nothing. That distinction decides what is one action here and what is several.

## 1. The system

| component (`src/apps/...`) | state | operations | talks to | what is hard | what makes it correct |
|---|---|---|---|---|---|
| **Quotes** `bookings/services/quotes.py`, `api/bookings.py` | BookingQuote: frozen services, maximum, expiry | create, check, use in a booking | pricing, bookings | check and use are two transactions | never charged above the maximum |
| **Travel pricing** `services/services/travel_pricing.py`, `catalog.py` | PricingConfig singleton, ServiceType | fee, rounding, totals; the administrator's updates | quotes, dispatch | exact arithmetic; rules that change after a quote | total within the maximum |
| **Selections, legacy estimate** `quotes.py`, `bookings.py`, `services/services/pricing.py` | - | refuse, price | catalogue | the same sum is computed in three places | the three agree |
| **Opening hours** `bookings/services/scheduling.py` | ServiceHours window | is it open, when does it open | bookings | windows across midnight, seconds | what is shown can be booked |
| **Bookings** `bookings/services/bookings.py` | Booking status, dispatch status, time, contractor | create, cancel, reschedule | dispatch (commit hook), payments (reads) | cancelling against accepting and charging | columns agree |
| **Dispatch** `bookings/services/dispatch.py`, `tasks.py` | DispatchOffer | next contractor, expiry sweep with cascade, recovery | offers, directions | four callers, hooks that may be lost | one holder; the search ends |
| **Offers** `bookings/services/offers.py` | DispatchOffer | accept, decline | dispatch, payments (commit hook) | an answer as the offer expires | a reservation is kept |
| **Payments** `payments/` | Payment, attempts, provider intents | charge, retry, 3-D Secure, webhook, confirm, reconcile, refund | Stripe, bookings, jobs | calls that break, late events, stale rows | nobody works unpaid |
| **Jobs, photos** `jobs/` | Job, JobPhoto | arrive, start, photograph, done, confirm, remind, auto-confirm | storage, payouts (commit hook) | an upload in progress, a stale list | confirmed on evidence, once; waiting ends |
| **Payouts** `payouts/services/payouts.py` | Payout | release, record, repair, reconcile | Stripe Connect | two releases at once, a transfer that breaks | transferred once, for confirmed work |
| **Connected accounts** `payouts/services/connect.py` | ConnectedAccount, account events | onboard, refresh, webhook | Stripe Connect, payouts | events in any order, onboarding twice | paid into the one account |
| **OTP** `accounts/services/otp.py` | OTPVerification | request, verify | SMS | limits counted before a wait for rows | the limits are overshot by little |
| **Admin login** `accounts/services/admin_auth.py` | lockout, challenges, trusted devices | both steps, resend | OTP | code and challenge are two transactions | one login per challenge and code |
| **Administrators** `admin_auth.py` | User, superuser flag | create, update, reset | audit (waits for the actor's row) | a row read earlier is written back | one superuser remains (it may not) |
| **Accounts, sessions, social login** `tokens.py`, `sessions.py`, `identity.py`, `social.py`, `backoffice_users.py`, `admin.py` | User, SocialAccount, refresh tokens | login, rotate, revoke, suspend, reactivate | OTP, providers | revocation against a login under way, stale copies | one successor; few sessions survive |
| **Account deletion** `account_deletion.py` | User and what hangs on it | blockers, delete | bookings, properties, sessions | blockers read without locks | nothing in progress loses its owner |
| **Verification** `contractors/services/` | profile, registrations, insurances, files, position | submit, attach, review, report | storage, dispatch (eligibility) | submissions checked without a lock, an upload during a review | reviewed rows frozen, files there |
| **Properties** `properties/services/properties.py` | Property, address | update, move, remove | bookings | a booking being made meanwhile | - (see section 6) |
| **Aftercare** `aftercare/` | Review, RecleanRequest, Invoice, counter | review, request, decide, issue | bookings | numbers without gaps | consecutive numbers |
| **Notifications, support** `notifications/`, `support/` | Notification, DeviceToken, SupportRequest | emit, broadcast, deliver, retry | push | delivery by two processes at once | sent, or given up after the limit |
| **Home details and icons** `services/services/home_details.py`, `icons.py` | fields, options, icons, remembered answers | edit, delete, freeze, prefill | storage, bookings | copies saved over rows that changed | nothing dangles; forms are valid |
| **Who sees what** `accounts/roles.py`, the permission checks of the services, the serializers of `*/api/` | - | may look, may act, fields of an answer | all of the above | many routes to one visit | the door is for the one assigned |
| **Job tracking, audit, dashboards, HTTP layer, admin site** | last position, log rows | read, write | - | - | - |

`PROJECT.json` lists every component with its status, and every hazard at its line.

## 2. The modules

| module | models | state of the code |
|---|---|---|
| `Assignment` | the abstract promise: a booking is with nobody or with one contractor, who is the one it ends with | - |
| `Dispatch` | one booking, its offers, sweep, cascade, recovery | `status`, `dispatchStatus`, `assigned`, `offers` are columns; `calls` are hook and cascade calls that have yet to run |
| `Payments` | extends `Dispatch` with the booking's payment | `payStatus`, `attempt`, `ref`, `unknown` are the row; `call` is what a process knows, `intent` what the provider knows |
| `Fulfilment` | one job, its photos and payout | `job`, `photos`, `payout`, `unknown` are rows; `uploading`, `due`, `release` are what processes hold between two steps; `made` is what the provider knows |
| `Connect` | the contractor's account at the payout provider | `linked`, `status`, `seen` are rows; `onboarding` is what requests hold; `accounts`, `sent` are the provider's |
| `PaidOut` | `Fulfilment` composed with `Connect`: the flag "payouts may leave" becomes the account's status | - |
| `Pricing` | the arithmetic, in thousandths of a cent and metres | `travel_pricing.py` |
| `Quotes` | extends `Pricing`: quotes, racing requests, changing rules, offers' prices | `services`, `maximum`, `ceiling`, `total` are frozen columns; `request`, `using` are what a request knows |
| `Selections`, `Scheduling` | pure functions: what a selection costs or why it is refused, and its invoice; when a visit may start | `quotes.py`, `bookings.py`, `pricing.py`, `aftercare.py`, `scheduling.py` |
| `Otp` | codes for one number: limits, delivery, verification | `code` are rows; `open` is a transaction of `generate_and_send`: how far it is, the rows it found and those it has locked |
| `AdminLogin` | extends `Otp`: password, lockout, challenge, trusted device | `admin`, `challenge`, `trusted` are rows; `flow` is what a worker knows |
| `Superusers` | administrators who manage each other | `row` are flags of `User`; `req` is what a request has read, and the row it holds |
| `Accounts` | phone and social login, refresh tokens, suspension, deletion | `user`, `link`, `token` are rows; `req` is what a worker has read; `bulk` is a suspension of the admin site under way; `sealed` remembers who was shut out under the row lock, and `acts` counts what administrators did |
| `Contractors` | profile, submissions, the attached file, reviews, position | `avail`, `regs`, `docs` are rows, `files` the storage; `work` is what a worker holds |
| `Customers` | booking, moving, removing, deleting around one property | `account`, `listed`, `address`, `stage`, `priced`; `req` is what a worker has checked |
| `Aftercare` | extends `Customers`: re-clean requests, invoices | rows, the year's counter, and what a clerk holds |
| `Notifications` | notifications, devices, delivery, support requests | `row`, `owner`, `support` are rows; `queue` is the broker's; `worker` is what a delivery has read; `shown` what the devices know; `tries` how often each was tried |
| `Access` | pure functions: who may look at a visit or act on it, and what the answers show | `roles.py`, the checks of the services, the serializers |
| `Catalog` | questions, options, icons, remembered answers | rows by id; `edit` is the copy an administrator's request will save |
| `..._proofs` | theorems; `Payments_proofs` has those of `Dispatch` too, `PaidOut_proofs` those of `Fulfilment`, `AdminLogin_proofs` those of `Otp`, and `Booking_proofs` those of what a booking form rests on: `Pricing`, `Quotes`, `Scheduling` and `Catalog` | - |
| `MC...` | small instances for TLC | - |

They follow one another: `Quotes` ends with a priced offer, `Dispatch` with a reserved one, `Payments`
with a confirmed booking, from where `Fulfilment` begins, whose transfers go to the account of
`Connect`. `Payments` is composed with `Dispatch`, `PaidOut` of `Fulfilment` and `Connect`,
`AdminLogin` with `Otp`, `Aftercare` with `Customers`. The others meet at a status that the later
component only reads: `Contractors` decides who is a candidate in `Dispatch`, `Customers` sees a
booking at the stages of the path above.

**What is one action.** A handler that locks its row before it looks is one action, its hooks being
actions of their own, because they run after the commit and may be lost. Handlers are split where the
code lets go of, or never takes, the lock:

- `ExpireOffer` closes an offer without the booking's lock; its cascade is a call that runs later, or
  never (`LoseCall`). `SelectStranded` chooses a booking that it locks only when its call runs.
- A charge is `StartCharge` or `PrepareRetry`, then `ProviderCharges`, `CallBreaks` or both, then
  `RecordOutcome`. The first attempt's transaction holds the booking lock throughout and shows its row
  only at the end, because `start_charge_for_booking` is itself atomic (`BookingLocked`); a retry
  commits first and holds nothing.
- `cancel_booking` looks at the payment (`BeginCancel`) before it commits (`FinishCancel`).
- An upload holds the job's lock while the storage is called (`uploading`); the auto-confirmation
  makes a list first (`SelectOverdue`) and locks each job later (`AutoConfirm`).
- A payout's worker looks (`BeginRelease`), inserts (`CreatePendingPayout`, where uniqueness decides),
  asks for the account, transfers and records, with no lock at any point. Onboarding, in contrast,
  holds the contractor's row while the provider makes the account.
- `POST /bookings` checks the quote (`GetUsableQuote`) and books (`CreateBooking`) in two transactions.
- `generate_and_send` counts without a lock (`BeginSend`); its UPDATE looks up the codes to expire
  (`FindPending`) and then waits for those of them that another transaction holds, and the new row is
  inserted (`InsertCode`); the SMS provider is called with the transaction open, which then commits
  (`GenerateAndSend`) or rolls back. A request that waited is not counted again, nor does it see what
  was inserted while it waited. `begin_login` makes the challenge after that commit (`ChallengeOpens`);
  `complete_login` looks at the challenge (`StartComplete`), commits the code (`VerifyCode`), and uses up
  the challenge in another transaction (`Consume`, `CompleteLogin`).
- A login reads the account before it issues tokens; a refresh reads the account, then rotates through
  the blacklist's unique row; a social login looks for the identity, then for the address, then links,
  and whoever loses the race for the identity is let into the winner's account; a profile is saved from
  the copy that authentication read. Each of these is a step of `Accounts`.
- `suspend_user` and the deletion revoke tokens under the lock of the row, for which an insertion that
  refers to the row waits. The bulk suspension of the admin site updates without that lock, reads the
  tokens (`ListSessions`) and commits later (`SuspendAccounts`).
- `update_admin` holds the row it changes FOR UPDATE; `reset_admin_password` reads (`ResetAdminPassword`),
  writes every column back (`SaveReset`) and commits; both insert an audit row whose reference to the
  actor is checked at the commit, which waits while somebody holds the actor (`ActorFree`).
- Submissions and invoices look, then insert: two steps in `Contractors` and `Aftercare`. The invoice's
  counter is taken inside a savepoint that a lost race rolls back.
- Edits of profiles, properties, questions and options are a read and a later save of the whole copy. An
  update of a property is the read, the check of the address (`PropertyChecked`) and the save.
- A delivery reads the row and the devices (`Deliver`), tries to reach the provider (`Push`), which may
  break before any call as well as after, and saves the copy (`Delivered`), with no lock.

Some handlers of jobs and payouts read the payment without locking it and commit right after. A refund
that commits in between could as well have come after them, since they write nothing that the refund
reads; so reading and committing are one action there.

**What is abstract.** Contractors, quotes, requests, devices and workers are names. Distances decide
nothing in `Dispatch`: any contractor whom `find_candidates` accepts may be next, and `PriceMayRefuse`
says whether a price may exceed the ceiling (`Quotes` says when). Time is whether a deadline has
passed. A photo is its type. What the outside stores, which the code never sees except by asking, is a
variable of the model (`intent`, `made`, `accounts`, `files`, `shown`) that the program's rows are
compared with. `Bad...` operators are slips that the properties must catch; they are not part of any
behaviour.

**Assumptions about the outside.** The provider answers a repeated idempotency key from the first time
and does not act on a request after the call that carried it has been reconciled. A superuser who
reconciles tells the truth. A social provider does not vouch for another's identity.

## 3. What is checked

Ten runs pass:

| run | instance | what it shows |
|---|---|---|
| `dispatch` | 3 contractors, 2 calls under way | `OneHolder` and `AssignmentAgrees`; `NobodyAskedTwice` at each step; it implements `Assignment`; `SearchEnds` |
| `payments` | 2 contractors, 2 attempts, 1 crash, 3-D Secure, late events | `AssignedIsCharged`, `SucceededIsCharged`; it implements `Dispatch`; `ReservedGetsPayment`, `PaidGetsAssigned` |
| `paid_out` | 2 workers, 3 photos, 2 crashes, 2 account events | `ConfirmedOnEvidence`, `EvidenceFrozen`, `TransferredOnce`, `PayoutTellsTruth`, `PaidIntoAccount`, `WaitingEnds`, `EarnedGetsPayout` |
| `quotes` | 2 quotes, 2 requests, 2 sets of rules, 2 service totals, 3 distances | `CeilingCoversQuotedRules`, `NeverAboveApproved`; its assumptions evaluate the functions of `Scheduling` on a clock of 6 ticks and those of `Selections` on every selection of up to two entries, and those of `Access` for every user of two beside every visit that can be |
| `accounts` | 2 accounts, 2 requests, 1 identity provider, 2 tokens, 2 acts of administrators | `RotatedOnce`, `ShutOutLeavesFew` |
| `admin_login` | 2 requests, 1 challenge, 4 codes, 2 a day | `LiveCodesBounded`, `OvershootBounded`, `ChallengeUsedOnce`, `LoginsHaveCodes` |
| `contractors` | 2 workers, 3 registrations, 2 documents, 2 files | `PendingBounded`, `AttachmentIsStored`, `ReviewedIsFrozen`, `ReviewDecides` |
| `aftercare` | 2 bookings, 2 workers, 2 clerks, 2 years, 2 addresses | `DeletionClosesWork`, `InvoicesGapless` |
| `notifications` | 2 workers, 2 devices, 1 notification, 2 attempts, lists of 1, 1 crash | `GivenUpAfterTries`, `SentWasShown`, `PushSettles` |
| `catalog` | 2 administrators, 2 questions, 2 options, 1 icon | `IconsExist`, `OptionsHaveQuestion`, `PrefillIsValid` |

Two show where the code does not do what a comment or docstring of it says; each finding quotes the
line:

| run | what happens |
|---|---|
| `charged_once_retry` | retrying while 3-D Secure of the first attempt is open leaves two intents, and both are captured |
| `superuser_remains` | ben resets anna's password, which reads her row; he makes her a superuser in another request; she demotes him, which is permitted since she is one; the reset writes her old row back, and no superuser remains |

Every module also defines its type invariant; those named in section 4 are proved.

**Bounds.** Three contractors let one hold the booking while a second is asked and a third remains.
Two calls under way are two of the four callers of `assign_next_contractor` at once; they all do the
same, so a third adds an order, not a kind of step. Two attempts are the least for a retry to race an
event about its predecessor. A crash can hit any call. Three photos let an upload at the limit race
another and a deletion race "done". Two workers are the hook and the repair task, or the two gunicorn
workers. Two account events are the least that can arrive out of order. Two sets of rules differ in
cap, price and rounding, so that rounding alone would break a ceiling that was not rounded likewise.
Four codes with a daily limit of two are a code, a resend by each of two requests at once of which one
waits for the other's row, and one more a day later; one challenge is all that two requests need to
meet. Two accounts are one that was shut out and another whose identity comes to lead to it, or its
successor at the same number; two tokens are one issued and its successor, or the sessions of two
workers. One provider is enough for a race for an identity. Two acts are a suspension and the return.
Three registrations are one decided and two that slipped in
together. Two questions may have one key, one after the other. In `Notifications` tries are
told apart up to `MaxTries`, the limit of attempts or more. `MaxCalls`, `MaxAttempts` (in
`Payments`), `MaxCrashes`, `MaxEvents`, `MaxCodes`, `MaxTokens`, `MaxActs`, `MaxTries`, `MaxRegs`,
`MaxDocs`, `MaxFiles`, `MaxAddress`, `MaxFields` and `MaxOptions` are bounds of the model and stand in
the guards; `MaxPhotos`, `MaxPerDay`, `MaxFailed`, `MaxLimit`, `RetryLimit` (the 500 rows of a run) and
`MaxAttempts` of `Otp` and `Notifications` are settings of the program.

Larger instances, too slow to keep as runs, pass as well: `admin_login` with two challenges, three codes,
`MaxPerDay = 2`, `MaxAttempts = 1` and `MaxFailed = 2` (4.2 million states) and with one challenge, three
codes, `MaxAttempts = 2` and `MaxFailed = 1` (1.4 million); `accounts` with `MaxActs = 3` (7.3 million);
`notifications` with two notifications, one device and one worker (145 thousand), where `RetryLimit = 1`
makes one notification wait for the other. The runs with `CHECK_DEADLOCK FALSE` end when the rows are used up and, say,
the only customer has deleted the account: the system may stop there.

`dispatch` sets `PriceMayRefuse = FALSE`. With TRUE, `SearchEnds` fails: the booking that
`CeilingNeverRefuses` of `Quotes` describes stays SEARCHING, and a SEARCHING booking cannot be
rescheduled.

**Fairness.** The sweep, the recovery, the repair and the retry of notifications run every minute to every
five, by Celery's beat (`src/config/settings/base.py`, lines 476 to 495) or by `run_periodic_tasks`
(lines 27 to 41), which the cron of the `Procfile` (lines 1 to 11) starts every five minutes. The
auto-confirmation is in the second only: without that cron, `WaitingEnds` has no ground. Hence weak fairness
of `ExpireOffer`, `SelectStranded`, `StartCharge`, `ConfirmPayment`, `BeginRelease`, `SelectOverdue`,
`AutoConfirm` and `SomebodyRetries`; time passes (`OfferLapses`, `HoursPass`, `BecomesDue`), but a
notification need not grow old. `RunCall` has strong fairness: any one call may be lost, but if calls
go on being made, one of them runs; a task that failed every time would defeat any recovery. A call to
the provider ends, if only by the worker's timeout (`CallBreaks`), and is recorded; a worker that has
taken a list of notifications goes on with it unless it dies. Nothing is assumed of customers,
contractors, events, the provider or the back office.

## 4. What is proved

TLAPS proves, for any number of contractors, workers, requests, quotes and the rest, and for any
bounds, every safety property of the passing runs, and both refinements between modules. The
assumptions are the ones named in the modules: that None is nobody, that sets of workers are finite,
that bounds are natural numbers, that rules and totals are what their columns allow. No number of identity
providers is assumed.

- **`Payments_proofs`, on `Dispatch`.** `DispatchInv` is the types with `OneHolder`,
  `ExhaustedHoldsNobody` and `AssignmentAgrees`, which are inductive together. The lemma
  `AssignNextContractorCases` reduces the handler that several actions share to three outcomes. The
  action properties and the refinement (`DispatchImplementsAssignment`) need the invariant at each
  step: that `RescheduleBooking` clears no reservation is `ExhaustedHoldsNobody`; that a cancellation
  leaves nobody holding the booking is `AssignmentAgrees`; and the mapping takes the holder to be the
  contractor whose offer is live or reserved, which `OneHolder` makes well defined.
- **`Payments_proofs`, on `Payments`.** `PaymentsImplementsDispatch` comes first: each step is a `Dispatch` step or
  leaves the booking alone, so the theorems above hold of the composition. `ChargeInv` adds what the
  two sides of the provider's boundary know of each other: an answer that a process holds is true of
  its intent (`AnswersAreTrue`), the row's attempt number covers all calls (`RowMatchesAttempts`), the
  reference is a real intent (`ReferenceIsReal`). `PaymentFollowsReservation` rests on the refinement:
  a charge starts only for a reservation, and the engine takes none back.
- **`PaidOut_proofs`.** Of `Fulfilment`: `EvidenceInv` says that an upload in progress has the job
  locked in IN_PROGRESS with room for its photo. `PayoutInv` says that one worker at most owns the row,
  that the row is PENDING while it does, and what was transferred at each of its steps;
  `TransferredOnce` and `PayoutTellsTruth` are its consequences. Then `PaidOutImplementsFulfilment`
  carries all of it to the composition with `Connect`: a step of the account is a flip of the flag or a
  stutter. `CompositionInv` adds that an account the row calls ENABLED is the provider's only one and
  was called so by an event (`AccountInv`), and that this stays so for a transfer under way
  (`TransferInv`), which gives `MoneyGoesHome`.
- **`Booking_proofs`.** `RoundingIsNearest` and `TotalWithinMaximum` are about `Pricing` alone: rounding
  is monotone for each of the four steps and the fee is capped. `QuotesInv` carries the quote's own
  arithmetic into the booking's ceiling, from which `CeilingCovers` and `OffersAreApproved` follow.
  `WithinIsArc`, `ClosedOpensAsShown`, `StaysClosed` and `ShownIsBookable` are about `Scheduling`: the
  comparison of minutes is the arc of the clock, and the moment shown is the first one open, for any
  length of day. They need windows without seconds; `SecondsAreLost` of `MCQuotes` shows why.
  `CatalogInv` is about `Catalog`: besides `IconsExist` and `OptionsHaveQuestion` it says that what an
  administrator holds in memory is a row `clean` accepted, under the id of a question or an option,
  whatever became of that row (`CleanRows`); so a late save may bring a question back, but never an
  ill-formed one. `PrefillAccepted` follows: an answer is checked when a form is filled, and the default
  of a clean question is within its own limits.
- **`Accounts_proofs`.** `RotInv` strengthens `RotatedOnce` with `OneHeir`: the request that got past the
  blacklist with a token is alone, and the token has no successor yet. `FewInv`, for `ShutOutKeepsFew`,
  counts for a sealed account (one shut out by deletion or by the API's suspension) not only the sessions that are live but every
  worker that is near: about to issue one, a finder that found the account by its address before it was
  shut out, or searching or linking an identity that leads to it by now. A finder that links its identity brings near
  those that show the same one; with F finders left among R workers these are R - F at most, and it is a
  finder no more. `Worth(F)` is twice what F finders can still bring, so that twice the sessions, twice
  the near and `Worth` stay within R(R + 1), which is the bound. Nobody else comes near a shut out
  account, because every other way in looks at the status first (`ShutOut`); a refresh moves a session
  and makes none, because it goes on for the account of its token (`RefreshesOwn`). At the moment of the
  sealing nothing is live and every worker may be near.
- **`AdminLogin_proofs`.** `CodesInv` says that the rows a transaction has updated and not committed
  are still PENDING and nobody else's, and that no two insert in the same place (`Held`). Every step of the
  login is one of `Otp` or leaves codes alone (`StepsAreOtp`). `LiveInv` is an injection from live codes
  to workers: a code is charged to the worker that made it, and a later transaction of that worker
  finds it, waits for it and replaces it, whatever was inserted by others meanwhile. `DayInv` counts
  recent rows together with requests that have passed the limits and not yet ended, since each will
  leave one more row however long it waits. `ChallengeInv` says that a worker that has won the
  conditional update holds a challenge nobody has used, and is alone with it;
  `CodedInv` counts challenges used and workers about to use one against verified codes, which stay
  verified. `LoginInv` joins them
  with the types of the lockout and of the workers, for `AdminLoginTypeCorrect`.
- **`Contractors_proofs`.** `FilesInv` is what `AttachmentStored` and `ReviewFrozen` rest on: no two
  documents name one file, an upload in progress writes a file nobody names (`UploadsAreNew`), and a
  file being tidied away is named no more (`TidiedIsUnnamed`). `PendingInv` counts rows that wait and
  workers that have looked. `OnlyReviewsDecide` follows from the actions: a submission adds a row that
  waits, and neither eligibility nor the demand to act looks at rows that wait, unless there is no other.
- **`Aftercare_proofs`.** `InvoicesInv`: a clerk that has counted holds the number after the last
  (`ClerksKnow`), alone for its year (`OneCounts`), and every invoice has a number that was counted
  (`Issued`). `DeletionInv` counts bookings that wait together with requests that checked
  before and may still book: fewer than the workers, since one of them deleted. The types of the rows are
  proved apart, in `AftercareTypeCorrect`.
- **`Notifications_proofs`.** A delivery saves a copy, so what a row says must be true of whatever copy
  is saved last. `ShownInv` has the devices confirmed so far behind every answer and every copy that
  says the notification was pushed. `TriesInv` compares counts with tries: a row's count, and the
  count a worker is about to save, are covered by tries that were made (`RowsAreCovered`,
  `CopiesAreCovered`); tries only grow, so a stale copy is covered too. A try may break before the
  provider is called, and counts nevertheless; a delivery that found no device makes none and says
  NO_DEVICE, never FAILED.

**Only model-checked:** the liveness properties (`SearchEnds`, `ReservedGetsPayment`,
`PaidGetsAssigned`, `WaitingEnds`, `EarnedGetsPayout`, `PushSettles`), since liveness under fairness is
beyond the prover; and what `MCQuotes` evaluates: of `Selections`, whose folds need induction, and of
`Access`, whose claims are about finitely many kinds of users and visits, all of which it enumerates.
That `superuser_remains` and `charged_once_retry` fail is TLC's finding.

## 5. How the project grew, and what could follow

First the path on which money and work depend (`Assignment`, `Dispatch`, `Payments`, `Fulfilment`,
`Pricing`, `Quotes`), with its proofs; then everything that decides who may act on it (`Otp`,
`AdminLogin`, `Superusers`, `Accounts`, `Contractors`), what surrounds it (`Customers`, `Aftercare`,
`Notifications`, `Catalog`), the compositions (`PaidOut`) and the functions (`Scheduling`,
`Selections`, `Access`). What could follow: partial refunds; the change forms of the admin site, which
save whole rows that were read earlier.

## 6. Where the code departs from its own words or from what one would expect

Each is a definition in a module that the code violates, with a short trace. To see one, put it in
place of the properties of the `.cfg` named (INVARIANT, or PROPERTY for an action property) and add
`CHECK_DEADLOCK FALSE`. Where `MCQuotes` is named, the assumption after it already shows a counterexample.

| definition | in | with | what happens |
|---|---|---|---|
| `RecordedBeforeCharged` | `Payments` | `MCPayments.cfg` | the provider is charged inside the transaction that holds the payment row; the process dies; no row. The repair task charges again with the same key, so `ReservedGetsPayment` holds |
| `CancelledIsUncharged` | `Payments` | `MCPayments.cfg` | a retry starts after `cancel_booking` looked at the payment, and charges a cancelled booking |
| `ConfirmedIsNotFailed` | `Payments` | `MCPayments.cfg` | a retry's outcome is written over a payment that an event had completed |
| `CeilingNeverRefuses` | `Quotes` | `MCQuotes.cfg` | rules change after the quote; every offer is refused by the guard, and the search goes on for ever |
| `QuoteUsedOnce` | `Quotes` | `MCQuotes.cfg` | two requests check the quote before either books |
| `ProfileKeepsAvailability` | `Contractors` | `MCContractors.cfg` | the docstring at `contractors/services/profile.py` line 219 says an edit leaves the availability alone; it saves the copy it read |
| `AddressIsFrozen` | `Customers` | `MCAftercare.cfg` | `properties.py` lines 155-159 promise no change of address under a confirmed or offered booking; lines 173-177 do not count an accepted offer that awaits its payment, and lock nothing |
| `DeletedStaysDeleted` | `Catalog` | `MCCatalog.cfg` | the save of a question read before its deletion inserts it again, without its options |
| `IdentityIsFreed`, `RowIsFreed` | `Accounts` | `MCAccounts.cfg` | a social login that found the account before its deletion links an identity to it afterwards; a profile saved from the copy that authentication read brings the address back |
| `DeletedIsFinal` | `Accounts` | `MCAccounts.cfg` | the admin site's "activate" looks at no status and revives a deleted account |
| `EverySuspensionLeavesFew` | `Accounts` | `MCAccounts.cfg`, `MaxTokens = 4` | the bulk suspension of the admin site reads the tokens before it commits; logins that finish in between, one after the other, keep theirs, in any number |
| `NewestEventWins` | `Connect` | `MCPaidOut.cfg` | an older account event that is delivered later restores the older status (`connect.py` lines 191-214 compare no times) |
| `OnlyTheCustomerConfirms` | `Fulfilment` | `MCPaidOut.cfg` | `jobs.py` lines 15-16 and `tests/test_jobs_completion.py` line 460 say that no passage of time completes a job; `auto_confirm_overdue_jobs` (`jobs.py` line 515), a later decision by its comment, does |
| `OneLiveCode` | `Otp` | `MCAdminLogin.cfg` | two requests pass the cooldown together, or one waits for the other's rows after it counted, and each leaves a live code, against the docstring of `generate_and_send` |
| `TriedUpToLimit` | `Notifications` | `MCNotifications.cfg`, `MaxTries = 3` | `notifications.py` lines 6-8 promise retries up to NOTIFICATIONS_MAX_PUSH_ATTEMPTS; two deliveries at once both count from the same row, and both try |
| `PriceIsHeldBack` | `Access` | `MCQuotes`, `NotHeldBack` | a booking hides its price until it is CONFIRMED; the route of its payment shows the amount as soon as there is one |
| `NotesAreForWorking` | `Access` | `MCQuotes`, `NotHeldBack` | looking at a job takes no role: a contractor who lost the role and may no longer work still reads how to get in |
| `RoundingIsRounding` | `Selections` | `MCQuotes`, `LiveInvoicesDrift` | without a quote an invoice takes its lines from the catalogue of the moment it is read; a price that changed since appears as "Rounding" |
| `SearchEnds` | `Dispatch` | `MCDispatch.cfg`, `PriceMayRefuse = TRUE` | see `CeilingNeverRefuses` |
| `ChargedOnce` | `Payments` | `MCPaymentsChargedOnce.cfg` with `CardsMayNeedAction = FALSE`, `WebhooksMayBeLate = TRUE`, `MaxAttempts = 3` | the run `charged_once_retry` needs 3-D Secure; this needs a late event instead. It says that attempt 1 failed, finds the row by the old reference while attempt 2 is PROCESSING, and makes it FAILED; attempt 3 starts, and both are captured |
| `ChargedOnce` | `Payments` | the same, `WebhooksMayBeLate = FALSE`, `MaxAttempts = 4` | an event in time reports that attempt 2 failed before its process records it; attempt 3 starts; the process of attempt 2 writes FAILED over it; attempt 4 starts, and 3 and 4 are both captured. With three attempts it holds |

An opening time with seconds is announced a minute too early and then refused (`SecondsAreLost`),
against the docstring at `scheduling.py` lines 177-179. Smaller things met while modelling, which the
models show or which lie just outside them:

- A booking that is confirmed between the look at the blockers and the list of pending bookings
  survives the deletion of its customer; `DeletionClosesWork` is about those that wait.
- A challenge that is open when the password is reset still leads to a login.
- A push may reach a device that has moved to another user since the list was read, and a token called
  invalid is deleted whoever has it now. A slow delivery that fails writes over SENT, and the
  notification is pushed again.
- An account event about an account whose row is not committed is answered and forgotten.
- A refund that the provider made and the program did not record is repeated under the same key only if
  the amount is the same: `refund_payment` puts the amount in the key, so that another partial amount
  pays a second time.
- A stale save of a service type undoes its deactivation; questions created at once may share a
  position.
- A social login that loses the race for an identity is let into the winner's account without the check
  that it may log in (`link_or_create_user`), and a row it created for itself is left behind; these are
  the sessions above one for each worker in `ShutOutLeavesFew`.
- Two superusers who demote each other at once deadlock on their audit rows, and one of them is aborted:
  it takes a stale row, or a third superuser, to leave none (`superuser_remains`).
- The back office hides the live position of a job on purpose (`jobs/api/admin.py`), but the tracking
  route shows it to administrators; the job's route hides the access notes from them, and the back
  office's view of the booking shows them.

## 7. Not modelled

- Job tracking but for who may report and see a position (`Access`): a report locks the job, checks that
  it is ASSIGNED and overwrites the last position; the age of a position and the distance are arithmetic.
- Audit log and dashboards: an append-only table in the caller's transaction, of which `Superusers` has
  the reference to the actor, and read-only reports.
- The admin site's change form of a user, which saves a whole row as the form was loaded, the number and
  the status of deleted accounts included, its password form, and the deletion of rows there.
- The HTTP layer, the admin site and configuration translate; where a route decides what one
  transaction is, it is mapped to the action it makes of its services, and what its answers show is in
  `Access`.
- The adapters' network calls, signature checks and templates. What a provider may answer is modelled
  with the component that asks.
- Of modelled components: saved cards and partial refunds (Payments), the public reference and daylight
  saving (Bookings, Opening hours), `pricing_version` (no part of the program reads it back), read
  marks, yearly clean-up and test push (Notifications), labels, sections, order and pictures
  (Catalog), postcodes and coordinates, and the one transaction in which a PATCH changes both the
  property and its address (Properties: two here), texts (Support), notification rows and
  the name and history of a person at deletion, two identities at one provider (Accounts), and the hourly limit per
  address, which has the form of the daily one (OTP).
