------------------------------ MODULE Dispatch ------------------------------
(***************************************************************************)
(* The life of one booking and of the dispatch offers made for it          *)
(* (apps/bookings: services/bookings.py, dispatch.py, offers.py, tasks.py).*)
(*                                                                         *)
(* Every handler that changes a booking takes the booking's row lock       *)
(* first, so each is one action here.  The two that do not are split where *)
(* the code splits them: the sweep closes an offer without that lock       *)
(* (ExpireOffer) and cascades later, and the recovery query reads bookings *)
(* it only locks afterwards (SelectStranded).  What they owe the booking   *)
(* meanwhile is a call of assign_next_contractor that may run late or      *)
(* never: "calls" counts those.                                            *)
(***************************************************************************)
EXTENDS Naturals

CONSTANTS
  Contractors,     \* contractors the booking may be offered to
  None,            \* no contractor
  MaxCalls,        \* bound on assign_next_contractor calls under way at once
  PriceMayRefuse   \* may a live price exceed the booking's frozen max_total

ASSUME NoneAssumption  == None \notin Contractors
ASSUME CallsAssumption == MaxCalls \in Nat \ {0}
ASSUME PriceAssumption == PriceMayRefuse \in BOOLEAN

VARIABLES
  status,          \* Booking.status
  dispatchStatus,  \* Booking.dispatch_status
  visit,           \* Booking.scheduled_at: none (instant), ahead or passed
  assigned,        \* Booking.assigned_contractor
  offers,          \* DispatchOffer row of each contractor in this round
  available,       \* contractors find_candidates would accept just now
  calls            \* assign_next_contractor calls that have still to run

dispatchVars ==
  <<status, dispatchStatus, visit, assigned, offers, available, calls>>

(***************************************************************************)
(* An offer row is the pair of its status and of the clock: LAPSED is a    *)
(* row that still says PENDING although expires_at has passed, NONE is no  *)
(* row at all.                                                             *)
(***************************************************************************)
OfferState == {"NONE", "PENDING", "LAPSED", "ACCEPTED_PENDING_PAYMENT",
               "ACCEPTED", "DECLINED", "EXPIRED"}

TypeOK ==
  /\ status \in {"PENDING", "CONFIRMED", "CANCELLED"}
  /\ dispatchStatus \in {"SEARCHING", "NO_CONTRACTOR", "ASSIGNED"}
  /\ visit \in {"none", "ahead", "passed"}
  /\ assigned \in Contractors \union {None}
  /\ offers \in [Contractors -> OfferState]
  /\ available \in SUBSET Contractors
  /\ calls \in 0 .. MaxCalls

(* What an offer means in a table o of offers. *)
IsActionable(o, c) == o[c] = "PENDING"
IsReserved(o, c)   == o[c] \in {"ACCEPTED_PENDING_PAYMENT", "ACCEPTED"}
Holds(o, c)        == IsActionable(o, c) \/ IsReserved(o, c)
BookingIsReserved(o) == \E c \in Contractors : IsReserved(o, c)

(* The operators below are the conditions that the handlers depend on most. *)
(* Before some stands a slip in it, "Bad...", that some property must catch.*)

(* find_candidates excludes whoever was asked in this round.               *)
BadCandidates(o) == {c \in available : ~Holds(o, c)}  \* only whoever holds it
Candidates(o)    == {c \in available : o[c] = "NONE"}

(* assign_next_contractor has nothing to do.                               *)
BadMustSkip(o)  == status # "PENDING" \/ BookingIsReserved(o)   \* a live offer forgotten
MustSkip(o)     == status # "PENDING" \/ \E c \in Contractors : Holds(o, c)

(* A contractor may answer an offer.                                       *)
BadCanRespond(o, c) ==                                         \* expires_at ignored
  o[c] \in {"PENDING", "LAPSED"} /\ status = "PENDING"
CanRespond(o, c)    == IsActionable(o, c) /\ status = "PENDING"

(* The sweep closes an offer.                                              *)
Overdue(o, c) == o[c] = "LAPSED"

(* The recovery task picks a booking.                                      *)
BadStranded(o) ==                                              \* only if never offered
  status = "PENDING" /\ dispatchStatus = "SEARCHING" /\ \A c \in Contractors : o[c] = "NONE"
Stranded(o) ==
  status = "PENDING" /\ dispatchStatus = "SEARCHING" /\ \A c \in Contractors : ~Holds(o, c)

(* cancel_booking's offers.                                                *)
BadClosedOffers(o) ==                                          \* only the live one
  [c \in Contractors |-> IF o[c] \in {"PENDING", "LAPSED"} THEN "EXPIRED" ELSE o[c]]
ClosedOffers(o) ==
  [c \in Contractors |->
     IF o[c] \in {"PENDING", "LAPSED", "ACCEPTED_PENDING_PAYMENT"} THEN "EXPIRED" ELSE o[c]]

----------------------------------------------------------------------------
(* create_booking has committed; its dispatch hook is the first call.      *)
Init ==
  /\ status = "PENDING"
  /\ dispatchStatus = "SEARCHING"
  /\ visit \in {"none", "ahead"}
  /\ assigned = None
  /\ offers = [c \in Contractors |-> "NONE"]
  /\ available \in SUBSET Contractors
  /\ calls = 1

(* assign_next_contractor, on the table o its transaction sees.            *)
AssignNextContractor(o) ==
  LET searchable == visit # "passed" /\ Candidates(o) # {}
  IN  \/ /\ MustSkip(o)
         /\ offers' = o
         /\ UNCHANGED dispatchStatus
      \/ /\ ~MustSkip(o) /\ ~searchable
         /\ dispatchStatus' = "NO_CONTRACTOR"
         /\ offers' = o
      \/ /\ ~MustSkip(o) /\ searchable /\ PriceMayRefuse
         /\ offers' = o
         /\ UNCHANGED dispatchStatus
      \/ /\ ~MustSkip(o) /\ searchable
         /\ \E c \in Candidates(o) : offers' = [o EXCEPT ![c] = "PENDING"]
         /\ dispatchStatus' = "SEARCHING"

(* A call made by a hook, by the sweep or by the recovery task runs.       *)
RunCall ==
  /\ calls > 0
  /\ AssignNextContractor(offers)
  /\ calls' = calls - 1
  /\ UNCHANGED <<status, visit, assigned, available>>

(* Its exception is swallowed, or its process dies before it runs.         *)
LoseCall ==
  /\ calls > 0
  /\ calls' = calls - 1
  /\ UNCHANGED <<status, dispatchStatus, visit, assigned, offers, available>>

AcceptOffer(c) ==
  /\ CanRespond(offers, c)
  /\ \A d \in Contractors \ {c} : ~IsReserved(offers, d)
  /\ visit # "passed"
  /\ offers' = [offers EXCEPT ![c] = "ACCEPTED_PENDING_PAYMENT"]
  /\ UNCHANGED <<status, dispatchStatus, visit, assigned, available, calls>>

DeclineOffer(c) ==
  /\ CanRespond(offers, c)
  /\ LET declined == [offers EXCEPT ![c] = "DECLINED"]
     IN  \/ /\ BookingIsReserved(declined)
            /\ offers' = declined
            /\ UNCHANGED dispatchStatus
         \/ /\ ~BookingIsReserved(declined)
            /\ AssignNextContractor(declined)
  /\ UNCHANGED <<status, visit, assigned, available, calls>>

(* expire_pending_offers closes one overdue offer; the cascade is a call.  *)
ExpireOffer(c) ==
  /\ Overdue(offers, c)
  /\ calls < MaxCalls
  /\ offers' = [offers EXCEPT ![c] = "EXPIRED"]
  /\ calls' = calls + 1
  /\ UNCHANGED <<status, dispatchStatus, visit, assigned, available>>

(* redispatch_stranded_bookings selects the booking and will call later.   *)
SelectStranded ==
  /\ Stranded(offers)
  /\ calls < MaxCalls
  /\ calls' = calls + 1
  /\ UNCHANGED <<status, dispatchStatus, visit, assigned, offers, available>>

CancelBooking ==
  /\ status = "PENDING"
  /\ status' = "CANCELLED"
  /\ offers' = ClosedOffers(offers)
  /\ UNCHANGED <<dispatchStatus, visit, assigned, available, calls>>

RescheduleBooking ==
  /\ status = "PENDING"
  /\ dispatchStatus = "NO_CONTRACTOR"
  /\ assigned = None
  /\ calls < MaxCalls
  /\ offers' = [c \in Contractors |-> "NONE"]
  /\ visit' \in {"none", "ahead"}
  /\ dispatchStatus' = "SEARCHING"
  /\ calls' = calls + 1
  /\ UNCHANGED <<status, assigned, available>>

(* confirm_payment, as far as the booking and its offers are concerned.    *)
ConfirmAssignment(c) ==
  /\ status = "PENDING"
  /\ IsReserved(offers, c)
  /\ offers' = [offers EXCEPT ![c] = "ACCEPTED"]
  /\ status' = "CONFIRMED"
  /\ assigned' = c
  /\ dispatchStatus' = "ASSIGNED"
  /\ UNCHANGED <<visit, available, calls>>

(* expires_at passes.                                                      *)
OfferLapses(c) ==
  /\ offers[c] = "PENDING"
  /\ offers' = [offers EXCEPT ![c] = "LAPSED"]
  /\ UNCHANGED <<status, dispatchStatus, visit, assigned, available, calls>>

(* scheduled_at passes; no offer's expires_at lies beyond it.              *)
VisitTimePasses ==
  /\ visit = "ahead"
  /\ visit' = "passed"
  /\ offers' = [c \in Contractors |->
                  IF offers[c] = "PENDING" THEN "LAPSED" ELSE offers[c]]
  /\ UNCHANGED <<status, dispatchStatus, assigned, available, calls>>

(* A contractor comes on or off line, moves, or changes eligibility.       *)
AvailabilityChanges(c) ==
  /\ available' = IF c \in available THEN available \ {c} ELSE available \union {c}
  /\ UNCHANGED <<status, dispatchStatus, visit, assigned, offers, calls>>

DispatchNext ==
  \/ RunCall
  \/ LoseCall
  \/ SelectStranded
  \/ CancelBooking
  \/ RescheduleBooking
  \/ VisitTimePasses
  \/ \E c \in Contractors :
       \/ AcceptOffer(c)
       \/ DeclineOffer(c)
       \/ ExpireOffer(c)
       \/ ConfirmAssignment(c)
       \/ OfferLapses(c)
       \/ AvailabilityChanges(c)

DispatchSpec == Init /\ [][DispatchNext]_dispatchVars

(***************************************************************************)
(* Time passes, the sweep and the recovery task run every few minutes, and *)
(* not every call dies with its process: if calls keep being made, some    *)
(* run.  Nothing is assumed of contractors and customers.                  *)
(***************************************************************************)
DispatchFairness ==
  /\ SF_dispatchVars(RunCall)
  /\ WF_dispatchVars(SelectStranded)
  /\ \A c \in Contractors :
       WF_dispatchVars(OfferLapses(c)) /\ WF_dispatchVars(ExpireOffer(c))

FairDispatchSpec == DispatchSpec /\ DispatchFairness

----------------------------------------------------------------------------
(***************************************************************************)
(* Safety                                                                  *)
(***************************************************************************)

(* No two contractors can act on, or hold, the same booking at one time,   *)
(* whatever runs between an expiry, its cascade and a response: the checks *)
(* of assign_next_contractor and accept_offer under the booking lock.      *)
OneHolder ==
  \A c, d \in Contractors : Holds(offers, c) /\ Holds(offers, d) => c = d

(* reschedule_booking deletes every offer of a NO_CONTRACTOR booking; none *)
(* of them is one that a contractor could still accept, or has accepted.   *)
ExhaustedHoldsNobody ==
  dispatchStatus = "NO_CONTRACTOR" => \A c \in Contractors : ~Holds(offers, c)

(* The assigned contractor, the accepted offer and the two status columns  *)
(* always tell the same story, and a cancelled booking holds nobody.       *)
AssignmentAgrees ==
  /\ status = "CONFIRMED" <=> assigned # None
  /\ status = "CONFIRMED" <=> dispatchStatus = "ASSIGNED"
  /\ \A c \in Contractors : offers[c] = "ACCEPTED" <=> assigned = c
  /\ status = "CANCELLED" => \A c \in Contractors : ~Holds(offers, c)

(* An accepted offer waits for the money: no sweep, cascade, lapse of time *)
(* or other contractor takes it away, only payment or a cancellation.      *)
ReservationKept ==
  [][\A c \in Contractors :
       IsReserved(offers, c) /\ status' # "CANCELLED" => IsReserved(offers', c)]_dispatchVars

(* Within a round a contractor is asked once: a closed offer never comes   *)
(* back, until reschedule_booking opens a new round by clearing them all.  *)
NobodyAskedTwice ==
  [][\A c \in Contractors :
       offers[c] \in {"LAPSED", "DECLINED", "EXPIRED"} =>
         \/ offers'[c] \in {"DECLINED", "EXPIRED", offers[c]}
         \/ \A d \in Contractors : offers'[d] = "NONE"]_dispatchVars

(***************************************************************************)
(* Liveness                                                                *)
(***************************************************************************)

(* The customer is not left searching for ever: the search ends with an    *)
(* acceptance, with NO_CONTRACTOR (which may be rescheduled), or with the  *)
(* booking closed, even when hooks and cascades are lost.                  *)
SearchEnds ==
  (status = "PENDING" /\ dispatchStatus = "SEARCHING") ~>
    (BookingIsReserved(offers) \/ dispatchStatus # "SEARCHING" \/ status # "PENDING")

(***************************************************************************)
(* What the marketplace promises (Assignment), seen in this state.         *)
(***************************************************************************)
HolderIn(o) ==
  IF \E c \in Contractors : Holds(o, c)
  THEN CHOOSE c \in Contractors : Holds(o, c)
  ELSE None

PhaseOf(s, o) ==
  CASE s = "CANCELLED" -> "cancelled"
    [] s = "CONFIRMED" -> "assigned"
    [] s = "PENDING" /\ BookingIsReserved(o) -> "reserved"
    [] s = "PENDING" /\ ~BookingIsReserved(o) /\ HolderIn(o) # None -> "offered"
    [] OTHER -> "searching"

Abstract == INSTANCE Assignment
              WITH phase <- PhaseOf(status, offers), holder <- HolderIn(offers)

(* The dispatch engine implements the abstract life of a booking.          *)
AbstractSpec == Abstract!Spec
=============================================================================
