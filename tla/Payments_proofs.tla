--------------------------- MODULE Payments_proofs ---------------------------
(***************************************************************************)
(* Proofs about Dispatch and about Payments, which adds the charge to it:  *)
(* for every set of contractors, any number of calls under way, attempts   *)
(* and crashes, whether or not a price may refuse or banks ask for 3-D     *)
(* Secure, and however late, often or rarely the provider's events arrive. *)
(*                                                                         *)
(* Money is created at the provider and reported over several ways: the    *)
(* answer of the call, an event, the customer's return from 3-D Secure and *)
(* the superuser.  ChargeInv says of each that what it is about to report  *)
(* has happened; AssignedIsCharged and SucceededIsCharged then follow.     *)
(***************************************************************************)
EXTENDS Payments, TLAPS

(***************************************************************************)
(* Dispatch.                                                               *)
(*                                                                         *)
(* None of OneHolder, ExhaustedHoldsNobody and AssignmentAgrees is         *)
(* inductive alone: accept_offer keeps a booking out of NO_CONTRACTOR only *)
(* because such a booking has no actionable offer, and confirm_payment     *)
(* leaves one ACCEPTED offer only because no other one is held.  Together  *)
(* with the types they are.                                                *)
(***************************************************************************)


DispatchInv ==
  /\ TypeOK
  /\ OneHolder
  /\ ExhaustedHoldsNobody
  /\ AssignmentAgrees

(* assign_next_contractor either leaves the table, possibly giving up on a *)
(* free booking, or offers a free booking to one contractor not yet asked. *)
LEMMA AssignNextContractorCases ==
  ASSUME NEW o \in [Contractors -> OfferState], AssignNextContractor(o),
         available \in SUBSET Contractors
  PROVE  \/ offers' = o /\ UNCHANGED dispatchStatus
         \/ /\ status = "PENDING"
            /\ \A c \in Contractors : ~Holds(o, c)
            /\ \/ offers' = o /\ dispatchStatus' = "NO_CONTRACTOR"
               \/ /\ dispatchStatus' = "SEARCHING"
                  /\ \E c \in Contractors :
                       /\ o[c] = "NONE"
                       /\ offers' = [o EXCEPT ![c] = "PENDING"]
  BY DEF AssignNextContractor, Candidates, MustSkip

(* Every step keeps the types. *)
LEMMA TypeStep ==
  TypeOK /\ [DispatchNext]_dispatchVars => TypeOK'
<1> SUFFICES ASSUME TypeOK, [DispatchNext]_dispatchVars PROVE TypeOK'
  OBVIOUS
<1> USE CallsAssumption DEF TypeOK, OfferState
<1>1. CASE RunCall
  BY <1>1, AssignNextContractorCases DEF RunCall
<1>2. CASE LoseCall
  BY <1>2 DEF LoseCall
<1>3. CASE SelectStranded
  BY <1>3 DEF SelectStranded, Stranded
<1>4. CASE CancelBooking
  BY <1>4 DEF CancelBooking, ClosedOffers
<1>5. CASE RescheduleBooking
  BY <1>5 DEF RescheduleBooking
<1>6. CASE VisitTimePasses
  BY <1>6 DEF VisitTimePasses
<1>7. ASSUME NEW c \in Contractors, AcceptOffer(c) PROVE TypeOK'
  BY <1>7 DEF AcceptOffer, CanRespond
<1>8. ASSUME NEW c \in Contractors, DeclineOffer(c) PROVE TypeOK'
  <2> DEFINE declined == [offers EXCEPT ![c] = "DECLINED"]
  <2>1. declined \in [Contractors -> OfferState]
    OBVIOUS
  <2>2. CASE offers' = declined /\ UNCHANGED dispatchStatus
    BY <1>8, <2>1, <2>2 DEF DeclineOffer, CanRespond
  <2>3. CASE AssignNextContractor(declined)
    BY <1>8, <2>1, <2>3, AssignNextContractorCases DEF DeclineOffer, CanRespond
  <2> QED
    BY <1>8, <2>2, <2>3 DEF DeclineOffer, CanRespond
<1>9. ASSUME NEW c \in Contractors, ExpireOffer(c) PROVE TypeOK'
  BY <1>9 DEF ExpireOffer, Overdue
<1>10. ASSUME NEW c \in Contractors, ConfirmAssignment(c) PROVE TypeOK'
  BY <1>10 DEF ConfirmAssignment
<1>11. ASSUME NEW c \in Contractors, OfferLapses(c) PROVE TypeOK'
  BY <1>11 DEF OfferLapses
<1>12. ASSUME NEW c \in Contractors, AvailabilityChanges(c) PROVE TypeOK'
  BY <1>12 DEF AvailabilityChanges
<1>13. CASE UNCHANGED dispatchVars
  BY <1>13 DEF dispatchVars
<1> QED
  BY <1>1, <1>2, <1>3, <1>4, <1>5, <1>6, <1>7, <1>8, <1>9, <1>10, <1>11,
     <1>12, <1>13 DEF DispatchNext

(* Every step keeps the invariant, whose types TypeStep has dealt with: one *)
(* step for each action, one below it for each conjunct it may disturb.     *)
LEMMA InvStep ==
  DispatchInv /\ [DispatchNext]_dispatchVars => DispatchInv'
<1> SUFFICES ASSUME DispatchInv, [DispatchNext]_dispatchVars
             PROVE  OneHolder' /\ ExhaustedHoldsNobody' /\ AssignmentAgrees'
  BY TypeStep DEF DispatchInv
<1> DEFINE Goal == OneHolder /\ ExhaustedHoldsNobody /\ AssignmentAgrees
<1>a. TypeOK /\ OneHolder /\ ExhaustedHoldsNobody /\ AssignmentAgrees
  BY DEF DispatchInv
<1>b. offers \in [Contractors -> OfferState] /\ available \in SUBSET Contractors
  BY <1>a DEF TypeOK
<1>0. ASSUME NEW o \in [Contractors -> OfferState], AssignNextContractor(o),
             UNCHANGED <<status, assigned>>,
             \A c \in Contractors :
               IsReserved(o, c) <=> IsReserved(offers, c),
             \A c \in Contractors : o[c] = "ACCEPTED" <=> offers[c] = "ACCEPTED",
             \A c \in Contractors : Holds(o, c) => Holds(offers, c)
      PROVE  Goal'
  <2>1. CASE offers' = o /\ UNCHANGED dispatchStatus
    BY <1>a, <1>0, <2>1
    DEF OneHolder, ExhaustedHoldsNobody, AssignmentAgrees, Holds, IsActionable,
        IsReserved
  <2>2. CASE /\ status = "PENDING" /\ \A c \in Contractors : ~Holds(o, c)
             /\ offers' = o /\ dispatchStatus' = "NO_CONTRACTOR"
    BY <1>a, <1>0, <2>2
    DEF OneHolder, ExhaustedHoldsNobody, AssignmentAgrees, Holds, IsActionable,
        IsReserved
  <2>3. ASSUME status = "PENDING", \A c \in Contractors : ~Holds(o, c),
               dispatchStatus' = "SEARCHING",
               NEW c \in Contractors, offers' = [o EXCEPT ![c] = "PENDING"]
        PROVE  Goal'
    <3>1. OneHolder'
      BY <2>3, <1>0 DEF OneHolder, Holds, IsActionable, IsReserved
    <3>2. ExhaustedHoldsNobody'
      BY <2>3 DEF ExhaustedHoldsNobody
    <3>3. AssignmentAgrees'
      BY <1>a, <1>0, <2>3 DEF AssignmentAgrees, Holds, IsActionable, IsReserved
    <3> QED
      BY <3>1, <3>2, <3>3
  <2> QED
    BY <1>0, <1>b, <2>1, <2>2, <2>3, AssignNextContractorCases
<1>1. CASE RunCall
  BY <1>b, <1>0, <1>1 DEF RunCall
<1>2. CASE LoseCall \/ SelectStranded
  BY <1>a, <1>2
  DEF LoseCall, SelectStranded, OneHolder, ExhaustedHoldsNobody, AssignmentAgrees,
      Holds, Stranded,
      IsActionable, IsReserved
<1>3. CASE CancelBooking
  <2>1. \A c \in Contractors : offers[c] # "ACCEPTED"
    BY <1>a, <1>3, NoneAssumption DEF CancelBooking, AssignmentAgrees, ClosedOffers
  <2>2. \A c \in Contractors : ~Holds(offers', c) /\ offers'[c] # "ACCEPTED"
    BY <1>3, <2>1 DEF CancelBooking, Holds, IsActionable, IsReserved, ClosedOffers
  <2>3. OneHolder' /\ ExhaustedHoldsNobody'
    BY <2>2 DEF OneHolder, ExhaustedHoldsNobody
  <2>4. AssignmentAgrees'
    BY <1>a, <1>3, <2>2, NoneAssumption
    DEF CancelBooking, AssignmentAgrees, ClosedOffers
  <2> QED
    BY <2>3, <2>4
<1>4. CASE RescheduleBooking
  BY <1>a, <1>4, NoneAssumption
  DEF RescheduleBooking, OneHolder, ExhaustedHoldsNobody, AssignmentAgrees, Holds,
      IsActionable, IsReserved
<1>5. CASE VisitTimePasses
  BY <1>a, <1>b, <1>5
  DEF VisitTimePasses, OneHolder, ExhaustedHoldsNobody, AssignmentAgrees, Holds,
      IsActionable, IsReserved
<1>6. ASSUME NEW c \in Contractors, AcceptOffer(c) PROVE Goal'
  BY <1>a, <1>b, <1>6
  DEF AcceptOffer, OneHolder, ExhaustedHoldsNobody, AssignmentAgrees, Holds, CanRespond,
      IsActionable, IsReserved
<1>7. ASSUME NEW c \in Contractors, DeclineOffer(c) PROVE Goal'
  <2> DEFINE declined == [offers EXCEPT ![c] = "DECLINED"]
  <2>1. declined \in [Contractors -> OfferState]
    BY <1>b DEF OfferState
  <2>2. /\ \A d \in Contractors : IsReserved(declined, d) <=> IsReserved(offers, d)
        /\ \A d \in Contractors : declined[d] = "ACCEPTED" <=> offers[d] = "ACCEPTED"
        /\ \A d \in Contractors : Holds(declined, d) => Holds(offers, d)
    BY <1>b, <1>7 DEF DeclineOffer, Holds, IsActionable, IsReserved, CanRespond
  <2>3. CASE offers' = declined /\ UNCHANGED dispatchStatus
    BY <1>a, <1>7, <2>2, <2>3
    DEF DeclineOffer, OneHolder, ExhaustedHoldsNobody, AssignmentAgrees, Holds,
        CanRespond,
        IsActionable, IsReserved
  <2>4. CASE AssignNextContractor(declined)
    BY <1>0, <1>7, <2>1, <2>2, <2>4 DEF DeclineOffer, CanRespond
  <2> QED
    BY <1>7, <2>3, <2>4 DEF DeclineOffer, CanRespond
<1>8. ASSUME NEW c \in Contractors, ExpireOffer(c) \/ OfferLapses(c) PROVE Goal'
  BY <1>a, <1>b, <1>8
  DEF ExpireOffer, OfferLapses, OneHolder, ExhaustedHoldsNobody, AssignmentAgrees,
      Overdue,
      Holds, IsActionable, IsReserved
<1>9. ASSUME NEW c \in Contractors, ConfirmAssignment(c) PROVE Goal'
  BY <1>a, <1>b, <1>9, NoneAssumption
  DEF ConfirmAssignment, OneHolder, ExhaustedHoldsNobody, AssignmentAgrees, Holds,
      IsActionable, IsReserved
<1>10. ASSUME NEW c \in Contractors, AvailabilityChanges(c) PROVE Goal'
  BY <1>a, <1>10
  DEF AvailabilityChanges, OneHolder, ExhaustedHoldsNobody, AssignmentAgrees, Holds,
      IsActionable, IsReserved
<1>11. CASE UNCHANGED dispatchVars
  BY <1>a, <1>11
  DEF dispatchVars, OneHolder, ExhaustedHoldsNobody, AssignmentAgrees, Holds,
      IsActionable, IsReserved
<1> QED
  BY <1>1, <1>2, <1>3, <1>4, <1>5, <1>6, <1>7, <1>8, <1>9, <1>10, <1>11
  DEF DispatchNext

(* At every reachable state of the engine the invariant holds. *)
LEMMA Invariance == DispatchSpec => []DispatchInv
<1>1. Init => DispatchInv
  BY CallsAssumption, NoneAssumption
  DEF Init, DispatchInv, TypeOK, OfferState, OneHolder, ExhaustedHoldsNobody,
      AssignmentAgrees, Holds, IsActionable, IsReserved
<1> QED
  BY <1>1, InvStep, PTL DEF DispatchSpec

(* Each column only ever holds a value of its type, and the calls owed to a *)
(* booking stay within their bound.                                         *)
THEOREM TypeCorrect == DispatchSpec => []TypeOK
<1>1. DispatchInv => TypeOK
  BY DEF DispatchInv
<1> QED
  BY <1>1, Invariance, PTL

(* However many contractors there are, and however the sweep, the recovery  *)
(* task, the hooks and the contractors' responses interleave, no two of     *)
(* them can act on, or hold, one booking at the same time.                  *)
THEOREM NeverTwoHolders == DispatchSpec => []OneHolder
<1>1. DispatchInv => OneHolder
  BY DEF DispatchInv
<1> QED
  BY <1>1, Invariance, PTL

(* What reschedule_booking relies on when it deletes a booking's offers: a  *)
(* search that ended left nobody with an offer to accept, or accepted.      *)
THEOREM ExhaustionIsEmpty == DispatchSpec => []ExhaustedHoldsNobody
<1>1. DispatchInv => ExhaustedHoldsNobody
  BY DEF DispatchInv
<1> QED
  BY <1>1, Invariance, PTL

(* The booking's two status columns, its contractor and its accepted offer  *)
(* agree in every reachable state.                                          *)
THEOREM AssignmentConsistent == DispatchSpec => []AssignmentAgrees
<1>1. DispatchInv => AssignmentAgrees
  BY DEF DispatchInv
<1> QED
  BY <1>1, Invariance, PTL

(* A reservation outlives every step but a cancellation: the handlers that  *)
(* rewrite offers leave a reserved one alone, and reschedule_booking, which *)
(* deletes them all, only runs when ExhaustedHoldsNobody has excluded one.  *)
LEMMA ReservationStep ==
  ASSUME DispatchInv, [DispatchNext]_dispatchVars
  PROVE  \A c \in Contractors :
           IsReserved(offers, c) /\ status' # "CANCELLED" => IsReserved(offers', c)
<1> DEFINE Kept == \A c \in Contractors :
              IsReserved(offers, c) /\ status' # "CANCELLED" => IsReserved(offers', c)
<1> USE DEF IsReserved
<1>a. ExhaustedHoldsNobody /\ offers \in [Contractors -> OfferState]
  BY DEF DispatchInv, TypeOK
<1>1. CASE RunCall
  BY <1>a, <1>1, AssignNextContractorCases DEF RunCall, DispatchInv, TypeOK, Holds
<1>2. CASE LoseCall \/ SelectStranded \/ CancelBooking
  BY <1>2 DEF LoseCall, SelectStranded, CancelBooking, Stranded, ClosedOffers
<1>3. CASE RescheduleBooking
  BY <1>a, <1>3 DEF RescheduleBooking, ExhaustedHoldsNobody, Holds
<1>4. CASE VisitTimePasses
  BY <1>4 DEF VisitTimePasses
<1>5. ASSUME NEW c \in Contractors, AcceptOffer(c) \/ ConfirmAssignment(c) PROVE Kept
  BY <1>a, <1>5 DEF AcceptOffer, ConfirmAssignment, CanRespond
<1>6. ASSUME NEW c \in Contractors, DeclineOffer(c) PROVE Kept
  <2> DEFINE declined == [offers EXCEPT ![c] = "DECLINED"]
  <2>1. declined \in [Contractors -> OfferState]
    BY <1>a DEF OfferState
  <2>2. \A d \in Contractors : IsReserved(offers, d) => IsReserved(declined, d)
    BY <1>a, <1>6 DEF DeclineOffer, IsActionable, CanRespond
  <2>3. CASE offers' = declined
    BY <2>2, <2>3
  <2>4. CASE AssignNextContractor(declined)
    BY <1>a, <2>1, <2>2, <2>4, AssignNextContractorCases DEF DispatchInv, TypeOK, Holds
  <2> QED
    BY <1>6, <2>3, <2>4 DEF DeclineOffer, CanRespond
<1>7. ASSUME NEW c \in Contractors, ExpireOffer(c) \/ OfferLapses(c) PROVE Kept
  BY <1>a, <1>7 DEF ExpireOffer, OfferLapses, Overdue
<1>8. ASSUME NEW c \in Contractors, AvailabilityChanges(c) PROVE Kept
  BY <1>8 DEF AvailabilityChanges
<1>9. CASE UNCHANGED dispatchVars
  BY <1>9 DEF dispatchVars
<1> QED
  BY <1>1, <1>2, <1>3, <1>4, <1>5, <1>6, <1>7, <1>8, <1>9 DEF DispatchNext

(* The step above at every step: an accepted offer is never lost to the     *)
(* sweep, to a cascade, to the clock or to another contractor.              *)
THEOREM ReservationSurvives == DispatchSpec => ReservationKept
<1>1. DispatchInv /\ [DispatchNext]_dispatchVars =>
        \A c \in Contractors :
          IsReserved(offers, c) /\ status' # "CANCELLED" => IsReserved(offers', c)
  BY ReservationStep
<1>2. DispatchSpec =>
        [][\A c \in Contractors :
             IsReserved(offers, c) /\ status' # "CANCELLED" =>
               IsReserved(offers', c)]_dispatchVars
  BY <1>1, Invariance, PTL DEF DispatchSpec
<1> QED
  BY <1>2 DEF ReservationKept

(* A closed offer in the tables o and n, before and after a step.          *)
StaysClosed(o, n) ==
  \A c \in Contractors :
    o[c] \in {"LAPSED", "DECLINED", "EXPIRED"} =>
      \/ n[c] \in {"DECLINED", "EXPIRED", o[c]}
      \/ \A d \in Contractors : n[d] = "NONE"

(* An offer that was closed stays closed, or the round is over.            *)
LEMMA ClosedStep ==
  ASSUME DispatchInv, [DispatchNext]_dispatchVars
  PROVE  StaysClosed(offers, offers')
<1> USE DEF StaysClosed
<1>a. offers \in [Contractors -> OfferState]
  BY DEF DispatchInv, TypeOK
<1>1. CASE RunCall
  BY <1>a, <1>1, AssignNextContractorCases DEF RunCall, DispatchInv, TypeOK
<1>2. CASE LoseCall \/ SelectStranded \/ CancelBooking \/ RescheduleBooking
  BY <1>2 DEF LoseCall, SelectStranded, CancelBooking, RescheduleBooking, ClosedOffers
<1>3. CASE VisitTimePasses
  BY <1>3 DEF VisitTimePasses
<1>4. ASSUME NEW c \in Contractors, AcceptOffer(c) \/ ConfirmAssignment(c)
      PROVE  StaysClosed(offers, offers')
  BY <1>a, <1>4 DEF AcceptOffer, ConfirmAssignment, CanRespond, IsActionable, IsReserved
<1>5. ASSUME NEW c \in Contractors, DeclineOffer(c)
      PROVE  StaysClosed(offers, offers')
  <2> DEFINE declined == [offers EXCEPT ![c] = "DECLINED"]
  <2>1. declined \in [Contractors -> OfferState] /\ StaysClosed(offers, declined)
    BY <1>a DEF OfferState
  <2>2. CASE offers' = declined
    BY <2>1, <2>2
  <2>3. CASE AssignNextContractor(declined)
    BY <1>a, <2>1, <2>3, AssignNextContractorCases DEF DispatchInv, TypeOK
  <2> QED
    BY <1>5, <2>2, <2>3 DEF DeclineOffer
<1>6. ASSUME NEW c \in Contractors, ExpireOffer(c) \/ OfferLapses(c)
      PROVE  StaysClosed(offers, offers')
  BY <1>a, <1>6 DEF ExpireOffer, OfferLapses
<1>7. CASE UNCHANGED offers
  BY <1>7
<1> QED
  BY <1>1, <1>2, <1>3, <1>4, <1>5, <1>6, <1>7
  DEF DispatchNext, AvailabilityChanges, dispatchVars

(* Nobody is asked twice in one round.                                     *)
THEOREM AskedOncePerRound == DispatchSpec => NobodyAskedTwice
<1>1. DispatchInv /\ [DispatchNext]_dispatchVars => StaysClosed(offers, offers')
  BY ClosedStep
<1>2. DispatchSpec => [][StaysClosed(offers, offers')]_dispatchVars
  BY <1>1, Invariance, PTL DEF DispatchSpec
<1> QED
  BY <1>2 DEF NobodyAskedTwice, StaysClosed

----------------------------------------------------------------------------
(***************************************************************************)
(* Dispatch implements Assignment                                          *)
(***************************************************************************)

(* Where at most one contractor holds the booking, it is the holder.       *)
LEMMA HolderUnique ==
  ASSUME NEW o, NEW c \in Contractors, Holds(o, c),
         \A d \in Contractors : Holds(o, d) => d = c
  PROVE  HolderIn(o) = c /\ HolderIn(o) # None
  BY NoneAssumption DEF HolderIn

(* Where nobody holds it, there is no holder and nothing is reserved.      *)
LEMMA HolderAbsent ==
  ASSUME NEW o, \A c \in Contractors : ~Holds(o, c)
  PROVE  HolderIn(o) = None /\ ~BookingIsReserved(o) /\ PhaseOf("PENDING", o) = "searching"
  BY DEF HolderIn, BookingIsReserved, Holds, PhaseOf

(* A pending booking that one contractor may act on is offered.            *)
LEMMA PhaseOffered ==
  ASSUME NEW o, NEW c \in Contractors, IsActionable(o, c),
         \A d \in Contractors : Holds(o, d) => d = c
  PROVE  PhaseOf("PENDING", o) = "offered" /\ HolderIn(o) = c
<1>1. Holds(o, c) /\ ~IsReserved(o, c)
  BY DEF Holds, IsActionable, IsReserved
<1>2. ~BookingIsReserved(o)
  BY <1>1 DEF BookingIsReserved, Holds
<1> QED
  BY <1>1, <1>2, HolderUnique DEF PhaseOf

(* A pending booking that one contractor has accepted is reserved.         *)
LEMMA PhaseReserved ==
  ASSUME NEW o, NEW c \in Contractors, IsReserved(o, c),
         \A d \in Contractors : Holds(o, d) => d = c
  PROVE  PhaseOf("PENDING", o) = "reserved" /\ HolderIn(o) = c
  BY HolderUnique DEF PhaseOf, BookingIsReserved, Holds

(* The rows that hold nothing do not matter to the holder or to the phase. *)
LEMMA SameHolders ==
  ASSUME NEW s, NEW o, NEW p,
         \A c \in Contractors : IsActionable(o, c) <=> IsActionable(p, c),
         \A c \in Contractors : IsReserved(o, c) <=> IsReserved(p, c)
  PROVE  HolderIn(o) = HolderIn(p) /\ PhaseOf(s, o) = PhaseOf(s, p)
<1>1. \A c \in Contractors : Holds(o, c) <=> Holds(p, c)
  BY DEF Holds
<1>2. (CHOOSE c \in Contractors : Holds(o, c)) = (CHOOSE c \in Contractors : Holds(p, c))
  BY <1>1
<1>3. HolderIn(o) = HolderIn(p)
  BY <1>1, <1>2 DEF HolderIn
<1>4. BookingIsReserved(o) <=> BookingIsReserved(p)
  BY DEF BookingIsReserved
<1> QED
  BY <1>3, <1>4 DEF PhaseOf

(* What assign_next_contractor does to a pending booking that nobody holds. *)
LEMMA CallOffers ==
  ASSUME NEW o \in [Contractors -> OfferState], AssignNextContractor(o),
         available \in SUBSET Contractors,
         \A c \in Contractors : ~Holds(o, c)
  PROVE  \/ offers' = o
         \/ \E c \in Contractors :
              /\ o[c] = "NONE"
              /\ PhaseOf("PENDING", offers') = "offered"
              /\ HolderIn(offers') = c
<1>1. SUFFICES ASSUME NEW c \in Contractors, o[c] = "NONE",
                      offers' = [o EXCEPT ![c] = "PENDING"]
               PROVE  PhaseOf("PENDING", offers') = "offered" /\ HolderIn(offers') = c
  BY AssignNextContractorCases
<1>2. IsActionable(offers', c)
  BY <1>1 DEF IsActionable
<1>3. \A d \in Contractors : Holds(offers', d) => d = c
  BY <1>1 DEF Holds, IsActionable, IsReserved
<1> QED
  BY <1>2, <1>3, PhaseOffered

(* Each step of the engine is a step of Assignment, or changes nothing      *)
(* there: a table of offers may be rewritten freely where nobody holds it.  *)
LEMMA StepRefines ==
  DispatchInv /\ [DispatchNext]_dispatchVars =>
    [Abstract!Next]_<<PhaseOf(status, offers), HolderIn(offers)>>
<1> SUFFICES ASSUME DispatchInv, [DispatchNext]_dispatchVars
             PROVE  [Abstract!Next]_<<PhaseOf(status, offers), HolderIn(offers)>>
  OBVIOUS
<1> DEFINE Goal   == [Abstract!Next]_<<PhaseOf(status, offers), HolderIn(offers)>>
           Stays  == UNCHANGED <<PhaseOf(status, offers), HolderIn(offers)>>
<1>a. OneHolder /\ ExhaustedHoldsNobody /\ AssignmentAgrees
  BY DEF DispatchInv
<1>b. offers \in [Contractors -> OfferState] /\ available \in SUBSET Contractors
  BY DEF DispatchInv, TypeOK
<1>c. \A c, d \in Contractors : Holds(offers, c) /\ Holds(offers, d) => d = c
  BY <1>a DEF OneHolder
<1>1. CASE RunCall
  <2>1. CASE offers' = offers
    BY <1>1, <2>1 DEF RunCall
  <2>2. CASE status = "PENDING" /\ \A c \in Contractors : ~Holds(offers, c)
    <3>1. PhaseOf(status, offers) = "searching" /\ HolderIn(offers) = None
      BY <2>2, HolderAbsent
    <3>2. ASSUME NEW c \in Contractors, PhaseOf("PENDING", offers') = "offered",
                 HolderIn(offers') = c
          PROVE  Abstract!Offer(c)
      BY <1>1, <2>2, <3>1, <3>2, NoneAssumption DEF RunCall, Abstract!Offer
    <3> QED
      BY <1>1, <1>b, <2>1, <2>2, <3>2, CallOffers DEF RunCall, Abstract!Next
  <2> QED
    BY <1>1, <1>b, <2>1, <2>2, AssignNextContractorCases DEF RunCall
<1>2. CASE LoseCall \/ SelectStranded
  BY <1>2 DEF LoseCall, SelectStranded, Stranded
<1>3. CASE CancelBooking
  <2>1. PhaseOf(status, offers) \in {"searching", "offered", "reserved"}
    BY <1>3 DEF CancelBooking, PhaseOf, ClosedOffers
  <2>2. \A c \in Contractors : offers[c] # "ACCEPTED"
    BY <1>a, <1>3, NoneAssumption DEF CancelBooking, AssignmentAgrees, ClosedOffers
  <2>3. \A c \in Contractors : ~Holds(offers', c)
    BY <1>3, <2>2 DEF CancelBooking, Holds, IsActionable, IsReserved, ClosedOffers
  <2>4. HolderIn(offers') = None
    BY <2>3, HolderAbsent
  <2>5. PhaseOf(status', offers') = "cancelled"
    BY <1>3 DEF CancelBooking, PhaseOf, ClosedOffers
  <2> QED
    BY <2>1, <2>4, <2>5 DEF Abstract!Cancel, Abstract!Next
<1>4. CASE RescheduleBooking
  <2>1. \A c \in Contractors : ~Holds(offers, c) /\ ~Holds(offers', c)
    BY <1>a, <1>4 DEF RescheduleBooking, ExhaustedHoldsNobody, Holds, IsActionable,
                      IsReserved
  <2>2. Stays
    BY <1>4, <2>1, HolderAbsent DEF RescheduleBooking
  <2> QED
    BY <2>2
<1>5. ASSUME NEW c \in Contractors, AcceptOffer(c) PROVE Goal
  <2>1. PhaseOf("PENDING", offers) = "offered" /\ HolderIn(offers) = c
    BY <1>5, <1>c, PhaseOffered DEF AcceptOffer, Holds, CanRespond
  <2>2. IsReserved(offers', c) /\ \A d \in Contractors : Holds(offers', d) => d = c
    BY <1>5, <1>b, <1>c DEF AcceptOffer, Holds, IsActionable, IsReserved, CanRespond
  <2>3. PhaseOf("PENDING", offers') = "reserved" /\ HolderIn(offers') = c
    BY <2>2, PhaseReserved
  <2> QED
    BY <1>5, <2>1, <2>3 DEF AcceptOffer, Abstract!Reserve, Abstract!Next, CanRespond
<1>6. ASSUME NEW c \in Contractors, DeclineOffer(c) PROVE Goal
  <2> DEFINE declined == [offers EXCEPT ![c] = "DECLINED"]
  <2>1. PhaseOf("PENDING", offers) = "offered" /\ HolderIn(offers) = c
    BY <1>6, <1>c, PhaseOffered DEF DeclineOffer, Holds, CanRespond
  <2>2. declined \in [Contractors -> OfferState]
    BY <1>b DEF OfferState
  <2>3. \A d \in Contractors : ~Holds(declined, d)
    BY <1>6, <1>b, <1>c DEF DeclineOffer, Holds, IsActionable, IsReserved, CanRespond
  <2>4. CASE offers' = declined
    BY <1>6, <2>1, <2>3, <2>4, HolderAbsent
    DEF DeclineOffer, Abstract!Withdraw, Abstract!Next, CanRespond
  <2>5. CASE AssignNextContractor(declined) /\ offers' # declined
    <3>1. PICK d \in Contractors : /\ declined[d] = "NONE"
                                   /\ PhaseOf("PENDING", offers') = "offered"
                                   /\ HolderIn(offers') = d
      BY <1>b, <2>2, <2>3, <2>5, CallOffers
    <3>2. d # c
      BY <1>b, <3>1
    <3> QED
      BY <1>6, <2>1, <3>1, <3>2 DEF DeclineOffer, Abstract!Offer, Abstract!Next,
                                    CanRespond
  <2> QED
    BY <1>6, <2>4, <2>5 DEF DeclineOffer, CanRespond
<1>7. ASSUME NEW c \in Contractors, ExpireOffer(c) PROVE Goal
  <2>1. Stays
    BY <1>7, <1>b, SameHolders DEF ExpireOffer, IsActionable, IsReserved, Overdue
  <2> QED
    BY <2>1
<1>8. ASSUME NEW c \in Contractors, ConfirmAssignment(c) PROVE Goal
  <2>1. PhaseOf("PENDING", offers) = "reserved" /\ HolderIn(offers) = c
    BY <1>8, <1>c, PhaseReserved DEF ConfirmAssignment, Holds
  <2>2. Holds(offers', c) /\ \A d \in Contractors : Holds(offers', d) => d = c
    BY <1>8, <1>b, <1>c DEF ConfirmAssignment, Holds, IsActionable, IsReserved
  <2>3. HolderIn(offers') = c
    BY <2>2, HolderUnique
  <2>4. PhaseOf(status', offers') = "assigned"
    BY <1>8 DEF ConfirmAssignment, PhaseOf
  <2> QED
    BY <1>8, <2>1, <2>3, <2>4 DEF ConfirmAssignment, Abstract!Assign, Abstract!Next
<1>9. ASSUME NEW c \in Contractors, OfferLapses(c) PROVE Goal
  <2>1. PhaseOf("PENDING", offers) = "offered" /\ HolderIn(offers) = c
    BY <1>9, <1>c, PhaseOffered DEF OfferLapses, Holds, IsActionable
  <2>2. \A d \in Contractors : ~Holds(offers', d)
    BY <1>9, <1>b, <1>c DEF OfferLapses, Holds, IsActionable, IsReserved
  <2>3. status = "PENDING"
    BY <1>a, <1>9, <1>c, NoneAssumption
    DEF OfferLapses, AssignmentAgrees, Holds, IsActionable, IsReserved, DispatchInv,
        TypeOK
  <2> QED
    BY <1>9, <2>1, <2>2, <2>3, HolderAbsent
    DEF OfferLapses, Abstract!Withdraw, Abstract!Next
<1>10. CASE VisitTimePasses
  <2>1. CASE \E c \in Contractors : offers[c] = "PENDING"
    <3>1. PICK c \in Contractors : offers[c] = "PENDING"
      BY <2>1
    <3>2. PhaseOf("PENDING", offers) = "offered" /\ HolderIn(offers) = c
      BY <1>c, <3>1, PhaseOffered DEF Holds, IsActionable
    <3>3. \A d \in Contractors : ~Holds(offers', d)
      BY <1>10, <1>b, <1>c, <3>1 DEF VisitTimePasses, Holds, IsActionable, IsReserved
    <3>4. status = "PENDING"
      BY <1>a, <1>c, <3>1, NoneAssumption
      DEF AssignmentAgrees, Holds, IsActionable, IsReserved, DispatchInv, TypeOK
    <3> QED
      BY <1>10, <3>2, <3>3, <3>4, HolderAbsent
      DEF VisitTimePasses, Abstract!Withdraw, Abstract!Next
  <2>2. CASE \A c \in Contractors : offers[c] # "PENDING"
    <3>1. Stays
      BY <1>10, <1>b, <2>2, SameHolders DEF VisitTimePasses, IsActionable, IsReserved
    <3> QED
      BY <3>1
  <2> QED
    BY <2>1, <2>2
<1>11. ASSUME NEW c \in Contractors, AvailabilityChanges(c) PROVE Goal
  BY <1>11 DEF AvailabilityChanges
<1>12. CASE UNCHANGED dispatchVars
  BY <1>12 DEF dispatchVars
<1> QED
  BY <1>1, <1>2, <1>3, <1>4, <1>5, <1>6, <1>7, <1>8, <1>9, <1>10, <1>11, <1>12
  DEF DispatchNext

(* The engine of offers, sweeps, hooks and recovery implements the abstract *)
(* life of a booking: it changes hands only while it is merely offered, and *)
(* the contractor who reserved it is the one it is assigned to.             *)
THEOREM DispatchImplementsAssignment == DispatchSpec => AbstractSpec
<1>1. Init => Abstract!Init
  <2> SUFFICES ASSUME Init PROVE Abstract!Init
    OBVIOUS
  <2>1. \A c \in Contractors : ~Holds(offers, c)
    BY DEF Init, Holds, IsActionable, IsReserved
  <2> QED
    BY <2>1, HolderAbsent DEF Init, Abstract!Init
<1> QED
  BY <1>1, StepRefines, Invariance, PTL DEF DispatchSpec, AbstractSpec, Abstract!Spec
-----------------------------------------------------------------------------
(***************************************************************************)
(* Payments implements Dispatch                                            *)
(***************************************************************************)

(* Every step of the charge leaves the booking alone or is a handler of the *)
(* dispatch engine, restricted by a lock or by the payment it reads.        *)
LEMMA PaymentsStepRefines ==
  [PaymentsNext]_vars => [DispatchNext]_dispatchVars
<1> SUFFICES ASSUME [PaymentsNext]_vars PROVE [DispatchNext]_dispatchVars
  OBVIOUS
<1>1. CASE StartCharge \/ PrepareRetry \/ ConfirmPaymentAction \/ RefundPayment \/ BeginCancel
  BY <1>1 DEF StartCharge, PrepareRetry, ConfirmPaymentAction, RefundPayment,
              BeginCancel, ChargeMissing, Retryable, StatusAfter
<1>2. ASSUME NEW n \in Attempts, NEW outcome,
             ProviderCharges(n, outcome) \/ CustomerAnswers(n, outcome)
      PROVE  UNCHANGED dispatchVars
  BY <1>2 DEF ProviderCharges, CustomerAnswers
<1>3. ASSUME NEW n \in Attempts,
             CallBreaks(n) \/ ProcessDies(n) \/ RecordOutcome(n) \/ HandleProviderWebhook(n)
      PROVE  UNCHANGED dispatchVars
  BY <1>3 DEF CallBreaks, ProcessDies, RecordOutcome, HandleProviderWebhook, StatusAfter
<1>4. ASSUME NEW c \in Contractors, ConfirmPayment(c) PROVE DispatchNext
  BY <1>4 DEF ConfirmPayment, DispatchNext, MayConfirm
<1>5. CASE ReconcilePayment
  BY <1>5 DEF ReconcilePayment, DispatchNext
<1>6. CASE FinishCancel \/ Reschedule \/ LockingStep \/ UnlockedStep
  BY <1>6 DEF FinishCancel, Reschedule, LockingStep, UnlockedStep, DispatchNext
<1>7. CASE UNCHANGED vars
  BY <1>7 DEF vars
<1> QED
  BY <1>1, <1>2, <1>3, <1>4, <1>5, <1>6, <1>7 DEF PaymentsNext

(* Composing the charge with the booking breaks none of the guarantees of  *)
(* the dispatch engine: every behaviour of Payments is one of Dispatch, so *)
(* all that is proved there holds here.                                    *)
THEOREM PaymentsImplementsDispatch == PaymentsSpec => DispatchSpec
<1>1. PaymentsInit => Init
  BY DEF PaymentsInit
<1> QED
  BY <1>1, PaymentsStepRefines, PTL DEF PaymentsSpec, DispatchSpec

----------------------------------------------------------------------------
(***************************************************************************)
(* No assignment without a captured charge                                 *)
(***************************************************************************)

(* The answer a caller holds is one the provider gave.                     *)
AnswersAreTrue ==
  \A n \in Attempts :
    /\ call[n] = "succeeded" => Charged(n)
    /\ call[n] \in {"action", "failed"} => intent[n] # "none"

(* The row exists once the first attempt was recorded; until then nothing  *)
(* but the first attempt has been made, and it is not under way after.     *)
RowMatchesAttempts ==
  /\ RowExists <=> attempt # 0
  /\ call[1] \in UnderWay => ~RowExists
  /\ \A n \in Attempts : n # 1 /\ call[n] # "idle" => n <= attempt

(* provider_reference names an intent of an attempt that was made.         *)
ReferenceIsReal == ref # 0 => ref <= attempt /\ intent[ref] # "none"

ChargeInv ==
  /\ PaymentsTypeOK
  /\ AnswersAreTrue
  /\ RowMatchesAttempts
  /\ ReferenceIsReal
  /\ SucceededIsCharged
  /\ AssignedIsCharged

(* The parts of the invariant that say what the provider did.              *)
ChargeFacts ==
  AnswersAreTrue /\ RowMatchesAttempts /\ ReferenceIsReal /\ SucceededIsCharged

LEMMA PaymentsTypeStep ==
  PaymentsTypeOK /\ [PaymentsNext]_vars => PaymentsTypeOK'
<1> SUFFICES ASSUME PaymentsTypeOK, [PaymentsNext]_vars PROVE PaymentsTypeOK'
  OBVIOUS
<1> DEFINE RowTypes ==
     /\ payStatus \in {"none", "PROCESSING", "REQUIRES_ACTION", "SUCCEEDED", "FAILED",
                       "REFUNDED"}
     /\ attempt \in 0 .. MaxAttempts
     /\ ref \in 0 .. MaxAttempts
     /\ unknown \in BOOLEAN
     /\ call \in [Attempts -> UnderWay \union {"idle", "recorded", "dead"}]
     /\ intent \in [Attempts -> {"none", "captured", "action", "declined", "refunded"}]
     /\ cancelling \in BOOLEAN
     /\ crashes \in 0 .. MaxCrashes
<1>a. TypeOK' /\ RowTypes
  BY PaymentsStepRefines, TypeStep DEF PaymentsTypeOK
<1>b. SUFFICES RowTypes'
  BY <1>a DEF PaymentsTypeOK
<1> USE <1>a, AttemptsAssumption, CrashesAssumption DEF Attempts, UnderWay, Answers
<1>1. CASE StartCharge
  BY <1>1 DEF StartCharge, rowVars, ChargeMissing
<1>2. CASE PrepareRetry
  BY <1>2 DEF PrepareRetry, Retryable
<1>3. ASSUME NEW n \in Attempts, NEW outcome, ProviderCharges(n, outcome) PROVE RowTypes'
  BY <1>3 DEF ProviderCharges, rowVars, AnswerFor
<1>4. ASSUME NEW n \in Attempts, CallBreaks(n) \/ ProcessDies(n) PROVE RowTypes'
  BY <1>4 DEF CallBreaks, ProcessDies, rowVars
<1>5. ASSUME NEW n \in Attempts, RecordOutcome(n) PROVE RowTypes'
  <2>1. n \in 0 .. MaxAttempts /\ 1 \in 0 .. MaxAttempts
    OBVIOUS
  <2>2. attempt' \in 0 .. MaxAttempts /\ ref' \in 0 .. MaxAttempts
    BY <1>5, <2>1 DEF RecordOutcome, StatusAfter
  <2>3. /\ payStatus' \in {"none", "PROCESSING", "REQUIRES_ACTION", "SUCCEEDED",
                          "FAILED", "REFUNDED"}
        /\ unknown' \in BOOLEAN
    BY <1>5 DEF RecordOutcome, StatusAfter
  <2>4. /\ call' \in [Attempts -> UnderWay \union {"idle", "recorded", "dead"}]
        /\ UNCHANGED <<intent, cancelling, crashes>>
    BY <1>5 DEF RecordOutcome, StatusAfter
  <2> QED
    BY <2>2, <2>3, <2>4
<1>6. ASSUME NEW n \in Attempts, NEW outcome, CustomerAnswers(n, outcome) PROVE RowTypes'
  BY <1>6 DEF CustomerAnswers, rowVars
<1>7. ASSUME NEW n \in Attempts, HandleProviderWebhook(n) PROVE RowTypes'
  <2>1. n \in 0 .. MaxAttempts
    OBVIOUS
  <2>2. ref' \in 0 .. MaxAttempts /\ payStatus' \in {"SUCCEEDED", "FAILED"}
    BY <1>7, <2>1 DEF HandleProviderWebhook
  <2>3. unknown' = FALSE /\ UNCHANGED <<attempt, call, intent, cancelling, crashes>>
    BY <1>7 DEF HandleProviderWebhook
  <2> QED
    BY <2>2, <2>3
<1>8. CASE ConfirmPaymentAction
  BY <1>8 DEF ConfirmPaymentAction, StatusAfter
<1>9. CASE ReconcilePayment
  BY <1>9 DEF ReconcilePayment
<1>10. CASE RefundPayment
  BY <1>10 DEF RefundPayment
<1>11. CASE BeginCancel \/ FinishCancel
  BY <1>11 DEF BeginCancel, FinishCancel, rowVars
<1>12. CASE UNCHANGED payVars
  BY <1>12 DEF payVars
<1> QED
  BY <1>1, <1>2, <1>3, <1>4, <1>5, <1>6, <1>7, <1>8, <1>9, <1>10, <1>11, <1>12
  DEF PaymentsNext, vars, ConfirmPayment, Reschedule, LockingStep, UnlockedStep,
      MayConfirm

(* The provider never takes a charge back: it is captured, then at most     *)
(* refunded; and an intent once made is never unmade.                       *)
LEMMA ChargesLast ==
  ASSUME PaymentsTypeOK, [PaymentsNext]_vars
  PROVE  \A n \in Attempts :
           /\ Charged(n) => Charged(n)'
           /\ intent[n] # "none" => intent'[n] # "none"
<1> USE DEF Charged
<1>a. intent \in [Attempts -> {"none", "captured", "action", "declined", "refunded"}]
  BY DEF PaymentsTypeOK
<1>1. ASSUME NEW n \in Attempts, NEW outcome \in {"captured", "action", "declined",
"none"},
             ProviderCharges(n, outcome) \/ CustomerAnswers(n, outcome)
      PROVE  \A m \in Attempts :
               /\ Charged(m) => Charged(m)'
               /\ intent[m] # "none" => intent'[m] # "none"
  BY <1>a, <1>1 DEF ProviderCharges, CustomerAnswers
<1>2. CASE RefundPayment
  BY <1>a, <1>2 DEF RefundPayment
<1>3. CASE UNCHANGED intent
  BY <1>3
<1> QED
  BY <1>1, <1>2, <1>3
  DEF PaymentsNext, StartCharge, PrepareRetry, CallBreaks, ProcessDies, RecordOutcome,
      ChargeMissing, Retryable, StatusAfter,
      HandleProviderWebhook, ConfirmPaymentAction, ConfirmPayment, ReconcilePayment,
      BeginCancel, FinishCancel, Reschedule, LockingStep, UnlockedStep, vars, payVars

(* A step that leaves the row and the calls alone keeps the facts.          *)
LEMMA FactsFrame ==
  ASSUME PaymentsTypeOK, ChargeFacts, [PaymentsNext]_vars, UNCHANGED rowVars,
         \A n \in Attempts :
           \/ call'[n] = call[n]
           \/ call'[n] \in {"idle", "broken", "dead"} /\ call[n] \in UnderWay
  PROVE  ChargeFacts'
<1> USE DEF Charged
<1>a. \A n \in Attempts :
        /\ Charged(n) => Charged(n)'
        /\ intent[n] # "none" => intent'[n] # "none"
  BY ChargesLast
<1>b. AnswersAreTrue /\ RowMatchesAttempts /\ ReferenceIsReal /\ SucceededIsCharged
  BY DEF ChargeFacts
<1>c. /\ attempt \in 0 .. MaxAttempts /\ ref \in 0 .. MaxAttempts
      /\ 1 .. attempt \subseteq Attempts /\ 1 \in Attempts
      /\ ref # 0 => ref \in Attempts
  BY AttemptsAssumption DEF PaymentsTypeOK, Attempts
<1>1. AnswersAreTrue'
  BY <1>a, <1>b DEF AnswersAreTrue
<1>2. RowMatchesAttempts'
  BY <1>b, <1>c DEF RowMatchesAttempts, RowExists, rowVars, UnderWay, Answers
<1>3. ReferenceIsReal'
  BY <1>a, <1>b, <1>c DEF ReferenceIsReal, rowVars
<1>4. SucceededIsCharged'
  BY <1>a, <1>b, <1>c DEF SucceededIsCharged, rowVars
<1> QED
  BY <1>1, <1>2, <1>3, <1>4 DEF ChargeFacts

(* Every way a result reaches the row keeps the facts: an answer, an event, *)
(* the customer's return, the superuser's note, a refund.                   *)
LEMMA FactsStep ==
  ASSUME PaymentsTypeOK, ChargeFacts, [PaymentsNext]_vars
  PROVE  ChargeFacts'
<1> USE DEF Charged
<1>a. \A n \in Attempts :
        /\ Charged(n) => Charged(n)'
        /\ intent[n] # "none" => intent'[n] # "none"
  BY ChargesLast
<1>b. AnswersAreTrue /\ RowMatchesAttempts /\ ReferenceIsReal /\ SucceededIsCharged
  BY DEF ChargeFacts
<1>c. /\ attempt \in 0 .. MaxAttempts /\ ref \in 0 .. MaxAttempts
      /\ 1 .. attempt \subseteq Attempts /\ 1 \in Attempts
      /\ ref # 0 => ref \in Attempts
  BY AttemptsAssumption DEF PaymentsTypeOK, Attempts
<1>d. /\ call \in [Attempts -> UnderWay \union {"idle", "recorded", "dead"}]
      /\ intent \in [Attempts -> {"none", "captured", "action", "declined", "refunded"}]
  BY DEF PaymentsTypeOK
<1>1. CASE StartCharge
  <2>1. AnswersAreTrue' /\ ReferenceIsReal' /\ SucceededIsCharged'
    BY <1>b, <1>d, <1>1
    DEF StartCharge, rowVars, AnswersAreTrue, ReferenceIsReal, SucceededIsCharged,
        ChargeMissing
  <2>2. RowMatchesAttempts'
    BY <1>b, <1>d, <1>1 DEF StartCharge, rowVars, RowMatchesAttempts, RowExists,
                            ChargeMissing
  <2> QED
    BY <2>1, <2>2 DEF ChargeFacts
<1>2. CASE PrepareRetry
  <2>1. attempt \in Attempts /\ attempt + 1 \in Attempts /\ attempt + 1 # 1
    BY <1>b, <1>c, <1>2, AttemptsAssumption
    DEF PrepareRetry, RowMatchesAttempts, RowExists, Attempts, Retryable
  <2>2. AnswersAreTrue' /\ SucceededIsCharged'
    BY <1>b, <1>d, <1>2, <2>1 DEF PrepareRetry, AnswersAreTrue, SucceededIsCharged,
                                  Retryable
  <2>3. RowMatchesAttempts'
    BY <1>b, <1>c, <1>d, <1>2, <2>1
    DEF PrepareRetry, RowMatchesAttempts, RowExists, UnderWay, Answers, Attempts,
        Retryable
  <2>4. ReferenceIsReal'
    BY <1>b, <1>c, <1>2 DEF PrepareRetry, ReferenceIsReal, Retryable
  <2> QED
    BY <2>2, <2>3, <2>4 DEF ChargeFacts
<1>3. ASSUME NEW n \in Attempts, NEW outcome, ProviderCharges(n, outcome) PROVE ChargeFacts'
  <2>1. AnswersAreTrue'
    BY <1>a, <1>b, <1>d, <1>3 DEF ProviderCharges, AnswersAreTrue, AnswerFor
  <2>2. RowMatchesAttempts'
    <3>1. \A m \in Attempts : call'[m] = call[m] \/ call[m] = "sent"
      BY <1>d, <1>3 DEF ProviderCharges
    <3>2. UNCHANGED <<payStatus, attempt>>
      BY <1>3 DEF ProviderCharges, rowVars
    <3> QED
      BY <1>b, <1>c, <3>1, <3>2 DEF RowMatchesAttempts, RowExists, UnderWay
  <2>3. ReferenceIsReal' /\ SucceededIsCharged'
    BY <1>a, <1>b, <1>c, <1>3
    DEF ProviderCharges, rowVars, ReferenceIsReal, SucceededIsCharged
  <2> QED
    BY <2>1, <2>2, <2>3 DEF ChargeFacts
<1>4. ASSUME NEW n \in Attempts, RecordOutcome(n) PROVE ChargeFacts'
  <2>1. AnswersAreTrue'
    BY <1>b, <1>d, <1>4 DEF RecordOutcome, AnswersAreTrue, StatusAfter
  <2>2. n <= attempt' /\ (n # 1 => RowExists /\ attempt' = attempt)
    BY <1>b, <1>c, <1>4 DEF RecordOutcome, RowMatchesAttempts, RowExists, Answers,
                            Attempts, StatusAfter
  <2>3. RowMatchesAttempts'
    BY <1>b, <1>c, <1>d, <1>4, <2>2
    DEF RecordOutcome, RowMatchesAttempts, RowExists, UnderWay, Answers, Attempts,
        StatusAfter
  <2>4. ReferenceIsReal'
    BY <1>b, <1>c, <1>d, <1>4, <2>2
    DEF RecordOutcome, ReferenceIsReal, AnswersAreTrue, RowMatchesAttempts, UnderWay,
        StatusAfter,
        Answers, Attempts
  <2>5. SucceededIsCharged'
    BY <1>b, <1>c, <1>d, <1>4, <2>2
    DEF RecordOutcome, SucceededIsCharged, AnswersAreTrue, RowMatchesAttempts,
        RowExists, StatusAfter,
        Answers, UnderWay, Attempts
  <2> QED
    BY <2>1, <2>3, <2>4, <2>5 DEF ChargeFacts
<1>5. ASSUME NEW n \in Attempts, HandleProviderWebhook(n) PROVE ChargeFacts'
  <2>1. n \in 1 .. attempt
    BY <1>b, <1>c, <1>5
    DEF HandleProviderWebhook, PaymentForEvent, RowMatchesAttempts, ReferenceIsReal,
        Attempts
  <2>2. AnswersAreTrue' /\ RowMatchesAttempts'
    BY <1>b, <1>5
    DEF HandleProviderWebhook, PaymentForEvent, AnswersAreTrue, RowMatchesAttempts,
        RowExists
  <2>3. ReferenceIsReal'
    BY <1>b, <1>c, <1>5, <2>1 DEF HandleProviderWebhook, ReferenceIsReal
  <2>4. SucceededIsCharged'
    BY <1>5, <2>1 DEF HandleProviderWebhook, SucceededIsCharged
  <2> QED
    BY <2>2, <2>3, <2>4 DEF ChargeFacts
<1>6. CASE ConfirmPaymentAction
  <2>1. ref \in 1 .. attempt
    BY <1>b, <1>c, <1>6 DEF ConfirmPaymentAction, ReferenceIsReal, StatusAfter
  <2>2. AnswersAreTrue' /\ RowMatchesAttempts' /\ ReferenceIsReal'
    BY <1>b, <1>6
    DEF ConfirmPaymentAction, AnswersAreTrue, RowMatchesAttempts, RowExists,
        ReferenceIsReal, StatusAfter
  <2>3. payStatus' = "SUCCEEDED" => Charged(ref)
    BY <1>b, <1>c, <1>d, <1>6 DEF ConfirmPaymentAction, ReferenceIsReal, AnswerFor,
                                  StatusAfter
  <2>4. SucceededIsCharged'
    BY <1>6, <2>1, <2>3 DEF ConfirmPaymentAction, SucceededIsCharged, StatusAfter
  <2> QED
    BY <2>2, <2>4 DEF ChargeFacts
<1>7. CASE ReconcilePayment
  <2>1. attempt \in 1 .. attempt
    BY <1>b, <1>c, <1>7 DEF ReconcilePayment, RowMatchesAttempts, RowExists
  <2>2. AnswersAreTrue' /\ RowMatchesAttempts'
    BY <1>b, <1>7
    DEF ReconcilePayment, AnswersAreTrue, RowMatchesAttempts, RowExists
  <2>3. ReferenceIsReal' /\ SucceededIsCharged'
    BY <1>b, <1>c, <1>7, <2>1 DEF ReconcilePayment, ReferenceIsReal, SucceededIsCharged
  <2> QED
    BY <2>2, <2>3 DEF ChargeFacts
<1>8. CASE RefundPayment
  <2>1. ref \in 1 .. attempt
    BY <1>b, <1>c, <1>8 DEF RefundPayment, ReferenceIsReal
  <2>2. AnswersAreTrue' /\ RowMatchesAttempts' /\ ReferenceIsReal'
    BY <1>a, <1>b, <1>c, <1>8
    DEF RefundPayment, AnswersAreTrue, RowMatchesAttempts, RowExists, ReferenceIsReal
  <2>3. SucceededIsCharged'
    BY <1>a, <1>c, <1>8, <2>1 DEF RefundPayment, SucceededIsCharged
  <2> QED
    BY <2>2, <2>3 DEF ChargeFacts
<1>9. ASSUME NEW n \in Attempts, NEW outcome,
             CallBreaks(n) \/ ProcessDies(n) \/ CustomerAnswers(n, outcome)
      PROVE  ChargeFacts'
  BY <1>d, <1>9, FactsFrame DEF CallBreaks, ProcessDies, CustomerAnswers, rowVars,
                                UnderWay
<1>10. CASE BeginCancel \/ FinishCancel \/ UNCHANGED payVars
  BY <1>10, FactsFrame DEF BeginCancel, FinishCancel, payVars, rowVars
<1> QED
  BY <1>1, <1>2, <1>3, <1>4, <1>5, <1>6, <1>7, <1>8, <1>9, <1>10
  DEF PaymentsNext, ConfirmPayment, Reschedule, LockingStep, UnlockedStep, vars,
      MayConfirm

(* A booking becomes CONFIRMED only on the word of a successful payment, or *)
(* of a superuser who has seen the charge; and a charge is never undone.    *)
LEMMA AssignmentStep ==
  ASSUME PaymentsTypeOK, ChargeFacts, AssignedIsCharged, [PaymentsNext]_vars
  PROVE  AssignedIsCharged'
<1> USE DEF Charged
<1>a. \A n \in Attempts : Charged(n) => Charged(n)'
  BY ChargesLast
<1>b. /\ attempt \in 0 .. MaxAttempts /\ 1 .. attempt \subseteq Attempts
      /\ RowExists <=> attempt # 0
  BY AttemptsAssumption DEF PaymentsTypeOK, ChargeFacts, RowMatchesAttempts, Attempts
<1>1. CASE status' = status
  BY <1>a, <1>1 DEF AssignedIsCharged
<1>2. ASSUME NEW c \in Contractors, ConfirmPayment(c) PROVE AssignedIsCharged'
  BY <1>a, <1>b, <1>2
  DEF ConfirmPayment, ChargeFacts, SucceededIsCharged, AssignedIsCharged, MayConfirm
<1>3. CASE ReconcilePayment
  <2>1. attempt \in Attempts
    BY <1>b, <1>3 DEF ReconcilePayment, RowExists
  <2>2. CASE Charged(attempt)
    BY <1>a, <2>1, <2>2 DEF AssignedIsCharged
  <2>3. CASE ~Charged(attempt)
    BY <1>1, <1>3, <2>3 DEF ReconcilePayment, dispatchVars
  <2> QED
    BY <2>2, <2>3
<1>4. CASE FinishCancel
  BY <1>4 DEF FinishCancel, CancelBooking, AssignedIsCharged, ClosedOffers
<1>5. CASE Reschedule \/ LockingStep \/ UnlockedStep
  BY <1>1, <1>5
  DEF Reschedule, RescheduleBooking, LockingStep, RunCall, AcceptOffer, DeclineOffer,
      CanRespond,
      UnlockedStep, LoseCall, SelectStranded, VisitTimePasses, ExpireOffer, OfferLapses,
      AvailabilityChanges
<1>6. CASE UNCHANGED dispatchVars
  BY <1>1, <1>6 DEF dispatchVars
<1> QED
  BY <1>2, <1>3, <1>4, <1>5, <1>6
  DEF PaymentsNext, StartCharge, PrepareRetry, ProviderCharges, CallBreaks,
      ProcessDies, ChargeMissing, Retryable,
      RecordOutcome, CustomerAnswers, HandleProviderWebhook, ConfirmPaymentAction,
      RefundPayment, BeginCancel, vars

LEMMA ChargeInvariance == PaymentsSpec => []ChargeInv
<1>1. PaymentsInit => ChargeInv
  <2> SUFFICES ASSUME PaymentsInit PROVE ChargeInv
    OBVIOUS
  <2>1. TypeOK
    BY CallsAssumption, NoneAssumption DEF PaymentsInit, Init, TypeOK, OfferState
  <2>2. PaymentsTypeOK
    <3>1. 0 \in 0 .. MaxAttempts /\ 0 \in 0 .. MaxCrashes
      BY AttemptsAssumption, CrashesAssumption
    <3> QED
      BY <2>1, <3>1 DEF PaymentsInit, PaymentsTypeOK
  <2> QED
    BY <2>2, AttemptsAssumption
    DEF PaymentsInit, Init, ChargeInv, AnswersAreTrue, RowMatchesAttempts, RowExists,
        ReferenceIsReal, SucceededIsCharged, AssignedIsCharged, Attempts, UnderWay,
        Answers
<1>2. ChargeInv /\ [PaymentsNext]_vars => ChargeInv'
  BY PaymentsTypeStep, FactsStep, AssignmentStep DEF ChargeInv, ChargeFacts
<1> QED
  BY <1>1, <1>2, PTL DEF PaymentsSpec

(* Nobody is sent to work unpaid: whatever the order of answers, events,    *)
(* retries, reconciliations and crashes, a CONFIRMED booking has a charge   *)
(* that the provider really captured.                                       *)
THEOREM NobodyWorksUnpaid == PaymentsSpec => []AssignedIsCharged
<1>1. ChargeInv => AssignedIsCharged
  BY DEF ChargeInv
<1> QED
  BY <1>1, ChargeInvariance, PTL

(* A payment is SUCCEEDED, or REFUNDED, only if the provider captured one   *)
(* of the attempts made for it.                                             *)
THEOREM SuccessIsTrue == PaymentsSpec => []SucceededIsCharged
<1>1. ChargeInv => SucceededIsCharged
  BY DEF ChargeInv
<1> QED
  BY <1>1, ChargeInvariance, PTL

(* The rows, the calls under way and the provider's intents stay within     *)
(* their types and bounds.                                                  *)
THEOREM PaymentsTypeCorrect == PaymentsSpec => []PaymentsTypeOK
<1>1. ChargeInv => PaymentsTypeOK
  BY DEF ChargeInv
<1> QED
  BY <1>1, ChargeInvariance, PTL

(* A payment stays with the reservation it pays for: once a charge has      *)
(* started the booking is reserved, assigned or cancelled for good, because *)
(* the engine never takes a reservation back.                               *)
THEOREM PaymentFollowsReservation == PaymentsSpec => []PaymentKeepsReservation
<1>1. PaymentsInit => PaymentKeepsReservation
  BY AttemptsAssumption
  DEF PaymentsInit, PaymentKeepsReservation, RowExists, UnderWay, Answers, Attempts
<1>2. ASSUME ChargeInv, DispatchInv, PaymentKeepsReservation, [PaymentsNext]_vars
      PROVE  PaymentKeepsReservation'
  <2>1. [DispatchNext]_dispatchVars
    BY <1>2, PaymentsStepRefines
  <2>2. status = "CANCELLED" => status' = "CANCELLED"
    BY <2>1
    DEF DispatchNext, RunCall, LoseCall, SelectStranded, CancelBooking,
        RescheduleBooking, Stranded, ClosedOffers,
        VisitTimePasses, AcceptOffer, DeclineOffer, ExpireOffer, ConfirmAssignment,
        OfferLapses, AvailabilityChanges, dispatchVars
  <2>3. BookingIsReserved(offers) => status' = "CANCELLED" \/ BookingIsReserved(offers')
    BY <1>2, <2>1, ReservationStep DEF BookingIsReserved
  <2>4. RowExists \/ call[1] \in UnderWay \/ BookingIsReserved(offers)
          \/ ~(RowExists \/ call[1] \in UnderWay)'
    <3>1. call \in [Attempts -> UnderWay \union {"idle", "recorded", "dead"}] /\ 1 \in Attempts
      BY <1>2, AttemptsAssumption DEF ChargeInv, PaymentsTypeOK, Attempts
    <3>2. CASE StartCharge
      BY <3>2 DEF StartCharge, ChargeMissing
    <3>3. CASE UNCHANGED <<payStatus, call>>
      BY <3>3 DEF RowExists
    <3>4. ASSUME NEW n \in Attempts, NEW outcome, ProviderCharges(n, outcome)
          PROVE  (RowExists \/ call[1] \in UnderWay) \/ ~(RowExists \/ call[1] \in UnderWay)'
      BY <3>1, <3>4 DEF ProviderCharges, RowExists, rowVars, UnderWay
    <3>5. ASSUME NEW n \in Attempts, CallBreaks(n) \/ ProcessDies(n) \/ RecordOutcome(n)
          PROVE  (RowExists \/ call[1] \in UnderWay) \/ ~(RowExists \/ call[1] \in UnderWay)'
      <4>1. n # 1 => RowExists
        BY <1>2, <3>5
        DEF ChargeInv, RowMatchesAttempts, PaymentsTypeOK, CallBreaks, ProcessDies,
            RecordOutcome, StatusAfter,
            Answers, UnderWay, Attempts
      <4>2. n = 1 => call[1] \in UnderWay
        BY <3>5 DEF CallBreaks, ProcessDies, RecordOutcome, Answers, UnderWay,
                    StatusAfter
      <4> QED
        BY <4>1, <4>2
    <3>6. CASE RowExists
      BY <3>6
    <3> QED
      BY <1>2, <3>2, <3>3, <3>4, <3>5, <3>6
      DEF PaymentsNext, PrepareRetry, CustomerAnswers, HandleProviderWebhook,
          PaymentForEvent, Retryable,
          ConfirmPaymentAction, ConfirmPayment, ReconcilePayment, RefundPayment,
          BeginCancel,
          FinishCancel, Reschedule, LockingStep, UnlockedStep, RowExists, rowVars,
          payVars, vars
  <2> QED
    BY <1>2, <2>2, <2>3, <2>4 DEF PaymentKeepsReservation
<1> QED
  BY <1>1, <1>2, ChargeInvariance, PaymentsImplementsDispatch, Invariance, PTL
  DEF PaymentsSpec
=============================================================================
