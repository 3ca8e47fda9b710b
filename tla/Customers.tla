----------------------------- MODULE Customers -----------------------------
(***************************************************************************)
(* What one customer does around the bookings of one property: booking     *)
(* it, moving it, removing it, and deleting the account.  How a booking    *)
(* finds a contractor and is paid is Dispatch's and Payments' matter; here *)
(* it passes through the stages at which these requests look.              *)
(*                                                                         *)
(* None of the checks takes a lock on the bookings it reads, so a request  *)
(* checks in one step and writes in a later one.  Deletion does lock the   *)
(* account, and a booking that refers to it cannot commit meanwhile.       *)
(***************************************************************************)
EXTENDS Naturals, FiniteSets

CONSTANTS Bookings,     \* rows of bookings_booking that may come to exist
          Workers,      \* processes that serve the customer's requests
          MaxAddress    \* bound: addresses the property is ever given

ASSUME CustomersAssumption ==
    IsFiniteSet(Bookings) /\ IsFiniteSet(Workers) /\ MaxAddress \in Nat \ {0}

VARIABLES
    account,    \* User.status of the customer
    listed,     \* Property.is_active
    address,    \* the address, by number
    stage,      \* how far each booking is
    priced,     \* the address the distance of a booking's offer was taken from
    reviewed,   \* bookings that have a review
    req         \* what each worker is doing

lifeVars == <<account, listed, address, stage, priced, reviewed>>
customerVars == <<lifeVars, req>>

Pending == {"SEARCHING", "OFFERED", "RESERVED", "PAYING"}    \* BookingStatus.PENDING
Stages  == Pending \union {"none", "CONFIRMED", "COMPLETED", "CANCELLED"}

Idle == [at |-> "idle", listed |-> FALSE]

CustomersTypeOK ==
    /\ account \in {"ACTIVE", "DELETED"}
    /\ listed \in BOOLEAN
    /\ address \in 1 .. MaxAddress
    /\ stage \in [Bookings -> Stages]
    /\ priced \in [Bookings -> 0 .. MaxAddress]
    /\ reviewed \subseteq Bookings
    /\ req \in [Workers -> [at : {"idle", "booking", "saving", "removing", "moving", "deleting"},
                            listed : BOOLEAN]]

CustomersInit ==
    /\ account = "ACTIVE" /\ listed = TRUE /\ address = 1
    /\ stage = [b \in Bookings |-> "none"]
    /\ priced = [b \in Bookings |-> 0]
    /\ reviewed = {}
    /\ req = [w \in Workers |-> Idle]

At(w, step)   == req[w].at = step
Goto(w, next) == req' = [req EXCEPT ![w] = next]
Begins(w)     == At(w, "idle") /\ account = "ACTIVE"

\* select_for_update on the account, from the blockers to the commit
AccountLocked == \E w \in Workers : At(w, "deleting")
-----------------------------------------------------------------------------
(* Booking *)

\* pending_review_booking
ReviewDue == \E b \in Bookings : stage[b] = "COMPLETED" /\ b \notin reviewed

\* create_booking looks at the property and at the reviews that are due ...
CreateBooking(w) ==
    /\ Begins(w)
    /\ listed /\ ~ReviewDue
    /\ Goto(w, [Idle EXCEPT !.at = "booking"])
    /\ UNCHANGED lifeVars

\* ... and commits, unless the account's row is locked
BookingSaved(w) ==
    /\ At(w, "booking") /\ ~AccountLocked
    /\ \E b \in Bookings :
          /\ stage[b] = "none"
          /\ stage' = [stage EXCEPT ![b] = "SEARCHING"]
    /\ Goto(w, Idle)
    /\ UNCHANGED <<account, listed, address, priced, reviewed>>

\* The offer, and with it the distance, is there from OFFERED to the end of the job
Moves(b, from, to) ==
    /\ stage[b] \in from
    /\ stage' = [stage EXCEPT ![b] = to]
    /\ priced' = [priced EXCEPT ![b] = IF to = "OFFERED" THEN address
                                       ELSE IF to \in {"RESERVED", "PAYING", "CONFIRMED"} THEN @ ELSE 0]
    /\ UNCHANGED <<account, listed, address, reviewed, req>>

\* The steps of Dispatch, Payments and Fulfilment
Advances(b) ==
    \/ Moves(b, {"SEARCHING"}, "OFFERED")          \* the distance is frozen
    \/ Moves(b, {"OFFERED"}, "SEARCHING")          \* declined or expired
    \/ Moves(b, {"OFFERED"}, "RESERVED")           \* accepted
    \/ Moves(b, {"RESERVED"}, "PAYING")            \* charge begun
    \/ Moves(b, {"PAYING"}, "RESERVED")            \* charge declined
    \/ Moves(b, {"PAYING"}, "CONFIRMED")           \* captured and assigned
    \/ Moves(b, {"CONFIRMED"}, "COMPLETED")        \* job confirmed
    \/ Moves(b, Pending \ {"PAYING"}, "CANCELLED")

CreateReview(b) ==
    /\ account = "ACTIVE"
    /\ stage[b] = "COMPLETED" /\ b \notin reviewed
    /\ reviewed' = reviewed \union {b}
    /\ UNCHANGED <<account, listed, address, stage, priced, req>>
-----------------------------------------------------------------------------
(* The property *)

HasPending  == \E b \in Bookings : stage[b] \in Pending
HasInFlight == \E b \in Bookings : stage[b] \in {"CONFIRMED", "OFFERED"}

\* update_property reads the row.  A label, a type or a return to the list needs no
\* look at the bookings ...
UpdateProperty(w) ==
    /\ Begins(w)
    /\ \E keep \in {listed, TRUE} : Goto(w, [at |-> "saving", listed |-> keep])
    /\ UNCHANGED lifeVars

\* ... one that is to be removed, by it or by deactivate_property, must have none
\* open when they are looked up
RemoveProperty(w) ==
    /\ Begins(w)
    /\ Goto(w, [Idle EXCEPT !.at = "removing"])
    /\ UNCHANGED lifeVars

PropertyChecked(w) ==
    /\ At(w, "removing")
    /\ ~HasPending /\ ~HasInFlight
    /\ Goto(w, [Idle EXCEPT !.at = "saving"])
    /\ UNCHANGED lifeVars

\* Every column of the copy is saved
PropertySaved(w) ==
    /\ At(w, "saving")
    /\ listed' = req[w].listed
    /\ Goto(w, Idle)
    /\ UNCHANGED <<account, address, stage, priced, reviewed>>

\* update_address: within one state, as far as bookings without a live offer go
UpdateAddress(w) ==
    /\ Begins(w)
    /\ ~HasInFlight
    /\ Goto(w, [Idle EXCEPT !.at = "moving"])
    /\ UNCHANGED lifeVars

AddressSaved(w) ==
    /\ At(w, "moving") /\ address < MaxAddress
    /\ address' = address + 1
    /\ Goto(w, Idle)
    /\ UNCHANGED <<account, listed, stage, priced, reviewed>>
-----------------------------------------------------------------------------
(* The account *)

\* deletion_blockers, as far as they are the customer's
Blocked == \E b \in Bookings : stage[b] \in {"CONFIRMED", "PAYING"}

DeleteAccount(w) ==
    /\ Begins(w) /\ ~AccountLocked
    /\ ~Blocked
    /\ Goto(w, [Idle EXCEPT !.at = "deleting"])
    /\ UNCHANGED lifeVars

BadClosed(b) == stage[b]                        \* bookings are left as they are
Closed(b)    == IF stage[b] \in Pending THEN "CANCELLED" ELSE stage[b]

\* cancel_booking locks each pending booking and looks at its payment again;
\* one refusal undoes the whole deletion
AccountDeleted(w) ==
    /\ At(w, "deleting")
    /\ \A b \in Bookings : stage[b] # "PAYING"
    /\ stage' = [b \in Bookings |-> Closed(b)]
    /\ priced' = [b \in Bookings |-> IF Closed(b) = "CANCELLED" THEN 0 ELSE priced[b]]
    /\ account' = "DELETED" /\ listed' = FALSE
    /\ Goto(w, Idle)
    /\ UNCHANGED <<address, reviewed>>

\* A request is refused at its second look, or its process dies
RequestEnds(w) ==
    /\ ~At(w, "idle")
    /\ Goto(w, Idle)
    /\ UNCHANGED lifeVars
-----------------------------------------------------------------------------
CustomerStep(w) ==
    \/ CreateBooking(w) \/ BookingSaved(w)
    \/ UpdateProperty(w) \/ RemoveProperty(w) \/ PropertyChecked(w) \/ PropertySaved(w)
    \/ UpdateAddress(w) \/ AddressSaved(w)
    \/ DeleteAccount(w) \/ AccountDeleted(w)
    \/ RequestEnds(w)

CustomersNext ==
    \/ \E w \in Workers : CustomerStep(w)
    \/ \E b \in Bookings : Advances(b) \/ CreateReview(b)

CustomersSpec == CustomersInit /\ [][CustomersNext]_customerVars
-----------------------------------------------------------------------------
(* Properties *)

\* Deletion closes the customer's open bookings.  What may still be pending
\* afterwards are bookings whose requests had passed their checks before: one
\* for each worker but the one that deleted (account_deletion.py).
DeletionClosesWork ==
    account = "DELETED" =>
        Cardinality({b \in Bookings : stage[b] \in Pending}) < Cardinality(Workers)

\* A contractor who is bound to a booking was priced for the way to the address
\* the property has (has_in_flight_bookings: "CONFIRMED ... or PENDING with a
\* live offer" is bound to the present address).
AddressIsFrozen ==
    \A b \in Bookings : stage[b] = "CONFIRMED" => priced[b] = address
=============================================================================
