------------------------------- MODULE Access -------------------------------
(***************************************************************************)
(* Who sees what of a visit, and who may act on it: the permission checks   *)
(* of the services and the fields the API puts into its answers.            *)
(*                                                                         *)
(* A user is a record of an id, a role and the flag is_contractor.  A visit *)
(* is a booking with what belongs to it: its customer, the users its offers *)
(* were addressed to, the contractor assigned, the job, the payment, the    *)
(* payout's payee, and whether a position was reported.  An answer is the   *)
(* set of the fields in it that are not null, of those that matter here.    *)
(***************************************************************************)
CONSTANT Nobody

ConfirmedRole == {"CUSTOMER", "CONTRACTOR", "ADMIN"}

Fields == {"price", "contractor", "suburb", "street", "coordinates",
           "access_notes", "home_details", "earnings", "position", "photos",
           "storage_key", "provider_reference", "payout"}

-----------------------------------------------------------------------------
(* The roles: an administrator is nothing else, whatever the flag says      *)

HasAdminAccess(user)    == user.role = "ADMIN"
HasCustomerAccess(user) == user.role = "CUSTOMER"
HasContractorAccess(user) ==
    /\ ~HasAdminAccess(user)
    /\ user.role = "CONTRACTOR" \/ user.is_contractor

ActiveRoles(user) ==
    {r \in ConfirmedRole : \/ r = "ADMIN"      /\ HasAdminAccess(user)
                           \/ r = "CUSTOMER"   /\ HasCustomerAccess(user)
                           \/ r = "CONTRACTOR" /\ HasContractorAccess(user)}

Owns(user, visit)       == visit.customer = user.id
IsAssigned(user, visit) == visit.assigned = user.id

-----------------------------------------------------------------------------
(* The checks                                                               *)

\* Reading a booking takes the customer's role and the customer
MayReadBooking(user, visit) == HasCustomerAccess(user) /\ Owns(user, visit)
MayReadProperty(user, visit) == HasCustomerAccess(user) /\ Owns(user, visit)

\* An offer is read by whom it was addressed to, open or closed; it is never
\* answered by the customer of the booking
MayReadOffer(user, visit)   == HasContractorAccess(user) /\ user.id \in visit.offered
MayAnswerOffer(user, visit) == MayReadOffer(user, visit) /\ ~Owns(user, visit)

\* Looking at a job takes no role: being the contractor assigned is enough
MayViewJob(user, visit) ==
    /\ visit.job # "none"
    /\ HasAdminAccess(user) \/ Owns(user, visit) \/ IsAssigned(user, visit)

\* Photos, positions and the steps of the job are the contractor's alone
MayWorkOnJob(user, visit) ==
    visit.job # "none" /\ HasContractorAccess(user) /\ IsAssigned(user, visit)

AcceptsPhotos(visit)        == visit.job = "IN_PROGRESS"
IsTrackingWindowOpen(visit) == visit.job = "ASSIGNED"

MayReportLocation(user, visit) == MayWorkOnJob(user, visit) /\ IsTrackingWindowOpen(visit)

\* The customer sees the payment and not the payout, the payee the reverse
MayViewPayment(user, visit) == visit.paying /\ (HasAdminAccess(user) \/ Owns(user, visit))
MayViewPayout(user, visit) ==
    visit.payee # Nobody /\ (HasAdminAccess(user) \/ visit.payee = user.id)

\* A request for support may name a booking of either of its two sides
IsRelatedTo(user, visit) == Owns(user, visit) \/ IsAssigned(user, visit)

-----------------------------------------------------------------------------
(* The answers                                                              *)

IfSo(condition, fields) == IF condition THEN fields ELSE {}

BookingShows(visit) ==
    {"access_notes", "home_details"}
        \cup IfSo(visit.status = "CONFIRMED",
                  {"price"} \cup IfSo(visit.assigned # Nobody, {"contractor"}))

PropertyShows == {"street", "suburb", "coordinates"}

\* Enough to decide on: where it is and what is earned, not the door
OfferShows == {"suburb", "home_details", "price", "earnings"}

JobShows(user, visit) ==
    {"home_details", "photos"} \cup IfSo(HasAdminAccess(user), {"storage_key"})
                               \cup IfSo(IsAssigned(user, visit), {"access_notes"})

ContractorJobShows(visit) ==
    {"home_details", "photos", "access_notes", "street", "suburb", "earnings"}
        \cup IfSo(visit.payee # Nobody, {"payout"})

\* The last position stays stored when the window closes, and is not shown
TrackingShows(visit) ==
    {"coordinates"} \cup IfSo(IsTrackingWindowOpen(visit) /\ visit.reported, {"position"})

PaymentShows(user) == {"price"} \cup IfSo(HasAdminAccess(user), {"provider_reference"})
PayoutShows(user)  == {"payout", "earnings"} \cup IfSo(HasAdminAccess(user), {"provider_reference"})

\* The back office shows a booking with all that belongs to it; of the job no
\* position
BackOfficeShows(visit) ==
    {"street", "suburb", "coordinates", "access_notes", "home_details"}
        \cup IfSo(visit.offered # {}, {"price", "earnings"})
        \cup IfSo(visit.assigned # Nobody, {"contractor"})
        \cup IfSo(visit.paying, {"price", "provider_reference"})
        \cup IfSo(visit.payee # Nobody, {"payout", "provider_reference"})
        \cup IfSo(visit.job # "none", {"photos", "storage_key"})

\* What a user learns of a visit from all of them
Shown(user, visit) ==
    UNION { IfSo(MayReadBooking(user, visit),  BookingShows(visit)),
            IfSo(MayReadProperty(user, visit), PropertyShows),
            IfSo(MayReadOffer(user, visit),    OfferShows),
            IfSo(MayViewJob(user, visit),      JobShows(user, visit)),
            IfSo(MayWorkOnJob(user, visit),    ContractorJobShows(visit)),
            IfSo(MayViewJob(user, visit),      TrackingShows(visit)),
            IfSo(MayViewPayment(user, visit),  PaymentShows(user)),
            IfSo(MayViewPayout(user, visit),   PayoutShows(user)),
            IfSo(HasAdminAccess(user),         BackOfficeShows(visit)) }

-----------------------------------------------------------------------------
(* What they are meant to be                                                *)

\* Whoever may act may look, and every role of the account is a way in
ActingNeedsLooking(user, visit) ==
    /\ MayWorkOnJob(user, visit) => MayViewJob(user, visit) /\ IsRelatedTo(user, visit)
    /\ HasAdminAccess(user) => ActiveRoles(user) = {"ADMIN"}

\* Before the acceptance a contractor learns neither the address nor how to get
\* in, by any route; after it, the one assigned alone
DoorIsForTheAssigned(user, visit) ==
    Shown(user, visit) \cap {"street", "coordinates", "access_notes"} # {} =>
        HasAdminAccess(user) \/ IsRelatedTo(user, visit)

\* Where the contractor is, is seen on the way and never while photos are taken
NotWatchedInside(user, visit) ==
    "position" \in Shown(user, visit) => ~AcceptsPhotos(visit) /\ visit.job # "COMPLETED"

\* The customer learns nothing of what the contractor is paid, the contractor
\* nothing of what the customer's provider answered
BooksAreSeparate(user, visit) ==
    ~HasAdminAccess(user) =>
        /\ Owns(user, visit) => "payout" \notin Shown(user, visit)
        /\ IsAssigned(user, visit) => ~MayViewPayment(user, visit)
        /\ Shown(user, visit) \cap {"provider_reference", "storage_key"} = {}

\* Not so.  The price is hidden until the booking is CONFIRMED (_serialize of
\* bookings.py), yet the payment shows it as soon as there is one
PriceIsHeldBack(user, visit) ==
    Owns(user, visit) /\ visit.status # "CONFIRMED" => "price" \notin Shown(user, visit)

\* Not so.  Whoever is assigned keeps seeing how to get in (is_assigned_contractor
\* asks for no role), though they may no longer work
NotesAreForWorking(user, visit) ==
    "access_notes" \in Shown(user, visit) /\ ~Owns(user, visit) /\ ~HasAdminAccess(user)
        => MayWorkOnJob(user, visit)
=============================================================================
