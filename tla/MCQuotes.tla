------------------------------- MODULE MCQuotes -------------------------------
(* Small instances of Quotes for TLC.  The cap of one set of rules is half a *)
(* dollar off the dollar it rounds to, the other's leaves odd cents; the     *)
(* distances are free, priced by the metre, and far beyond either cap.       *)
EXTENDS Quotes, Scheduling, Selections, Access

MCConfigs ==
  { [price_per_km |-> 150, included_distance_km |-> 2000,
     maximum_travel_fee |-> 1450 * Cent, rounding_rule |-> "NEAREST_DOLLAR"],
    [price_per_km |-> 199, included_distance_km |-> 0,
     maximum_travel_fee |-> 2003 * Cent, rounding_rule |-> "NEAREST_5C"] }

MCTotals == {10000 * Cent, 12345 * Cent}

MCDistances == {1500, 7777, 60000}

(* Bookings are made while the service is open (Scheduling): every window of *)
(* a small clock, at every moment of three days                              *)
Clock == [day : 0 .. 2, time : Times]
OnTheMinute == {w \in Windows : ToMinute(w.start) = w.start}

ASSUME WindowsAreArcs == \A w \in Windows, t \in Times : IsArc(t, w)

ASSUME HoursAreShown ==
  \A w \in OnTheMinute, now \in Clock :
    OpensAsShown(now, w) /\ \A m \in Clock : ClosedUntilShown(now, m, w)

(* An opening with seconds is shown without them, and refused at that moment *)
ASSUME SecondsAreLost ==
  \E w \in Windows \ OnTheMinute, now \in Clock : ~OpensAsShown(now, w)

(* What is quoted, and from which catalogue (Selections): a third service is *)
(* not there, and no room count is below one less than none                  *)
Entries == [service : {"standard", "windows", "gone"}, room_count : -1 .. 2]
Selected == UNION {[1 .. n -> Entries] : n \in 0 .. 2}
Catalogue(on) ==
  [standard |-> [room_price |-> 4005 * Cent, base_price |-> 2000 * Cent, is_active |-> TRUE],
   windows  |-> [room_price |-> 0, base_price |-> 1999 * Cent, is_active |-> on]]
Known == {s \in Selected : Refusal(s, Catalogue(TRUE), FALSE) = "none"}

ASSUME TotalsAddUp == \A l, r \in Known : AddsUp(l, r, Catalogue(TRUE))

ASSUME QuotesCanBeBooked ==
  \A s \in Selected, then, now \in BOOLEAN :
    QuoteCanBeBooked(s, Catalogue(then), Catalogue(now))

ASSUME EstimatesArePrices ==
  \A s \in Known, d \in MCDistances, p \in {0, 150, 199} :
    EstimateIsPrice(s, Catalogue(TRUE), d, p)

Dearer == [Catalogue(TRUE) EXCEPT !.standard.base_price = @ + 100 * Cent]

(* What a quote froze is invoiced as it was paid for; without a quote a later *)
(* price, of the catalogue when the invoice is read, is shown as "Rounding"   *)
ASSUME QuotedInvoicesRound ==
  \A s \in Known, d \in MCDistances, c \in MCConfigs :
    RoundingIsRounding(s, Catalogue(TRUE), Catalogue(TRUE), d, c)

ASSUME LiveInvoicesDrift ==
  \E s \in Known, d \in MCDistances, c \in MCConfigs :
    ~RoundingIsRounding(s, Catalogue(TRUE), Dearer, d, c)

ASSUME RefusedForAReason ==
  /\ \A s \in Selected : Refusal(s, Catalogue(FALSE), FALSE) = "inactive_service" =>
       "windows" \in {s[i].service : i \in DOMAIN s}
  /\ Known # {} /\ \E s \in Known : Len(s) = 2

(* Who sees what of a visit (Access): every user of two beside every visit   *)
(* that can be.  Nobody is offered or assigned their own booking; a job and  *)
(* a payment have a contractor who was offered it, a payout a job that is    *)
(* done                                                                      *)
Users == [id : {"kim", "lee"}, role : ConfirmedRole, is_contractor : BOOLEAN]
JobSteps == {"ASSIGNED", "ARRIVED", "IN_PROGRESS", "AWAITING_CUSTOMER_CONFIRMATION", "COMPLETED"}
Visits ==
  {v \in [customer : {"kim", "max"}, offered : SUBSET {"kim", "lee"},
          assigned : {"kim", "lee", Nobody}, payee : {"kim", "lee", Nobody},
          status : {"PENDING", "CONFIRMED", "CANCELLED"}, job : JobSteps \cup {"none"},
          paying : BOOLEAN, reported : BOOLEAN] :
     /\ v.customer \notin v.offered
     /\ v.assigned \in v.offered \cup {Nobody}
     /\ v.assigned # Nobody <=> v.status = "CONFIRMED"
     /\ v.status = "CONFIRMED" => v.paying
     /\ v.paying => v.offered # {}
     /\ v.job # "none" => v.status = "CONFIRMED"
     /\ v.reported => v.job # "none"
     /\ v.payee \in {Nobody, v.assigned} /\ (v.payee # Nobody => v.job = "COMPLETED")}

ASSUME FieldsAreKnown == \A u \in Users, v \in Visits : Shown(u, v) \subseteq Fields

ASSUME VisitsAreGuarded ==
  \A u \in Users, v \in Visits :
    /\ ActingNeedsLooking(u, v) /\ DoorIsForTheAssigned(u, v)
    /\ NotWatchedInside(u, v)   /\ BooksAreSeparate(u, v)

(* Each is about something: every field is shown to somebody who is not an   *)
(* administrator, but the two that are for administrators alone              *)
ASSUME ShownToSomebody ==
  UNION {Shown(u, v) : u \in {w \in Users : ~HasAdminAccess(w)}, v \in Visits}
    = Fields \ {"provider_reference", "storage_key"}

ASSUME NotHeldBack ==
  /\ \E u \in Users, v \in Visits : ~PriceIsHeldBack(u, v)
  /\ \E u \in Users, v \in Visits : ~NotesAreForWorking(u, v)
=============================================================================
