-------------------------------- MODULE Quotes --------------------------------
(***************************************************************************)
(* A customer's quotes, the bookings made from them and the prices offered *)
(* for those (apps/bookings: services/quotes.py, create_booking in         *)
(* api/bookings.py and services/bookings.py, the pricing half of           *)
(* assign_next_contractor; apps/services: travel_pricing.py, catalog.py).  *)
(*                                                                         *)
(* A quote freezes what the services cost and the most the visit may cost. *)
(* The administrator goes on changing the rules and the catalogue, and     *)
(* every offer is priced by the rules of its own moment.  A request that   *)
(* books looks at its quote first and books in a later transaction.        *)
(***************************************************************************)
EXTENDS Pricing

CONSTANTS
  QuoteIds,    \* the customer's quotes
  Requests,    \* POST /bookings requests, each makes one booking at most
  NoQuote,     \* a booking made without one
  Configs,     \* pricing rules the administrator chooses from
  Totals,      \* what the selected services may cost by the catalogue
  Distances    \* how far a contractor may be

ASSUME QuotesAssumption  == NoQuote \notin QuoteIds
ASSUME ConfigsAssumption == Configs \subseteq PricingConfig
ASSUME TotalsAssumption  == Totals \subseteq Nat /\ Distances \subseteq Nat

VARIABLES
  config,      \* the PricingConfig row
  catalogue,   \* what the selected services cost just now
  made,        \* quotes created so far
  expired,     \* quotes whose expires_at has passed
  services,    \* BookingQuote.services_total
  maximum,     \* BookingQuote.maximum_total
  rules,       \* the rules a quote was made by (its pricing_version names them)
  request,     \* how far each request is
  using,       \* the quote of a request, which becomes Booking.quote
  ceiling,     \* Booking.max_total
  search,      \* what the booking's last dispatch attempt came to
  total        \* total_amount of the booking's last offer

quoteVars   == <<made, services, maximum, rules>>
bookingVars == <<request, using, ceiling, search, total>>
vars        == <<config, catalogue, expired, quoteVars, bookingVars>>

QuotesTypeOK ==
  /\ config \in Configs
  /\ catalogue \in Totals
  /\ made \in SUBSET QuoteIds /\ expired \in SUBSET made
  /\ services \in [QuoteIds -> Totals]
  /\ maximum \in [QuoteIds -> Nat]
  /\ rules \in [QuoteIds -> Configs]
  /\ request \in [Requests -> {"idle", "checked", "booked"}]
  /\ using \in [Requests -> made \union {NoQuote}]
  /\ ceiling \in [Requests -> Nat]
  /\ search \in [Requests -> {"none", "offered", "refused"}]
  /\ total \in [Requests -> Nat]

Quoted(r) == request[r] = "booked" /\ using[r] # NoQuote
UsedBy(q) == {r \in Requests : request[r] = "booked" /\ using[r] = q}

(* The conditions that the handlers depend on most, some after a slip in   *)
(* it, "Bad...", that some property must catch.                            *)

(* get_usable_quote finds it usable.                                       *)
Usable(q) == q \in made \ expired /\ UsedBy(q) = {}

(* create_booking freezes max_total.                                       *)
BadMaxTotal(q) ==                                              \* by the rules of today
  CalculateMaximumTotal(services[q], config)
MaxTotal(q)    == maximum[q]

(* _frozen_services_total.                                                 *)
FrozenServicesTotal(r)    == IF using[r] # NoQuote THEN services[using[r]] ELSE catalogue

QuotesInit ==
  /\ config \in Configs
  /\ catalogue \in Totals
  /\ made = {} /\ expired = {}
  /\ services = [q \in QuoteIds |-> catalogue]
  /\ maximum = [q \in QuoteIds |-> 0]
  /\ rules = [q \in QuoteIds |-> config]
  /\ request = [r \in Requests |-> "idle"]
  /\ using = [r \in Requests |-> NoQuote]
  /\ ceiling = [r \in Requests |-> 0]
  /\ search = [r \in Requests |-> "none"]
  /\ total = [r \in Requests |-> 0]

----------------------------------------------------------------------------
(* update_pricing_config, and the catalogue's own updates.                 *)
UpdatePricingConfig(c) ==
  /\ config' = c
  /\ UNCHANGED <<catalogue, expired, quoteVars, bookingVars>>

UpdateCatalogue(t) ==
  /\ catalogue' = t
  /\ UNCHANGED <<config, expired, quoteVars, bookingVars>>

CreateQuote(q) ==
  /\ q \notin made
  /\ made' = made \union {q}
  /\ services' = [services EXCEPT ![q] = catalogue]
  /\ maximum' = [maximum EXCEPT ![q] = CalculateMaximumTotal(catalogue, config)]
  /\ rules' = [rules EXCEPT ![q] = config]
  /\ UNCHANGED <<config, catalogue, expired, bookingVars>>

(* QUOTE_TTL_MINUTES pass.                                                 *)
QuoteExpires(q) ==
  /\ q \in made \ expired
  /\ expired' = expired \union {q}
  /\ UNCHANGED <<config, catalogue, quoteVars, bookingVars>>

(* The handler of POST /bookings: get_usable_quote reads the quote ...     *)
GetUsableQuote(r, q) ==
  /\ request[r] = "idle"
  /\ Usable(q)
  /\ request' = [request EXCEPT ![r] = "checked"]
  /\ using' = [using EXCEPT ![r] = q]
  /\ UNCHANGED <<config, catalogue, expired, quoteVars, ceiling, search, total>>

(* ... and create_booking, in a transaction of its own, does not again.    *)
CreateBooking(r) ==
  /\ request[r] = "checked"
  /\ request' = [request EXCEPT ![r] = "booked"]
  /\ ceiling' = [ceiling EXCEPT ![r] = MaxTotal(using[r])]
  /\ UNCHANGED <<config, catalogue, expired, quoteVars, using, search, total>>

(* A body without quote_id: no ceiling, prices from the catalogue.         *)
CreateBookingWithoutQuote(r) ==
  /\ request[r] = "idle"
  /\ request' = [request EXCEPT ![r] = "booked"]
  /\ UNCHANGED <<config, catalogue, expired, quoteVars, using, ceiling, search, total>>

(* assign_next_contractor prices an offer to a contractor so far away; an  *)
(* earlier offer has ended.                                                *)
PriceOffer(r, distance) ==
  LET price == CalculateFinalTotal(FrozenServicesTotal(r), distance, config)
  IN  /\ request[r] = "booked"
      /\ \/ /\ Quoted(r) /\ price > ceiling[r]
            /\ search' = [search EXCEPT ![r] = "refused"]
            /\ UNCHANGED total
         \/ /\ Quoted(r) => price <= ceiling[r]
            /\ search' = [search EXCEPT ![r] = "offered"]
            /\ total' = [total EXCEPT ![r] = price]
      /\ UNCHANGED <<config, catalogue, expired, quoteVars, request, using, ceiling>>

AdminStep ==
  \/ \E c \in Configs : UpdatePricingConfig(c)
  \/ \E t \in Totals : UpdateCatalogue(t)

QuotesNext ==
  \/ AdminStep
  \/ \E q \in QuoteIds : CreateQuote(q) \/ QuoteExpires(q)
  \/ \E r \in Requests :
       \/ \E q \in QuoteIds : GetUsableQuote(r, q)
       \/ CreateBooking(r)
       \/ CreateBookingWithoutQuote(r)
       \/ \E d \in Distances : PriceOffer(r, d)

QuotesSpec == QuotesInit /\ [][QuotesNext]_vars

----------------------------------------------------------------------------
(***************************************************************************)
(* Safety                                                                  *)
(***************************************************************************)

(* While the rules a quote was made by are in force, no contractor is too  *)
(* far for its booking: fee cap and rounding never lift a total above the  *)
(* ceiling, whatever became of the catalogue (calculate_maximum_total).    *)
CeilingCoversQuotedRules ==
  \A r \in Requests :
    Quoted(r) /\ config = rules[using[r]] =>
      \A d \in Distances :
        CalculateFinalTotal(FrozenServicesTotal(r), d, config) <= ceiling[r]

(* Nobody is offered a price, which is what the customer will be charged,  *)
(* above the maximum that the customer saw on the quote, though rules and  *)
(* catalogue changed between the quote, the booking and the offer.         *)
NeverAboveApproved ==
  \A r \in Requests :
    Quoted(r) /\ search[r] = "offered" => total[r] <= maximum[using[r]]

(* "Mathematically guaranteed never to be exceeded": the ceiling guard     *)
(* never has to turn an offer away (calculate_maximum_total's docstring).  *)
CeilingNeverRefuses == \A r \in Requests : search[r] # "refused"

(* A quote is used for one booking (BookingQuote's docstring).             *)
QuoteUsedOnce ==
  \A q \in QuoteIds : \A r, s \in UsedBy(q) : r = s
=============================================================================
