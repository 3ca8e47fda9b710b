----------------------------- MODULE Selections -----------------------------
(***************************************************************************)
(* What a customer selects, how a selection is refused, and what it costs: *)
(* computed by three parts of the program, once for the quote              *)
(* (_freeze_selections of quotes.py), once for the booking                 *)
(* (_resolve_selections of bookings.py and _frozen_services_total of       *)
(* dispatch.py) and once as an estimate (services/pricing.py).             *)
(*                                                                         *)
(* A selection is a sequence of entries, the catalogue a function from the *)
(* services there are; amounts are those of module Pricing.                *)
(***************************************************************************)
EXTENDS Pricing, Integers, Sequences, SequencesExt

Services(catalogue) == DOMAIN catalogue

LineTotal(entry, catalogue) ==
    LET service == catalogue[entry.service] IN
    service.room_price * entry.room_count + service.base_price

Missing(entry, catalogue) == entry.service \notin Services(catalogue)

\* _resolve_selections of a booking: one that follows a quote takes what is
\* inactive since, a quote and a booking without one refuse it
Unavailable(entry, catalogue, allow_inactive) ==
    \/ Missing(entry, catalogue)
    \/ ~catalogue[entry.service].is_active /\ ~allow_inactive

\* Counts first, of every entry, then the services, in their order
Refusal(entries, catalogue, allow_inactive) ==
    LET badCount(e)   == e.room_count < 0
        badService(e) == Unavailable(e, catalogue, allow_inactive)
        at == SelectInSeq(entries, badService)
    IN  CASE entries = <<>>                         -> "empty_service_selection"
          [] SelectInSeq(entries, badCount) # 0     -> "invalid_room_count"
          [] SelectInSeq(entries, badCount) = 0 /\ at # 0 ->
                 IF Missing(entries[at], catalogue) THEN "service_not_found" ELSE "inactive_service"
          [] OTHER -> "none"

\* _freeze_selections: what the quote keeps of each service, and the sum
FreezeSelections(entries, catalogue) ==
    [snapshot |-> [i \in DOMAIN entries |->
        LET service == catalogue[entries[i].service] IN
        [service     |-> entries[i].service,      room_count |-> entries[i].room_count,
         room_price  |-> service.room_price,      base_price |-> service.base_price]],
     services_total |-> FoldLeft(LAMBDA sum, e : sum + LineTotal(e, catalogue), 0, entries)]

\* create_booking with a quote selects what the snapshot names
SelectedAgain(snapshot) ==
    [i \in DOMAIN snapshot |-> [service    |-> snapshot[i].service,
                                room_count |-> snapshot[i].room_count]]

\* _frozen_services_total without a quote: the prices of the moment
LiveServicesTotal(entries, catalogue) ==
    FoldLeft(LAMBDA sum, e : sum + LineTotal(e, catalogue), 0, entries)

\* calculate_price: every kilometre counts, nothing is free and nothing capped;
\* the sum is rounded to the cent
CalculatePrice(entries, catalogue, distance, price_per_km) ==
    ApplyRounding(LiveServicesTotal(entries, catalogue) + distance * price_per_km,
                  [rounding_rule |-> "NEAREST_CENT"])

\* build_invoice: the services, from the snapshot of the quote or, without one,
\* from the catalogue of the moment; the travel fee of the offer accepted; and
\* what they differ by from the payment, as a line of its own
InvoiceServices(entries, catalogue) ==
    [i \in DOMAIN entries |-> LineTotal(entries[i], catalogue)]

RoundingLine(amounts, travel_fee, paid) == paid - travel_fee - FoldLeft(+, 0, amounts)

BuildInvoice(amounts, travel_fee, paid) ==
    amounts \o SelectSeq(<<travel_fee, RoundingLine(amounts, travel_fee, paid)>>,
                         LAMBDA line : line # 0)
-----------------------------------------------------------------------------
(* What they are meant to be *)

\* The order of the entries costs nothing, and a service selected twice is paid
\* twice: the total adds up, split anywhere
AddsUp(left, right, catalogue) ==
    LiveServicesTotal(left \o right, catalogue) =
        LiveServicesTotal(right, catalogue) + LiveServicesTotal(left, catalogue)

\* A quote that was made can be booked, though services were deactivated and
\* repriced since; and what it froze is what the snapshot adds up to
QuoteCanBeBooked(entries, then, now) ==
    Refusal(entries, then, FALSE) = "none" =>
        LET frozen == FreezeSelections(entries, then)
            again  == SelectedAgain(frozen.snapshot)
            line(e) == e.room_price * e.room_count + e.base_price
        IN  /\ Refusal(again, now, TRUE) = "none"
            /\ frozen.services_total = FoldLeft(LAMBDA sum, e : sum + line(e), 0, frozen.snapshot)

\* Without a free distance, and with a cap out of reach, the estimate is the
\* price a contractor will be offered for, when that is rounded to the cent
EstimateIsPrice(entries, catalogue, distance, price_per_km) ==
    LET config == [price_per_km |-> price_per_km, included_distance_km |-> 0,
                   maximum_travel_fee |-> distance * price_per_km,
                   rounding_rule |-> "NEAREST_CENT"]
        total  == LiveServicesTotal(entries, catalogue)
    IN  /\ CalculatePrice(entries, catalogue, distance, price_per_km)
               = CalculateFinalTotal(total, distance, config)
        /\ CalculatePrice(entries, catalogue, distance, price_per_km)
               = CalculateMaximumTotal(total, config)

\* The invoice of a visit priced by `then' and read when the catalogue is `now'
\* adds up to what was paid, and what it calls rounding is no more than that
RoundingIsRounding(entries, then, now, distance, config) ==
    LET fee      == CalculateTravelFee(distance, config)
        paid     == CalculateFinalTotal(LiveServicesTotal(entries, then), distance, config)
        amounts  == InvoiceServices(entries, now)
        rounding == RoundingLine(amounts, fee, paid)
        step     == RoundingStep(config.rounding_rule)
    IN  /\ FoldLeft(+, 0, BuildInvoice(amounts, fee, paid)) = paid
        /\ -step <= 2 * rounding /\ 2 * rounding <= step
=============================================================================
