------------------------------- MODULE Pricing -------------------------------
(***************************************************************************)
(* The price of a visit (apps/services/services/travel_pricing.py).  Money *)
(* is counted in thousandths of a cent and distance in metres, so that the *)
(* price of a kilometre, in cents, times a distance is a whole number of   *)
(* them: the code's Decimals are exact, and so are these.                  *)
(***************************************************************************)
EXTENDS Naturals

Cent == 1000

RoundingRule == {"NEAREST_CENT", "NEAREST_5C", "NEAREST_10C", "NEAREST_DOLLAR"}

RoundingStep(rule) ==
  CASE rule = "NEAREST_5C"     -> 5 * Cent
    [] rule = "NEAREST_10C"    -> 10 * Cent
    [] rule = "NEAREST_DOLLAR" -> 100 * Cent
    [] OTHER                   -> Cent

(* PricingConfig, as far as prices go. *)
PricingConfig ==
  [price_per_km: Nat, included_distance_km: Nat, maximum_travel_fee: Nat,
   rounding_rule: RoundingRule]

Least(a, b) == IF a <= b THEN a ELSE b

CalculateTravelFee(distance, config) ==
  LET chargeable == IF distance <= config.included_distance_km THEN 0
                    ELSE distance - config.included_distance_km
  IN  Least(config.maximum_travel_fee, chargeable * config.price_per_km)

(* To the nearest multiple of the step, halves upwards. *)
ApplyRounding(amount, config) ==
  LET step == RoundingStep(config.rounding_rule)
  IN  ((2 * amount + step) \div (2 * step)) * step

CalculateFinalTotal(services, distance, config) ==
  ApplyRounding(services + CalculateTravelFee(distance, config), config)

(* The ceiling, rounded like the totals it must cover.                     *)
BadMaximumTotal(services, config) ==           \* rounded to the cent by every rule
  ApplyRounding(services + config.maximum_travel_fee, [config EXCEPT !.rounding_rule = "NEAREST_CENT"])
CalculateMaximumTotal(services, config) ==
  ApplyRounding(services + config.maximum_travel_fee, config)
=============================================================================
