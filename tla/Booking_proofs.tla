---------------------------- MODULE Booking_proofs ----------------------------
(***************************************************************************)
(* Proofs about what a customer meets before there is a booking: the price *)
(* (Pricing and Quotes), for all amounts, distances and rules and any      *)
(* number of quotes and requests; the opening hours (Scheduling), for all  *)
(* windows and moments; and the questions about the home (Catalog), for    *)
(* any number of administrators who edit them at once.                     *)
(***************************************************************************)
EXTENDS Quotes, Scheduling, Catalog, TLAPS

----------------------------------------------------------------------------
(***************************************************************************)
(* The arithmetic.  The step is one of four numbers; with the step fixed,  *)
(* rounding is linear arithmetic with a division by a number.              *)
(***************************************************************************)

Rounded(a, s) == ((2 * a + s) \div (2 * s)) * s

LEMMA StepIsOneOfFour ==
  ASSUME NEW c \in PricingConfig
  PROVE  RoundingStep(c.rounding_rule) \in {1000, 5000, 10000, 100000}
BY DEF RoundingStep, Cent

(* apply_rounding returns a multiple of the step that is within half a     *)
(* step of the amount, and takes the upper of two that are equally near,   *)
(* which is ROUND_HALF_UP.                                                 *)
THEOREM RoundingIsNearest ==
  ASSUME NEW a \in Nat, NEW c \in PricingConfig
  PROVE  LET s == RoundingStep(c.rounding_rule)
             r == ApplyRounding(a, c)
         IN  /\ r \in Nat
             /\ r % s = 0
             /\ 2 * r <= 2 * a + s
             /\ 2 * a < 2 * r + s
<1> DEFINE s == RoundingStep(c.rounding_rule)
<1>1. s \in {1000, 5000, 10000, 100000}  BY StepIsOneOfFour
<1>2. ApplyRounding(a, c) = Rounded(a, s)  BY DEF ApplyRounding, Rounded
<1> HIDE DEF s
<1>3. /\ Rounded(a, s) \in Nat
      /\ Rounded(a, s) % s = 0
      /\ 2 * Rounded(a, s) <= 2 * a + s
      /\ 2 * a < 2 * Rounded(a, s) + s
  <2>1. CASE s = 1000    BY <2>1 DEF Rounded
  <2>2. CASE s = 5000    BY <2>2 DEF Rounded
  <2>3. CASE s = 10000   BY <2>3 DEF Rounded
  <2>4. CASE s = 100000  BY <2>4 DEF Rounded
  <2> QED BY <1>1, <2>1, <2>2, <2>3, <2>4
<1> QED BY <1>2, <1>3 DEF s

(* Rounding by the same rules keeps the order of two amounts.              *)
LEMMA RoundingIsMonotone ==
  ASSUME NEW a \in Nat, NEW b \in Nat, a <= b, NEW c \in PricingConfig
  PROVE  ApplyRounding(a, c) <= ApplyRounding(b, c)
<1> DEFINE s == RoundingStep(c.rounding_rule)
<1>1. s \in {1000, 5000, 10000, 100000}  BY StepIsOneOfFour
<1>2. /\ ApplyRounding(a, c) = Rounded(a, s)
      /\ ApplyRounding(b, c) = Rounded(b, s)
  BY DEF ApplyRounding, Rounded
<1> HIDE DEF s
<1>3. Rounded(a, s) <= Rounded(b, s)
  <2>1. CASE s = 1000    BY <2>1 DEF Rounded
  <2>2. CASE s = 5000    BY <2>2 DEF Rounded
  <2>3. CASE s = 10000   BY <2>3 DEF Rounded
  <2>4. CASE s = 100000  BY <2>4 DEF Rounded
  <2> QED BY <1>1, <2>1, <2>2, <2>3, <2>4
<1> QED BY <1>2, <1>3

(* calculate_travel_fee never exceeds the cap.                             *)
LEMMA FeeIsCapped ==
  ASSUME NEW d \in Nat, NEW c \in PricingConfig
  PROVE  /\ CalculateTravelFee(d, c) \in Nat
         /\ CalculateTravelFee(d, c) <= c.maximum_travel_fee
<1> DEFINE chargeable == IF d <= c.included_distance_km THEN 0
                         ELSE d - c.included_distance_km
           fee        == chargeable * c.price_per_km
<1>1. /\ c.price_per_km \in Nat /\ c.included_distance_km \in Nat
      /\ c.maximum_travel_fee \in Nat
  BY DEF PricingConfig
<1>2. chargeable \in Nat  BY <1>1
<1> HIDE DEF chargeable
<1>3. fee \in Nat  BY <1>1, <1>2
<1>4. CalculateTravelFee(d, c) = Least(c.maximum_travel_fee, fee)
  BY DEF CalculateTravelFee, chargeable
<1> HIDE DEF fee
<1> QED BY <1>1, <1>3, <1>4 DEF Least

(* What calculate_maximum_total's comment claims, with the one condition   *)
(* it needs: by the same rules, no distance takes the final total above    *)
(* the maximum.                                                            *)
THEOREM TotalWithinMaximum ==
  ASSUME NEW t \in Nat, NEW d \in Nat, NEW c \in PricingConfig
  PROVE  CalculateFinalTotal(t, d, c) <= CalculateMaximumTotal(t, c)
<1>1. c.maximum_travel_fee \in Nat  BY DEF PricingConfig
<1>2. /\ CalculateTravelFee(d, c) \in Nat
      /\ CalculateTravelFee(d, c) <= c.maximum_travel_fee
  BY FeeIsCapped
<1> DEFINE a == t + CalculateTravelFee(d, c)
           b == t + c.maximum_travel_fee
<1>3. a \in Nat /\ b \in Nat /\ a <= b  BY <1>1, <1>2
<1>4. /\ CalculateFinalTotal(t, d, c) = ApplyRounding(a, c)
      /\ CalculateMaximumTotal(t, c) = ApplyRounding(b, c)
  BY DEF CalculateFinalTotal, CalculateMaximumTotal
<1> HIDE DEF a, b
<1> QED BY <1>3, <1>4, RoundingIsMonotone

LEMMA TotalsAreNumbers ==
  ASSUME NEW t \in Nat, NEW d \in Nat, NEW c \in PricingConfig
  PROVE  /\ CalculateFinalTotal(t, d, c) \in Nat
         /\ CalculateMaximumTotal(t, c) \in Nat
<1>1. c.maximum_travel_fee \in Nat  BY DEF PricingConfig
<1>2. CalculateTravelFee(d, c) \in Nat  BY FeeIsCapped
<1>3. /\ t + CalculateTravelFee(d, c) \in Nat
      /\ t + c.maximum_travel_fee \in Nat
  BY <1>1, <1>2
<1> QED BY <1>3, RoundingIsNearest DEF CalculateFinalTotal, CalculateMaximumTotal

----------------------------------------------------------------------------
(***************************************************************************)
(* The inductive invariant: a quote's maximum is the one its own rules     *)
(* give for its own services, a booking's ceiling is its quote's maximum,  *)
(* and an offer, which only a booking has, respects that ceiling.          *)
(***************************************************************************)

QuoteInv ==
  \A q \in made : maximum[q] = CalculateMaximumTotal(services[q], rules[q])

BookingInv ==
  \A r \in Requests :
    /\ request[r] = "idle" => using[r] = NoQuote
    /\ request[r] = "checked" => using[r] # NoQuote
    /\ Quoted(r) => ceiling[r] = maximum[using[r]]

OfferInv ==
  \A r \in Requests :
    /\ request[r] # "booked" => search[r] = "none"
    /\ Quoted(r) /\ search[r] = "offered" => total[r] <= ceiling[r]

QuotesInv == QuotesTypeOK /\ QuoteInv /\ BookingInv /\ OfferInv

LEMMA QuotesInitially == QuotesInit => QuotesInv
<1> SUFFICES ASSUME QuotesInit PROVE QuotesInv
  OBVIOUS
<1>1. QuotesTypeOK  BY DEF QuotesInit, QuotesTypeOK
<1>2. QuoteInv /\ BookingInv /\ OfferInv
  BY DEF QuotesInit, QuoteInv, BookingInv, OfferInv, Quoted
<1> QED BY <1>1, <1>2 DEF QuotesInv

LEMMA TypesHaveConfigs ==
  ASSUME QuotesTypeOK
  PROVE  /\ config \in PricingConfig
         /\ \A q \in QuoteIds : rules[q] \in PricingConfig /\ services[q] \in Nat
         /\ catalogue \in Nat
BY ConfigsAssumption, TotalsAssumption DEF QuotesTypeOK

LEMMA FrozenIsNumber ==
  ASSUME QuotesTypeOK, NEW r \in Requests
  PROVE  FrozenServicesTotal(r) \in Nat
<1>1. using[r] # NoQuote => using[r] \in QuoteIds  BY DEF QuotesTypeOK
<1> QED BY <1>1, TypesHaveConfigs DEF FrozenServicesTotal

LEMMA QuotesStep == QuotesInv /\ [QuotesNext]_vars => QuotesInv'
<1> SUFFICES ASSUME QuotesInv, [QuotesNext]_vars PROVE QuotesInv'
  OBVIOUS
<1> USE DEF QuotesInv
<1>1. ASSUME NEW c \in Configs, UpdatePricingConfig(c) PROVE QuotesInv'
  BY <1>1 DEF UpdatePricingConfig, QuotesTypeOK, QuoteInv, BookingInv, OfferInv,
              Quoted, quoteVars, bookingVars
<1>2. ASSUME NEW t \in Totals, UpdateCatalogue(t) PROVE QuotesInv'
  BY <1>2 DEF UpdateCatalogue, QuotesTypeOK, QuoteInv, BookingInv, OfferInv,
              Quoted, quoteVars, bookingVars
<1>3. ASSUME NEW q \in QuoteIds, CreateQuote(q) PROVE QuotesInv'
  <2>1. CalculateMaximumTotal(catalogue, config) \in Nat
    BY TypesHaveConfigs, TotalsAreNumbers
  <2>2. QuotesTypeOK'
    BY <1>3, <2>1 DEF CreateQuote, QuotesTypeOK, bookingVars
  <2>3. QuoteInv'
    BY <1>3 DEF CreateQuote, QuotesTypeOK, QuoteInv
  <2>4. BookingInv' /\ OfferInv'
    BY <1>3 DEF CreateQuote, QuotesTypeOK, BookingInv, OfferInv, Quoted, bookingVars
  <2> QED BY <2>2, <2>3, <2>4
<1>4. ASSUME NEW q \in QuoteIds, QuoteExpires(q) PROVE QuotesInv'
  BY <1>4 DEF QuoteExpires, QuotesTypeOK, QuoteInv, BookingInv, OfferInv,
              Quoted, quoteVars, bookingVars
<1>5. ASSUME NEW r \in Requests, NEW q \in QuoteIds, GetUsableQuote(r, q)
      PROVE  QuotesInv'
  <2>1. QuotesTypeOK' /\ QuoteInv'
    BY <1>5 DEF GetUsableQuote, Usable, QuotesTypeOK, QuoteInv, quoteVars
  <2>2. BookingInv' /\ OfferInv'
    BY <1>5, QuotesAssumption
       DEF GetUsableQuote, QuotesTypeOK, BookingInv, OfferInv, Quoted, quoteVars
  <2> QED BY <2>1, <2>2
<1>6. ASSUME NEW r \in Requests, CreateBooking(r) PROVE QuotesInv'
  <2>1. using[r] \in QuoteIds
    BY <1>6 DEF CreateBooking, QuotesTypeOK, BookingInv
  <2>2. QuotesTypeOK' /\ QuoteInv'
    BY <1>6, <2>1 DEF CreateBooking, MaxTotal, QuotesTypeOK, QuoteInv, quoteVars
  <2>3. BookingInv'
    BY <1>6 DEF CreateBooking, MaxTotal, QuotesTypeOK, BookingInv, Quoted, quoteVars
  <2>4. OfferInv'
    BY <1>6 DEF CreateBooking, QuotesTypeOK, OfferInv, Quoted, quoteVars
  <2> QED BY <2>2, <2>3, <2>4
<1>7. ASSUME NEW r \in Requests, CreateBookingWithoutQuote(r) PROVE QuotesInv'
  BY <1>7 DEF CreateBookingWithoutQuote, QuotesTypeOK, QuoteInv, BookingInv,
              OfferInv, Quoted, quoteVars
<1>8. ASSUME NEW r \in Requests, NEW d \in Distances, PriceOffer(r, d)
      PROVE  QuotesInv'
  <2> DEFINE price == CalculateFinalTotal(FrozenServicesTotal(r), d, config)
  <2>1. price \in Nat
    BY TypesHaveConfigs, FrozenIsNumber, TotalsAreNumbers, TotalsAssumption
  <2> HIDE DEF price
  <2>2. PICK b \in {"offered", "refused"} :
          /\ search' = [search EXCEPT ![r] = b]
          /\ total' = IF b = "offered" THEN [total EXCEPT ![r] = price] ELSE total
          /\ b = "offered" => (Quoted(r) => price <= ceiling[r])
    BY <1>8 DEF PriceOffer, price
  <2>3. /\ request[r] = "booked"
        /\ UNCHANGED <<config, catalogue, expired, quoteVars, request, using, ceiling>>
    BY <1>8 DEF PriceOffer
  <2>4. QuotesTypeOK'
    BY <2>1, <2>2, <2>3 DEF QuotesTypeOK, quoteVars
  <2>5. QuoteInv' /\ BookingInv'
    BY <2>3 DEF QuoteInv, BookingInv, Quoted, quoteVars
  <2>6. OfferInv'
    BY <2>1, <2>2, <2>3 DEF QuotesTypeOK, OfferInv, Quoted, quoteVars
  <2> QED BY <2>4, <2>5, <2>6
<1>9. CASE UNCHANGED vars
  BY <1>9 DEF vars, QuotesTypeOK, QuoteInv, BookingInv, OfferInv, Quoted,
              quoteVars, bookingVars
<1> QED BY <1>1, <1>2, <1>3, <1>4, <1>5, <1>6, <1>7, <1>8, <1>9 DEF AdminStep, QuotesNext

LEMMA QuotesInvariance == QuotesSpec => []QuotesInv
BY QuotesInitially, QuotesStep, PTL DEF QuotesSpec

----------------------------------------------------------------------------
(* The state stays within its types, a booking's quote always being one    *)
(* that was made.                                                          *)
THEOREM QuotesTypeCorrect == QuotesSpec => []QuotesTypeOK
BY QuotesInvariance, PTL DEF QuotesInv

(* The ceiling covers every total by the quote's own rules, for all rules, *)
(* amounts and distances there are.                                        *)
THEOREM CeilingCovers == QuotesSpec => []CeilingCoversQuotedRules
<1>1. QuotesInv => CeilingCoversQuotedRules
  <2> SUFFICES ASSUME QuotesInv, NEW r \in Requests, Quoted(r),
                      config = rules[using[r]], NEW d \in Distances
               PROVE  CalculateFinalTotal(FrozenServicesTotal(r), d, config) <= ceiling[r]
    BY DEF CeilingCoversQuotedRules
  <2> DEFINE q == using[r]
  <2>1. q \in made /\ q \in QuoteIds  BY DEF QuotesInv, QuotesTypeOK, Quoted
  <2>2. ceiling[r] = CalculateMaximumTotal(services[q], config)
    BY <2>1 DEF QuotesInv, QuoteInv, BookingInv
  <2>3. FrozenServicesTotal(r) = services[q]  BY DEF FrozenServicesTotal, Quoted
  <2>4. services[q] \in Nat /\ config \in PricingConfig /\ d \in Nat
    BY <2>1, TypesHaveConfigs, TotalsAssumption DEF QuotesInv
  <2> HIDE DEF q
  <2> QED BY <2>2, <2>3, <2>4, TotalWithinMaximum
<1> QED BY <1>1, QuotesInvariance, PTL

(* No customer is offered a price above the quote's maximum.               *)
THEOREM OffersAreApproved == QuotesSpec => []NeverAboveApproved
<1>1. QuotesInv => NeverAboveApproved
  BY DEF QuotesInv, BookingInv, OfferInv, NeverAboveApproved
<1> QED BY <1>1, QuotesInvariance, PTL
----------------------------------------------------------------------------
(***************************************************************************)
(* Opening hours.  What the application shows of them agrees with what is  *)
(* enforced (scheduling.py, docstring of service_hours), for every window  *)
(* that opens on a full minute, across midnight or not.                    *)
(***************************************************************************)

\* The two branches of _within are one interval on the circle of the day, which
\* holds both its ends.
THEOREM WithinIsArc ==
    ASSUME NEW w \in Windows, NEW t \in Times
    PROVE  IsArc(t, w)
BY ClockAssumption DEF IsArc, Windows, Times, Within, After

LEMMA NextIs ==
    ASSUME NEW w \in Windows, ToMinute(w.start) = w.start, NEW now \in Moments
    PROVE  NextOpening(now, w) = [day  |-> IF w.start <= now.time THEN now.day + 1 ELSE now.day,
                                  time |-> w.start]
BY DEF NextOpening

\* An application that waits until the moment it shows finds the service open
\* then, and never later than a day from now.
THEOREM ClosedOpensAsShown ==
    ASSUME NEW w \in Windows, ToMinute(w.start) = w.start, NEW now \in Moments
    PROVE  OpensAsShown(now, w)
BY NextIs, ClockAssumption DEF OpensAsShown, AssertOpenNow, Within, Before, Windows, Moments, Times

\* Nobody who waits until then was shown too late a moment: from now until it,
\* the service stays closed.
THEOREM StaysClosed ==
    ASSUME NEW w \in Windows, ToMinute(w.start) = w.start, NEW now \in Moments, NEW m \in Moments
    PROVE  ClosedUntilShown(now, m, w)
<1> SUFFICES ASSUME ~Within(now.time, w), ~Before(m, now), Before(m, NextOpening(now, w))
             PROVE  ~Within(m.time, w)
  BY DEF ClosedUntilShown, AssertOpenNow
<1>1. /\ now.day \in Int /\ now.time \in Nat /\ m.day \in Int /\ m.time \in Nat
      /\ w.start \in Nat /\ w.end \in Nat /\ w.start # w.end
  BY ClockAssumption DEF Windows, Moments, Times
<1>2. CASE w.start <= now.time
  <2>1. w.start < w.end /\ w.end < now.time
    BY <1>1, <1>2 DEF Within
  <2>2. m.time >= now.time \/ m.time < w.start
    BY <1>1, <1>2, NextIs DEF Before
  <2> QED
    BY <1>1, <2>1, <2>2 DEF Within
<1>3. CASE ~(w.start <= now.time)
  <2>1. now.time <= m.time /\ m.time < w.start
    BY <1>1, <1>3, NextIs DEF Before
  <2>2. w.start < w.end \/ w.end < now.time
    BY <1>1, <1>3 DEF Within
  <2> QED
    BY <1>1, <1>3, <2>1, <2>2 DEF Within
<1> QED
  BY <1>2, <1>3

\* A visit asked for at the moment shown is refused for the lead it lacks, never
\* for the hours.
THEOREM ShownIsBookable ==
    ASSUME NEW w \in Windows, ToMinute(w.start) = w.start, NEW now \in Moments, NEW soonest \in Moments,
           ~Within(now.time, w)
    PROVE  NormalizeScheduledAt(NextOpening(now, w), now, soonest, w)
             \in {"accepted", "scheduled_at_too_soon"}
<1>1. Before(now, NextOpening(now, w)) /\ Within(NextOpening(now, w).time, w)
  BY ClosedOpensAsShown DEF OpensAsShown, AssertOpenNow
<1> QED
  BY <1>1 DEF NormalizeScheduledAt
-----------------------------------------------------------------------------
(***************************************************************************)
(* The questions about a home.  Administrators hold rows in memory between *)
(* two looks of the database: what they hold is a row that clean accepted, *)
(* whatever became of the one in the table.                                *)
(***************************************************************************)

EditOK(e) ==
    /\ e.at = "field" => e.id \in FieldIds /\ e.row \in Field /\ WellFormed(e.row)
    /\ e.at = "option" => e.id \in OptionIds /\ e.row \in Option
    /\ e.at = "new option" => e.row \in Option

CleanRows ==
    /\ \A i \in Fields : WellFormed(field[i])
    /\ \A w \in Workers : EditOK(edit[w])

CatalogInv == CatalogTypeOK /\ CleanRows /\ IconsExist /\ OptionsHaveQuestion

LEMMA CatalogInitially == CatalogInit => CatalogInv
<1> SUFFICES ASSUME CatalogInit  PROVE CatalogInv
  OBVIOUS
<1>1. Fields = {} /\ \A o \in OptionIds : option[o] = None
  BY DEF CatalogInit, Fields
<1>2. Idle \in Edits /\ EditOK(Idle)
  BY DEF Idle, Edits, EditOK
<1>3. CatalogTypeOK
  BY <1>2, CatalogAssumption DEF CatalogInit, CatalogTypeOK, Answers
<1> QED
  BY <1>1, <1>2, <1>3 DEF CatalogInit, CatalogInv, CleanRows, IconsExist, OptionsHaveQuestion

\* An administrator goes on with something else
LEMMA EditIs ==
    ASSUME CatalogInv, NEW w \in Workers, NEW e \in Edits, EditOK(e),
           edit' = [edit EXCEPT ![w] = e]
    PROVE  edit' \in [Workers -> Edits] /\ \A v \in Workers : EditOK(edit'[v])
<1>1. edit \in [Workers -> Edits] /\ \A v \in Workers : EditOK(edit[v])
  BY DEF CatalogInv, CatalogTypeOK, CleanRows
<1>2. \A v \in Workers : edit'[v] = IF v = w THEN e ELSE edit[v]
  BY <1>1
<1> QED
  BY <1>1, <1>2

LEMMA DoneIs ==
    ASSUME CatalogInv, NEW w \in Workers, Done(w)
    PROVE  edit' \in [Workers -> Edits] /\ \A v \in Workers : EditOK(edit'[v])
<1>1. Idle \in Edits /\ EditOK(Idle)
  BY DEF Idle, Edits, EditOK
<1> QED
  BY <1>1, EditIs DEF Done

\* Nothing but what administrators hold, and answers, has changed
LEMMA TablesKept ==
    ASSUME CatalogInv, UNCHANGED <<icons, field, fields, option, options>>,
           edit' \in [Workers -> Edits], \A v \in Workers : EditOK(edit'[v]),
           saved' \in Answers, booking' \in Answers \union {None}
    PROVE  CatalogInv'
BY DEF CatalogInv, CatalogTypeOK, CleanRows, IconsExist, OptionsHaveQuestion, Fields

\* A question is written over its row, or inserted
LEMMA FieldWritten ==
    ASSUME CatalogInv, NEW i \in FieldIds, NEW row \in Field, IconThere(row), WellFormed(row),
           field' = [field EXCEPT ![i] = row], fields' \in 0 .. MaxFields,
           UNCHANGED <<icons, option, options, saved, booking>>,
           edit' \in [Workers -> Edits], \A v \in Workers : EditOK(edit'[v])
    PROVE  CatalogInv'
<1> USE DEF CatalogInv
<1>1. \A j \in FieldIds : field'[j] = IF j = i THEN row ELSE field[j]
  BY DEF CatalogTypeOK
<1>2. CatalogTypeOK'
  BY DEF CatalogTypeOK
<1>3. row # None
  BY NoneAssumption
<1>4. Fields' = Fields \union {i}
  BY <1>1, <1>3 DEF Fields
<1>5. CleanRows'
  BY <1>1, <1>4 DEF CleanRows
<1>6. IconsExist'
  BY <1>1, <1>4 DEF IconsExist, IconThere
<1>7. OptionsHaveQuestion'
  BY <1>4 DEF OptionsHaveQuestion
<1> QED
  BY <1>2, <1>5, <1>6, <1>7

\* An option is, if what it refers to is there
LEMMA OptionWritten ==
    ASSUME CatalogInv, NEW o \in OptionIds, NEW row \in Option, IconThere(row), row.of \in Fields,
           option' = [option EXCEPT ![o] = row], options' \in 0 .. MaxOptions,
           UNCHANGED <<icons, field, fields, saved, booking>>,
           edit' \in [Workers -> Edits], \A v \in Workers : EditOK(edit'[v])
    PROVE  CatalogInv'
<1> USE DEF CatalogInv
<1>1. \A p \in OptionIds : option'[p] = IF p = o THEN row ELSE option[p]
  BY DEF CatalogTypeOK
<1>2. CatalogTypeOK'
  BY DEF CatalogTypeOK
<1>3. CleanRows'
  BY DEF CleanRows, Fields
<1>4. IconsExist'
  BY <1>1 DEF IconsExist, IconThere, Fields
<1>5. OptionsHaveQuestion'
  BY <1>1 DEF OptionsHaveQuestion, Fields
<1> QED
  BY <1>2, <1>3, <1>4, <1>5

LEMMA IconSteps ==
    ASSUME CatalogInv,
           \/ \E icon \in Icons : CreateIcon(icon)
           \/ \E w \in Workers, icon \in Icons : DeleteIcon(w, icon)
           \/ \E w \in Workers : CommitIcon(w)
    PROVE  CatalogInv'
<1>1. ASSUME NEW icon \in Icons, CreateIcon(icon)
      PROVE  CatalogInv'
  BY <1>1 DEF CreateIcon, CatalogInv, CatalogTypeOK, CleanRows, IconsExist, OptionsHaveQuestion, Fields
<1>2. ASSUME NEW w \in Workers, NEW icon \in Icons, DeleteIcon(w, icon)
      PROVE  CatalogInv'
  <2> DEFINE e == [Idle EXCEPT !.at = "icon", !.id = icon]
  <2>1. e \in Edits /\ EditOK(e)
    BY DEF Idle, Edits, EditOK
  <2>2. edit' = [edit EXCEPT ![w] = e]
    BY <1>2 DEF DeleteIcon, Begin
  <2> HIDE DEF e
  <2>3. edit' \in [Workers -> Edits] /\ \A v \in Workers : EditOK(edit'[v])
    BY <2>1, <2>2, EditIs
  <2> QED
    BY <1>2, <2>3, TablesKept DEF DeleteIcon, CatalogInv, CatalogTypeOK
<1>3. ASSUME NEW w \in Workers, CommitIcon(w)
      PROVE  CatalogInv'
  <2>1. edit' \in [Workers -> Edits] /\ \A v \in Workers : EditOK(edit'[v])
    BY <1>3, DoneIs DEF CommitIcon
  <2>2. CASE icons' = icons
    BY <1>3, <2>1, <2>2, TablesKept DEF CommitIcon, CatalogInv, CatalogTypeOK
  <2>3. CASE icons' = icons \ {edit[w].id} /\ ~InUse(edit[w].id)
    <3>1. CatalogTypeOK' /\ CleanRows' /\ OptionsHaveQuestion'
      BY <1>3, <2>1, <2>3 DEF CommitIcon, CatalogInv, CatalogTypeOK, CleanRows, OptionsHaveQuestion, Fields
    <3>2. IconsExist'
      BY <1>3, <2>3 DEF CommitIcon, CatalogInv, IconsExist, InUse, Fields
    <3> QED
      BY <3>1, <3>2 DEF CatalogInv
  <2> QED
    BY <1>3, <2>2, <2>3 DEF CommitIcon
<1> QED
  BY <1>1, <1>2, <1>3

LEMMA FieldSteps ==
    ASSUME CatalogInv,
           \/ \E row \in Field : CreateField(row)
           \/ \E w \in Workers, i \in FieldIds : UpdateField(w, i)
           \/ \E w \in Workers : CommitField(w)
           \/ \E i \in FieldIds : DeleteField(i)
    PROVE  CatalogInv'
<1>0. CatalogTypeOK /\ CleanRows
  BY DEF CatalogInv
<1>1. ASSUME NEW row \in Field, CreateField(row)
      PROVE  CatalogInv'
  <2>1. fields + 1 \in FieldIds /\ fields' \in 0 .. MaxFields
    BY <1>0, <1>1, CatalogAssumption DEF CreateField, FieldIds, CatalogTypeOK
  <2>2. edit' \in [Workers -> Edits] /\ \A v \in Workers : EditOK(edit'[v])
    BY <1>0, <1>1 DEF CreateField, CatalogTypeOK, CleanRows
  <2> QED
    BY <1>1, <2>1, <2>2, FieldWritten DEF CreateField
<1>2. ASSUME NEW w \in Workers, NEW i \in FieldIds, UpdateField(w, i)
      PROVE  CatalogInv'
  <2> PICK row \in Patched(field[i]) :
          WellFormed(row) /\ Begin(w, [at |-> "field", id |-> i, row |-> row])
    BY <1>2 DEF UpdateField
  <2>1. field[i] \in Field
    BY <1>0, <1>2 DEF UpdateField, Fields, CatalogTypeOK
  <2>2. row \in Field
    BY <2>1 DEF Patched, Field
  <2>3. [at |-> "field", id |-> i, row |-> row] \in Edits /\ EditOK([at |-> "field", id |-> i, row |-> row])
    BY <2>2 DEF Edits, EditOK
  <2>4. edit' \in [Workers -> Edits] /\ \A v \in Workers : EditOK(edit'[v])
    BY <2>3, EditIs DEF Begin
  <2> QED
    BY <1>0, <1>2, <2>4, TablesKept DEF UpdateField, CatalogTypeOK
<1>3. ASSUME NEW w \in Workers, CommitField(w)
      PROVE  CatalogInv'
  <2>1. edit' \in [Workers -> Edits] /\ \A v \in Workers : EditOK(edit'[v])
    BY <1>3, DoneIs DEF CommitField
  <2>2. edit[w].id \in FieldIds /\ edit[w].row \in Field /\ WellFormed(edit[w].row)
    BY <1>0, <1>3 DEF CommitField, At, CleanRows, EditOK
  <2>3. CASE field' = field
    BY <1>0, <1>3, <2>1, <2>3, TablesKept DEF CommitField, CatalogTypeOK
  <2>4. CASE IconThere(edit[w].row) /\ field' = [field EXCEPT ![edit[w].id] = edit[w].row]
    <3>1. fields' \in 0 .. MaxFields
      BY <1>0, <1>3 DEF CommitField, CatalogTypeOK
    <3> QED
      BY <1>3, <2>1, <2>2, <2>4, <3>1, FieldWritten DEF CommitField
  <2> QED
    BY <1>3, <2>3, <2>4 DEF CommitField
<1>4. ASSUME NEW i \in FieldIds, DeleteField(i)
      PROVE  CatalogInv'
  <2>1. \A j \in FieldIds : field'[j] = IF j = i THEN None ELSE field[j]
    BY <1>0, <1>4 DEF DeleteField, CatalogTypeOK
  <2>2. \A o \in OptionIds : option'[o] = IF option[o] # None /\ option[o].of = i THEN None ELSE option[o]
    BY <1>4 DEF DeleteField, OptionsOf
  <2>3. CatalogTypeOK'
    BY <1>0, <1>4 DEF DeleteField, CatalogTypeOK
  <2>4. Fields' = Fields \ {i}
    BY <2>1 DEF Fields
  <2>5. CleanRows'
    BY <1>0, <1>4, <2>1, <2>4 DEF DeleteField, CleanRows
  <2>6. IconsExist'
    BY <1>4, <2>1, <2>2, <2>4 DEF DeleteField, CatalogInv, IconsExist
  <2>7. OptionsHaveQuestion'
    BY <2>2, <2>4 DEF CatalogInv, OptionsHaveQuestion
  <2> QED
    BY <2>3, <2>5, <2>6, <2>7 DEF CatalogInv
<1> QED
  BY <1>1, <1>2, <1>3, <1>4

LEMMA OptionSteps ==
    ASSUME CatalogInv,
           \/ \E w \in Workers, i \in FieldIds : CreateOption(w, i)
           \/ \E w \in Workers, o \in OptionIds : UpdateOption(w, o)
           \/ \E w \in Workers : CommitNewOption(w)
           \/ \E w \in Workers : CommitOption(w)
           \/ \E o \in OptionIds : DeleteOption(o)
    PROVE  CatalogInv'
<1>0. CatalogTypeOK /\ CleanRows
  BY DEF CatalogInv
<1>1. ASSUME NEW w \in Workers, NEW i \in FieldIds, CreateOption(w, i)
      PROVE  CatalogInv'
  <2> PICK key \in OptionKeys, icon \in SomeIcon, active \in BOOLEAN :
        Begin(w, [at |-> "new option", id |-> 0,
                  row |-> [of |-> i, key |-> key, icon |-> icon, active |-> active]])
    BY <1>1 DEF CreateOption
  <2> DEFINE row == [of |-> i, key |-> key, icon |-> icon, active |-> active]
             e   == [at |-> "new option", id |-> 0, row |-> row]
  <2>1. row \in Option
    BY DEF Option
  <2> HIDE DEF row
  <2>2. e \in Edits /\ EditOK(e)
    BY <2>1 DEF Edits, EditOK
  <2> HIDE DEF e
  <2>3. Begin(w, e)
    BY DEF e, row
  <2>4. edit' \in [Workers -> Edits] /\ \A v \in Workers : EditOK(edit'[v])
    BY <2>2, <2>3, EditIs DEF Begin
  <2> QED
    BY <1>0, <1>1, <2>4, TablesKept DEF CreateOption, CatalogTypeOK
<1>2. ASSUME NEW w \in Workers, NEW o \in OptionIds, UpdateOption(w, o)
      PROVE  CatalogInv'
  <2> PICK icon \in SomeIcon, active \in BOOLEAN :
        Begin(w, [at |-> "option", id |-> o, row |-> [option[o] EXCEPT !.icon = icon, !.active = active]])
    BY <1>2 DEF UpdateOption
  <2> DEFINE row == [option[o] EXCEPT !.icon = icon, !.active = active]
             e   == [at |-> "option", id |-> o, row |-> row]
  <2>1. option[o] \in Option
    BY <1>0, <1>2 DEF UpdateOption, CatalogTypeOK
  <2>2. row \in Option
    BY <2>1 DEF Option
  <2> HIDE DEF row
  <2>3. e \in Edits /\ EditOK(e)
    BY <2>2 DEF Edits, EditOK
  <2> HIDE DEF e
  <2>4. Begin(w, e)
    BY DEF e, row
  <2>5. edit' \in [Workers -> Edits] /\ \A v \in Workers : EditOK(edit'[v])
    BY <2>3, <2>4, EditIs DEF Begin
  <2> QED
    BY <1>0, <1>2, <2>5, TablesKept DEF UpdateOption, CatalogTypeOK
<1>3. ASSUME NEW w \in Workers, CommitNewOption(w)
      PROVE  CatalogInv'
  <2>1. edit' \in [Workers -> Edits] /\ \A v \in Workers : EditOK(edit'[v])
    BY <1>3, DoneIs DEF CommitNewOption
  <2>2. edit[w].row \in Option
    BY <1>0, <1>3 DEF CommitNewOption, At, CleanRows, EditOK
  <2>3. options + 1 \in OptionIds /\ options + 1 \in 0 .. MaxOptions
    <3>1. options \in 0 .. MaxOptions /\ options < MaxOptions
      BY <1>0, <1>3 DEF CommitNewOption, CatalogTypeOK
    <3> QED
      BY <3>1, CatalogAssumption DEF OptionIds
  <2>4. CASE ~Accepted(0, edit[w].row)
    BY <1>0, <1>3, <2>1, <2>4, TablesKept DEF CommitNewOption, CatalogTypeOK
  <2>5. CASE Accepted(0, edit[w].row)
    BY <1>3, <2>1, <2>2, <2>3, <2>5, OptionWritten DEF CommitNewOption, Accepted
  <2> QED
    BY <2>4, <2>5
<1>4. ASSUME NEW w \in Workers, CommitOption(w)
      PROVE  CatalogInv'
  <2>1. edit' \in [Workers -> Edits] /\ \A v \in Workers : EditOK(edit'[v])
    BY <1>4, DoneIs DEF CommitOption
  <2>2. edit[w].id \in OptionIds /\ edit[w].row \in Option
    BY <1>0, <1>4 DEF CommitOption, At, CleanRows, EditOK
  <2>3. CASE option' = option
    BY <1>0, <1>4, <2>1, <2>3, TablesKept DEF CommitOption, CatalogTypeOK
  <2>4. CASE Accepted(edit[w].id, edit[w].row) /\ option' = [option EXCEPT ![edit[w].id] = edit[w].row]
    <3>1. options' \in 0 .. MaxOptions
      BY <1>0, <1>4 DEF CommitOption, CatalogTypeOK
    <3> QED
      BY <1>4, <2>1, <2>2, <2>4, <3>1, OptionWritten DEF CommitOption, Accepted
  <2> QED
    BY <1>4, <2>3, <2>4 DEF CommitOption
<1>5. ASSUME NEW o \in OptionIds, DeleteOption(o)
      PROVE  CatalogInv'
  <2>1. \A p \in OptionIds : option'[p] = IF p = o THEN None ELSE option[p]
    BY <1>0, <1>5 DEF DeleteOption, CatalogTypeOK
  <2>2. CatalogTypeOK' /\ CleanRows'
    BY <1>0, <1>5 DEF DeleteOption, CatalogTypeOK, CleanRows, Fields
  <2>3. IconsExist' /\ OptionsHaveQuestion'
    BY <1>5, <2>1 DEF DeleteOption, CatalogInv, IconsExist, OptionsHaveQuestion, Fields
  <2> QED
    BY <2>2, <2>3 DEF CatalogInv
<1> QED
  BY <1>1, <1>2, <1>3, <1>4, <1>5

LEMMA AnswerSteps ==
    ASSUME CatalogInv, RememberHomeDetails \/ \E answers \in Answers : FreezeAnswers(answers)
    PROVE  CatalogInv'
BY TablesKept DEF FreezeAnswers, RememberHomeDetails, CatalogInv, CatalogTypeOK, CleanRows

LEMMA CatalogStep == CatalogInv /\ [CatalogNext]_catalogVars => CatalogInv'
<1> SUFFICES ASSUME CatalogInv, [CatalogNext]_catalogVars
             PROVE  CatalogInv'
  OBVIOUS
<1>1. CASE UNCHANGED catalogVars
  BY <1>1, TablesKept DEF catalogVars, CatalogInv, CatalogTypeOK, CleanRows
<1> QED
  BY <1>1, IconSteps, FieldSteps, OptionSteps, AnswerSteps DEF CatalogNext

\* Rows of the catalogue and what administrators hold in memory are well typed.
THEOREM CatalogTypeCorrect == CatalogSpec => []CatalogTypeOK
<1>1. CatalogInv => CatalogTypeOK
  BY DEF CatalogInv
<1> QED
  BY <1>1, CatalogInitially, CatalogStep, PTL DEF CatalogSpec

\* No question and no option names a picture that is gone: the deletion of a
\* picture looks again at its commit, and so does a stale save (icons.py,
\* delete_icon).
THEOREM IconsNeverDangle == CatalogSpec => []IconsExist
<1>1. CatalogInv => IconsExist
  BY DEF CatalogInv
<1> QED
  BY <1>1, CatalogInitially, CatalogStep, PTL DEF CatalogSpec

\* No option outlives its question, not even one that was being added or saved
\* while the question was deleted (home_details.py, create_option).
THEOREM OptionsNeverOrphaned == CatalogSpec => []OptionsHaveQuestion
<1>1. CatalogInv => OptionsHaveQuestion
  BY DEF CatalogInv
<1> QED
  BY <1>1, CatalogInitially, CatalogStep, PTL DEF CatalogSpec

\* The default of a question is a value it allows, whoever edits its bounds and
\* however old the copy is that is saved: clean looked at the copy as a whole.
LEMMA DefaultAllowed ==
    ASSUME CatalogInv, NEW i \in Fields, DefaultValue(i) # None
    PROVE  DefaultValue(i) \in Allowed(i)
<1>1. field[i] \in Field /\ WellFormed(field[i])
  BY DEF CatalogInv, CatalogTypeOK, CleanRows, Fields
<1>2. field[i].type = "COUNTER" /\ DefaultValue(i) = field[i].default
  BY DEF DefaultValue
<1>3. /\ field[i].min \in Nat /\ field[i].max \in Nat /\ field[i].default \in Nat
      /\ field[i].min <= field[i].default /\ field[i].default <= field[i].max
  BY <1>1, <1>2, CatalogAssumption DEF Field, Counts, WellFormed
<1> QED
  BY <1>2, <1>3 DEF Allowed

\* The form never opens with a value it would itself refuse, whatever became of
\* the bounds, the options or the question since the answer was saved
\* (home_details.py, build_form).
THEOREM PrefillAccepted == CatalogSpec => []PrefillIsValid
<1>1. CatalogInv => PrefillIsValid
  BY DefaultAllowed DEF PrefillIsValid, Prefilled, ActiveFields
<1> QED
  BY <1>1, CatalogInitially, CatalogStep, PTL DEF CatalogSpec
=============================================================================
