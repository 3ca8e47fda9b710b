----------------------------- MODULE Scheduling -----------------------------
(***************************************************************************)
(* When a visit may start (apps/bookings/services/scheduling.py): pure     *)
(* functions of the moment, on the property's clock, and of the window the *)
(* administrators have set.  A moment is a day and the time since its      *)
(* midnight; a change of daylight saving is left out.                      *)
(***************************************************************************)
EXTENDS Integers

CONSTANTS Day,      \* ticks of the clock in a day
          Minute    \* and in a minute

ASSUME ClockAssumption == Day \in Nat \ {0} /\ Minute \in Nat \ {0}

Times   == 0 .. Day - 1
Moments == [day : Int, time : Times]

Before(a, b) == a.day < b.day \/ (a.day = b.day /\ a.time < b.time)

\* PricingConfig.clean: opening and closing differ
Windows == {w \in [start : Times, end : Times] : w.start # w.end}

\* The end is open too; a window may cross midnight
Within(t, w) ==
    IF w.start < w.end THEN w.start <= t /\ t <= w.end
                       ELSE t >= w.start \/ t <= w.end

\* normalize_scheduled_at, with what is refused in the order it is; soonest is
\* now and the lead that is asked for
NormalizeScheduledAt(asked, now, soonest, w) ==
    CASE ~Before(now, asked)                        -> "scheduled_at_in_past"
      [] Before(now, asked) /\ Before(asked, soonest) -> "scheduled_at_too_soon"
      [] Before(now, asked) /\ ~Before(asked, soonest) ->
            IF Within(asked.time, w) THEN "accepted" ELSE "outside_business_hours"

\* assert_open_now: a visit as soon as possible
AssertOpenNow(now, w) ==
    IF Within(now.time, w) THEN "accepted" ELSE "outside_business_hours"

ToMinute(t) == t - (t % Minute)

\* next_open_at of service_hours: today at the opening, or tomorrow
NextOpening(now, w) ==
    [day  |-> IF ToMinute(w.start) <= now.time THEN now.day + 1 ELSE now.day,
     time |-> ToMinute(w.start)]
-----------------------------------------------------------------------------
(* What they are meant to be *)

\* How long after the opening the clock next shows t
After(t, w) == IF t >= w.start THEN t - w.start ELSE t - w.start + Day

\* The clock is between opening and closing, whichever is the larger number
IsArc(t, w) == Within(t, w) <=> After(t, w) <= After(w.end, w)

\* A service that is closed opens at the moment shown, within a day ...
OpensAsShown(now, w) ==
    LET next == NextOpening(now, w) IN
    ~Within(now.time, w) =>
        /\ Before(now, next) /\ ~Before([now EXCEPT !.day = @ + 1], next)
        /\ AssertOpenNow(next, w) = "accepted"

\* ... and at no moment between
ClosedUntilShown(now, m, w) ==
    ~Within(now.time, w) /\ ~Before(m, now) /\ Before(m, NextOpening(now, w)) =>
        AssertOpenNow(m, w) = "outside_business_hours"
=============================================================================
