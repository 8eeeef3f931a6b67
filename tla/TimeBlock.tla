----------------------------- MODULE TimeBlock ------------------------------
(***************************************************************************)
(* Reserved blocks (internal/store/scheduler_config.go).  Time is counted   *)
(* in minutes since the midnight of day 0, a Sunday, on a clock that is     *)
(* never set; the wall clock is set forward or back within a day, so that a *)
(* day may be shorter or longer than Day minutes.                           *)
(***************************************************************************)
EXTENDS Integers

CONSTANTS
    Day,        \* the minutes of an ordinary day: 1440 in the code
    Begins,     \* when each day begins, the days being numbered from 0
    Change      \* the minute of the day at which the wall clock is set

ASSUME DayAssumption == Day \in Nat \ {0} /\ Change \in 0 .. Day
(* The clock is not set back past midnight. *)
ASSUME BeginsAssumption ==
    /\ Begins \in [DOMAIN Begins -> Nat]
    /\ 0 \in DOMAIN Begins /\ Begins[0] = 0
    /\ \A d \in DOMAIN Begins : d \in Nat /\ (d > 0 => d - 1 \in DOMAIN Begins)
    /\ \A d, e \in DOMAIN Begins : d < e => Begins[d] < Begins[e]
    /\ \A d \in DOMAIN Begins :
          d + 1 \in DOMAIN Begins => Begins[d + 1] - Begins[d] <= Day + Change

(* No days named means every day. *)
Block == [days: SUBSET (0 .. 6), start: 0 .. Day - 1, end: 0 .. Day - 1]

DayOf(t) == CHOOSE d \in DOMAIN Begins :
    /\ Begins[d] <= t
    /\ \A e \in DOMAIN Begins : Begins[e] <= t => e <= d

(* The days before day 0 are ordinary ones; only the last is asked for. *)
DayOfOrEarlier(t) == IF t < 0 THEN -1 ELSE DayOf(t)

(* t.Hour() * 60 + t.Minute(): what the wall clock shows, the difference    *)
(* between the day's length and Day being made up at Change. *)
MinuteOfDay(t) ==
    LET d == DayOf(t)
        elapsed == t - Begins[d]
        length == IF d + 1 \in DOMAIN Begins THEN Begins[d + 1] - Begins[d] ELSE Day
    IN IF elapsed < Change THEN elapsed ELSE elapsed + Day - length

AppliesToDay(b, d) == b.days = {} \/ d % 7 \in b.days

Wraps(b) == b.end <= b.start

(* Bug: what is left of a block in the morning is looked up under the    *)
(* day it ends on. *)
Contains_Today(b, t) ==
    LET m == MinuteOfDay(t) IN
    AppliesToDay(b, DayOf(t)) /\ IF Wraps(b) THEN b.start <= m \/ m < b.end
                                              ELSE b.start <= m /\ m < b.end

Contains(b, t) ==
    LET m == MinuteOfDay(t) IN
    \/ ~Wraps(b) /\ AppliesToDay(b, DayOf(t)) /\ b.start <= m /\ m < b.end
    \/ Wraps(b) /\ AppliesToDay(b, DayOf(t)) /\ b.start <= m
    \/ Wraps(b) /\ AppliesToDay(b, DayOfOrEarlier(t - Day)) /\ m < b.end

-----------------------------------------------------------------------------

(* What a block stands for: from start until the next end, beginning on     *)
(* each of the days it names. *)
Covers(b, t) ==
    \E ago \in {0, 1} :
        /\ AppliesToDay(b, DayOf(t) - ago)
        /\ b.start <= MinuteOfDay(t) + ago * Day
        /\ MinuteOfDay(t) + ago * Day < b.end + (IF Wraps(b) THEN Day ELSE 0)

(* A day's length ago was yesterday, which is so but for the first minutes  *)
(* after a short day and the last of a long one. *)
YesterdayIsADayAgo(t) == DayOfOrEarlier(t - Day) = DayOf(t) - 1
=============================================================================
