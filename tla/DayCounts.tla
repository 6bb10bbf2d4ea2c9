------------------------------ MODULE DayCounts ------------------------------
(***************************************************************************)
(* Day-count conventions (_core/daycounts.py).  A year fraction is exact:  *)
(* the number of parts of which YearParts make a year.                    *)
(***************************************************************************)
EXTENDS CivilDates, Functions

(* The least common multiple of 360, 365 and 366, and of every number of   *)
(* coupons a year.                                                         *)
YearParts == 1603080

DayCountConvention ==
  {"ACT_360", "ACT_365_FIXED", "ACT_365_LEAP", "ACT_ACT_AFB", "ACT_ACT_ICMA",
   "ACT_ACT_ISDA", "THIRTY_360_E", "THIRTY_360_E_ISDA", "THIRTY_360_GERMAN",
   "THIRTY_360_US"}

Sign(start, end) == IF start <= end THEN 1 ELSE -1

(* The start is excluded and the end included.                             *)
IncludesFeb29(start, end) ==
  \E year \in Year(start) .. Year(end) :
    IsLeap(year) /\ FromYmd(year, 2, 29) \in Interval(start, end)

IsLastDayOfFeb(date) == Month(date) = 2 /\ IsEndOfMonth(date)

-----------------------------------------------------------------------------
(* The conventions with months of 30 days differ in the days of the month  *)
(* they give to the two ends of an interval.                               *)

ToThirty(date) == IF Day(date) < 30 THEN Day(date) ELSE 30

MonthEndToThirty(date) == IF IsEndOfMonth(date) THEN 30 ELSE ToThirty(date)

GermanDay(date) == IF Day(date) = 31 \/ IsLastDayOfFeb(date) THEN 30 ELSE Day(date)

(* Mutant: 31 is always 30, even if the start is earlier in its month.     *)
UsDaysTwice(start, end) ==
  LET d1 == IF IsLastDayOfFeb(start) THEN 30 ELSE ToThirty(start)
  IN  <<d1, Day(end)>>

(* The days of the two ends, and whether each ends February.               *)
UsPair(d1, feb1, d2, feb2) ==
  LET from == IF feb1 THEN 30 ELSE d1
      to   == IF feb2 /\ from = 30 THEN 30 ELSE d2
  IN  << IF from = 31 THEN 30 ELSE from, IF to = 31 /\ from >= 30 THEN 30 ELSE to >>

UsDays(start, end) ==
  UsPair(Day(start), IsLastDayOfFeb(start), Day(end), IsLastDayOfFeb(end))

ThirtyDays(convention, start, end) ==
  CASE convention = "THIRTY_360_E"      -> <<ToThirty(start), ToThirty(end)>>
    [] convention = "THIRTY_360_E_ISDA" -> <<MonthEndToThirty(start), MonthEndToThirty(end)>>
    [] convention = "THIRTY_360_GERMAN" -> <<GermanDay(start), GermanDay(end)>>
    [] convention = "THIRTY_360_US"     -> UsDays(start, end)

IsThirty(convention) ==
  convention \in {"THIRTY_360_E", "THIRTY_360_E_ISDA", "THIRTY_360_GERMAN", "THIRTY_360_US"}

DaysBetween(start, end, days) ==
  360 * (Year(end) - Year(start)) + 30 * (Month(end) - Month(start)) + days[2] - days[1]

DaysThirty360(convention, start, end) ==
  DaysBetween(start, end, ThirtyDays(convention, start, end))

DayCount(convention, start, end) ==
  IF IsThirty(convention)
  THEN Sign(start, end)
         * DaysThirty360(convention, Earlier(start, end), Later(start, end))
  ELSE end - start

-----------------------------------------------------------------------------
(* ACT/ACT ISDA: every day counts in the length of its own year.           *)
DaysIn(year, start, end) ==
  Earlier(end, DaysBeforeYear(year + 1)) - Later(start, DaysBeforeYear(year))

DayParts(year) == YearParts \div (IF IsLeap(year) THEN 366 ELSE 365)

IsdaParts(start, end) ==
  SumFunction([year \in Year(start) .. Year(end) |-> DaysIn(year, start, end) * DayParts(year)])

(* ACT/365L.                                                                *)
LeapParts(start, end) ==
  (end - start) * (YearParts \div (IF IncludesFeb29(start, end) THEN 366 ELSE 365))

(* ACT/ACT AFB: whole years as long as they fit, each added to the date    *)
(* the last one ended on, then the days that remain.                       *)
Anniversaries(start, end) ==
  LET after[n \in 0 .. Year(end) - Year(start) + 1] ==
        IF n = 0 THEN start ELSE AddYears(after[n - 1], 1)
  IN  after

WholeYears(after, end) ==
  CHOOSE n \in DOMAIN after : after[n] <= end /\ end < after[n + 1]

PartsAfter(after, whole, end) == whole * YearParts + LeapParts(after[whole], end)

PartsSince(after, end) == PartsAfter(after, WholeYears(after, end), end)

AfbParts(start, end) == PartsSince(Anniversaries(start, end), end)

(* ACT/ACT ICMA is left to a coupon period: days over days, of which there *)
(* are frequency in a year.                                                *)
IcmaFraction(start, end, period_start, period_end, frequency) ==
  <<end - start, (period_end - period_start) * frequency>>

(* year_fraction of the convention takes the interval for the period, so   *)
(* that it is one coupon of the year whatever its length; it raises on an  *)
(* interval that is empty or goes back.                                    *)
IcmaRaises(start, end) == start >= end

IcmaParts(frequency) == YearParts \div frequency

(* year_fraction, for an interval that does not go back.                   *)
PartsForward(convention, frequency, start, end) ==
  CASE convention = "ACT_360"       -> (end - start) * (YearParts \div 360)
    [] convention = "ACT_365_FIXED" -> (end - start) * (YearParts \div 365)
    [] convention = "ACT_365_LEAP"  -> LeapParts(start, end)
    [] convention = "ACT_ACT_AFB"   -> AfbParts(start, end)
    [] convention = "ACT_ACT_ISDA"  -> IsdaParts(start, end)
    [] convention = "ACT_ACT_ICMA"  -> IcmaParts(frequency)
    [] OTHER -> DayCount(convention, start, end) * (YearParts \div 360)

YearFraction(convention, frequency, start, end) ==
  Sign(start, end)
    * PartsForward(convention, frequency, Earlier(start, end), Later(start, end))
=============================================================================
