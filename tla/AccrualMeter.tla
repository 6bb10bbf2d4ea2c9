----------------------------- MODULE AccrualMeter -----------------------------
(***************************************************************************)
(* A day count as the meter of an accrual: it is read from a start date on *)
(* one day after the other.  What is bought and sold on the way must add   *)
(* up to what is held to the end, and no day may take interest back.       *)
(***************************************************************************)
EXTENDS DayCounts

CONSTANTS
  StartDate,   \* the dates an accrual starts on
  Term         \* the days it is read for

MeterConstants == StartDate \subseteq Nat /\ Term \in Nat

VARIABLES start, end

MeterInit == start \in StartDate /\ end = start

ReadNextDay == end < start + Term /\ end' = end + 1 /\ UNCHANGED start

MeterNext == ReadNextDay

-----------------------------------------------------------------------------
Reading(convention, from, to) == YearFraction(convention, 2, from, to)

Additive ==
  {"ACT_360", "ACT_365_FIXED", "ACT_ACT_ISDA", "THIRTY_360_E",
   "THIRTY_360_E_ISDA", "THIRTY_360_GERMAN"}

IsYearLater == end = AddYears(start, 1) /\ IsEndOfMonth(start) = IsEndOfMonth(end)

MeterReads(convention, now) ==
  /\ (convention = "ACT_365_LEAP" => end - start < 366) =>
       now <= Reading(convention, start, end + 1)
  /\ Reading(convention, end, start) = 0 - now
  /\ convention \in Additive =>
       \A between \in StartDate :
         Reading(convention, start, between) + Reading(convention, between, end) = now
  /\ IsYearLater /\ convention \in
                     {"ACT_ACT_AFB", "THIRTY_360_E_ISDA", "THIRTY_360_GERMAN", "THIRTY_360_US"} =>
       now = YearParts

(* Every convention but ICMA, which has no fraction without its coupon     *)
(* period, is a meter.  It never runs back (ACT/365L only as long as a     *)
(* year does not pass 29 February twice); read backwards it is negated;    *)
(* the six that look at each date alone add up over any date in between;   *)
(* and from a date to the same date a year later, AFB and 30/360 (but for  *)
(* 30E/360) make exactly a year, unless one of the two only ends February. *)
MeterAddsUp ==
  \A convention \in DayCountConvention \ {"ACT_ACT_ICMA"} :
    MeterReads(convention, Reading(convention, start, end))
=============================================================================
