---------------------------- MODULE CalendarEdits ----------------------------
(***************************************************************************)
(* Runtime calendars (_core/calendars.py, DynamicCalendar, HolidayBitmap)  *)
(* while their holidays are edited: whatever the holidays have become, the *)
(* date arithmetic on them keeps its promises.                             *)
(***************************************************************************)
EXTENDS BusinessDays

CONSTANTS
  Holiday,     \* the dates that are declared and withdrawn as holidays
  Lag          \* the numbers of business days added, negative ones too

(* A month that is closed from its first day to its last has no date that  *)
(* a modified convention could stay in it on: whichever weekends meet,     *)
(* there is none.                                                          *)
CalendarConstants ==
  /\ Holiday \subseteq Nat /\ Holiday # {} /\ IsFiniteSet(Holiday)
  /\ Lag \subseteq Int
  /\ OpensEveryMonth([weekend |-> UNION WeekendType, holidays |-> Holiday])

VARIABLES
  own,         \* a calendar with any weekend
  other        \* one with the usual weekend

calendars == <<own, other>>

CalendarInit ==
  /\ own \in {WeekendOnly(weekend) : weekend \in WeekendType}
  /\ other = WeekendOnly({5, 6})

(* add_holiday and remove_holiday.                                         *)
AddHoliday(date) ==
  \/ own' = [own EXCEPT !.holidays = @ \cup {date}] /\ UNCHANGED other
  \/ other' = [other EXCEPT !.holidays = @ \cup {date}] /\ UNCHANGED own

RemoveHoliday(date) ==
  \/ own' = [own EXCEPT !.holidays = @ \ {date}] /\ UNCHANGED other
  \/ other' = [other EXCEPT !.holidays = @ \ {date}] /\ UNCHANGED own

MergeFrom == own' = Merged(own, other) /\ UNCHANGED other

CalendarNext == (\E date \in Holiday : AddHoliday(date) \/ RemoveHoliday(date)) \/ MergeFrom

-----------------------------------------------------------------------------
Around == Min(Holiday) - 3 .. Max(Holiday) + 3

Calendars == {own, Joint({own, other})}

KeepsOrder(calendar, convention, adjusted) ==
  \A d \in Around :
    /\ convention # "UNADJUSTED" => IsOpen(calendar, adjusted[d])
    /\ Adjust(calendar, adjusted[d], convention) = adjusted[d]
    /\ d + 1 \in Around => adjusted[d] <= adjusted[d + 1]
    /\ convention \in {"MODIFIED_FOLLOWING", "MODIFIED_PRECEDING", "END_OF_MONTH"} =>
         Month(adjusted[d]) = Month(d)

SettlesInOrder(calendar, rule, d, settled) ==
  /\ d + 1 \in Around => settled <= SettlementDate(calendar, rule, d + 1)
  /\ rule.business /\ rule.days > 0 => settled > d /\ IsOpen(calendar, settled)

(* What payment dates rest on, in any calendar: an adjusted date is open   *)
(* and adjusting it again changes nothing, two dates keep their order, and *)
(* the modified conventions and END_OF_MONTH do not leave the month.       *)
(* CouponSchedule: the adjusted dates of a sorted schedule are sorted.     *)
AdjustKeepsOrder ==
  \A calendar \in Calendars : \A convention \in Convention :
    KeepsOrder(calendar, convention,
               [d \in Around |-> Adjust(calendar, d, convention)])

(* What settlement dates rest on: counting undoes adding (backwards only   *)
(* from an open day, since the count excludes its start and includes its   *)
(* end), and a later trade never settles earlier; a lag in business days   *)
(* ends on an open day after the trade, whatever the adjustment.           *)
LagKeepsOrder ==
  \A calendar \in Calendars : \A d \in Around :
    /\ \A n \in Lag :
         (n > 0 \/ IsOpen(calendar, d)) =>
           BusinessDaysBetween(calendar, d, AddBusinessDays(calendar, d, n)) = n
    /\ \A rule \in SettlementRule :
         SettlesInOrder(calendar, rule, d, SettlementDate(calendar, rule, d))
=============================================================================
