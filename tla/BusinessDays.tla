----------------------------- MODULE BusinessDays -----------------------------
(***************************************************************************)
(* Business-day arithmetic (_core/calendars.py, Calendar) and settlement   *)
(* (_core/settlement_rules.py).  A calendar is the set of the weekdays of  *)
(* its weekend and the set of its holidays.                                *)
(***************************************************************************)
EXTENDS CivilDates, FiniteSets, FiniteSetsExt

WeekendType == {{5, 6}, {4, 5}, {3, 4}, {6}, {}}

(* Some day of the week is outside the weekend: the searches for an open   *)
(* day would never end on another calendar.                                *)
IsCalendar(calendar) ==
  IsFiniteSet(calendar.holidays) /\ \E day \in 0 .. 6 : day \notin calendar.weekend

IsOpen(calendar, date) ==
  Weekday(date) \notin calendar.weekend /\ date \notin calendar.holidays

(* No month is closed from its first day to its last one.                  *)
OpensEveryMonth(calendar) ==
  \A date \in calendar.holidays :
    \E day \in FromYmd(Year(date), Month(date), 1) .. EndOfMonth(date) : IsOpen(calendar, day)

(* JointCalendar: open when all of its calendars are.                      *)
Joint(calendars) ==
  [ weekend  |-> UNION {c.weekend : c \in calendars},
    holidays |-> UNION {c.holidays : c \in calendars} ]

(* DynamicCalendar.merge and merge_from: the holidays of both, the weekend *)
(* of the one that is merged into.                                         *)
Merged(calendar, other) ==
  [calendar EXCEPT !.holidays = @ \cup other.holidays]

(* WeekendCalendar, and the weekend-only arithmetic of Date.               *)
WeekendOnly(weekend) == [weekend |-> weekend, holidays |-> {}]

-----------------------------------------------------------------------------
(* The days a search for an open one can meet: of a weekday outside the    *)
(* weekend, in one week more than there are holidays, one is open.         *)
Reach(calendar) == 7 * (Cardinality(calendar.holidays) + 1)

Following(calendar, date) ==
  Min({d \in date .. date + Reach(calendar) : IsOpen(calendar, d)})

Preceding(calendar, date) ==
  Max({d \in date - Reach(calendar) .. date : IsOpen(calendar, d)})

(* Mutant: the month is not looked at.                                     *)
FollowingOverMonthEnd(calendar, date) == Following(calendar, date)

ModifiedFollowing(calendar, date) ==
  IF Month(Following(calendar, date)) # Month(date)
  THEN Preceding(calendar, date)
  ELSE Following(calendar, date)

ModifiedPreceding(calendar, date) ==
  IF Month(Preceding(calendar, date)) # Month(date)
  THEN Following(calendar, date)
  ELSE Preceding(calendar, date)

(* A tie goes to the later date.                                           *)
Nearest(calendar, date) ==
  IF date - Preceding(calendar, date) < Following(calendar, date) - date
  THEN Preceding(calendar, date)
  ELSE Following(calendar, date)

Convention ==
  {"UNADJUSTED", "FOLLOWING", "PRECEDING", "MODIFIED_FOLLOWING",
   "MODIFIED_PRECEDING", "NEAREST", "END_OF_MONTH"}

Adjust(calendar, date, convention) ==
  CASE convention = "UNADJUSTED"         -> date
    [] convention = "FOLLOWING"          -> Following(calendar, date)
    [] convention = "PRECEDING"          -> Preceding(calendar, date)
    [] convention = "MODIFIED_FOLLOWING" -> ModifiedFollowing(calendar, date)
    [] convention = "MODIFIED_PRECEDING" -> ModifiedPreceding(calendar, date)
    [] convention = "NEAREST"            -> Nearest(calendar, date)
    [] convention = "END_OF_MONTH"       ->
         IF IsEndOfMonth(date) THEN Preceding(calendar, date)
         ELSE ModifiedFollowing(calendar, date)

-----------------------------------------------------------------------------
OpenDays(calendar, dates) == {d \in dates : IsOpen(calendar, d)}

(* The n-th open day after the date, or before it; the date itself is not  *)
(* counted.                                                                *)
AddBusinessDays(calendar, date, n) ==
  LET span   == 7 * (IF n > 0 THEN n ELSE 0 - n) + Reach(calendar)
      ahead  == OpenDays(calendar, date + 1 .. date + span)
      behind == OpenDays(calendar, date - span .. date - 1)
  IN  CASE n = 0 -> date
        [] n > 0 -> CHOOSE d \in ahead : Cardinality({e \in ahead : e <= d}) = n
        [] n < 0 -> CHOOSE d \in behind : 0 - Cardinality({e \in behind : e >= d}) = n

(* The start is excluded and the end included.                             *)
BusinessDaysBetween(calendar, start, end) ==
  IF start <= end
  THEN Cardinality(OpenDays(calendar, Interval(start, end)))
  ELSE 0 - Cardinality(OpenDays(calendar, Interval(end, start)))

(* SettlementRules.settlement_date, where it does not raise: the lag in    *)
(* business or calendar days, then the adjustment.                         *)
SettlementRule ==
  [ days : 0 .. 2, business : BOOLEAN,
    adjustment : {"UNADJUSTED", "FOLLOWING", "MODIFIED_FOLLOWING",
                  "PRECEDING", "MODIFIED_PRECEDING"} ]

SettlementDate(calendar, rule, trade) ==
  Adjust(calendar,
         IF rule.business THEN AddBusinessDays(calendar, trade, rule.days)
         ELSE trade + rule.days,
         rule.adjustment)
=============================================================================
