------------------------------ MODULE SampleBonds ------------------------------
(***************************************************************************)
(* Bonds of about a year, each with what makes one part of the code hard:  *)
(* the ends of months, stubs, holidays next to payment dates, ex-dividend  *)
(* days, factors and calls on and off coupon dates.                        *)
(***************************************************************************)
EXTENDS BusinessDays, Sequences

Weekend == WeekendOnly({5, 6})

(* Easter and the turn of the year, and a Monday after a month's end.      *)
WithHolidays ==
  [Weekend EXCEPT !.holidays =
     { FromYmd(2023, 4, 7), FromYmd(2023, 4, 10), FromYmd(2023, 5, 1),
       FromYmd(2023, 12, 25), FromYmd(2023, 12, 26), FromYmd(2024, 1, 1) }]

Plain ==
  [ start |-> FromYmd(2023, 1, 15), end |-> FromYmd(2024, 1, 15), months |-> 6,
    end_of_month |-> TRUE, front_stub |-> FALSE,
    first_regular_date |-> NoDate, penultimate_date |-> NoDate,
    calendar |-> Weekend, convention |-> "MODIFIED_FOLLOWING",
    day_count |-> "ACT_ACT_ICMA", ex_dividend_days |-> 0,
    sinking |-> << >>, calls |-> << >>, protection_end |-> NoDate ]

Sink(y, m, d, factor) == [date |-> FromYmd(y, m, d), factor |-> factor]

Call(y, m, d, american, end) ==
  [date |-> FromYmd(y, m, d), american |-> american, end |-> end]

(* A treasury from month end to month end, with a sinking fund.            *)
MonthEnds ==
  [Plain EXCEPT !.start = FromYmd(2022, 12, 31), !.end = FromYmd(2023, 12, 31), !.months = 3,
     !.sinking = <<Sink(2023, 3, 31, 3), Sink(2023, 9, 30, 1), Sink(2023, 12, 31, 0)>>]

(* Rolled back from 30 August, which the end-of-month rule does not keep.  *)
Drifting ==
  [Plain EXCEPT !.start = FromYmd(2022, 9, 30), !.end = FromYmd(2023, 8, 30), !.months = 3,
     !.convention = "FOLLOWING", !.day_count = "THIRTY_360_US",
     !.sinking = <<Sink(2023, 1, 10, 2), Sink(2023, 5, 28, 1)>>]

(* Rolled on from 31 January without it, monthly.                          *)
Monthly ==
  [Plain EXCEPT !.start = FromYmd(2023, 1, 31), !.end = FromYmd(2023, 12, 15), !.months = 1,
     !.end_of_month = FALSE, !.front_stub = TRUE, !.calendar = WithHolidays,
     !.convention = "NEAREST", !.day_count = "ACT_360",
     !.sinking = <<Sink(2023, 6, 28, 2), Sink(2023, 12, 15, 1)>>]

(* The coupon is detached seven business days ahead, as a gilt's; rolled   *)
(* back over the end of February, and two factors on one date.             *)
Gilt ==
  [Plain EXCEPT !.start = FromYmd(2022, 11, 10), !.end = FromYmd(2024, 2, 28), !.months = 3,
     !.calendar = WithHolidays, !.ex_dividend_days = 7,
     !.sinking = <<Sink(2023, 8, 28, 3), Sink(2023, 8, 28, 1)>>,
     !.calls = <<Call(2023, 7, 1, FALSE, NoDate), Call(2023, 8, 28, FALSE, NoDate)>>,
     !.protection_end = FromYmd(2023, 8, 1)]

(* A short and a long first period, and a last one that is cut off.        *)
ShortFirst ==
  [Plain EXCEPT !.first_regular_date = FromYmd(2023, 2, 28), !.months = 3,
     !.end = FromYmd(2024, 1, 20), !.convention = "END_OF_MONTH",
     !.calls = <<Call(2023, 3, 15, TRUE, NoDate), Call(2023, 9, 4, TRUE, NoDate)>>]

LongFirst ==
  [Plain EXCEPT !.first_regular_date = FromYmd(2023, 9, 1), !.end = FromYmd(2024, 3, 1),
     !.convention = "MODIFIED_PRECEDING",
     !.calls = <<Call(2023, 3, 15, TRUE, FromYmd(2023, 6, 30)), Call(2023, 9, 1, FALSE, NoDate)>>,
     !.sinking = <<Sink(2023, 9, 1, 0)>>]

(* A penultimate date within a period of the start.                        *)
CutLast ==
  [Plain EXCEPT !.start = FromYmd(2023, 8, 1), !.end = FromYmd(2024, 2, 15),
     !.penultimate_date = FromYmd(2024, 1, 15), !.convention = "PRECEDING",
     !.calls = <<Call(2023, 9, 15, TRUE, FromYmd(2023, 12, 15)), Call(2023, 11, 15, FALSE, NoDate)>>,
     !.protection_end = FromYmd(2023, 10, 1)]

(* A first regular date before the start, which the dates then begin with. *)
EarlyFirst ==
  [Plain EXCEPT !.first_regular_date = FromYmd(2022, 12, 15), !.end = FromYmd(2023, 8, 15)]

BondDef ==
  {MonthEnds, Drifting, Monthly, Gilt, ShortFirst, LongFirst, CutLast, EarlyFirst}

(* A treasury whose last payment date is a Sunday at the end of a month.   *)
OneTreasury ==
  {[Plain EXCEPT !.start = FromYmd(2022, 4, 30), !.end = FromYmd(2023, 4, 30)]}

(* Four quarters, the last one cut to two months by a penultimate date.    *)
CutLastOfFour ==
  {[Plain EXCEPT !.end = FromYmd(2024, 1, 15), !.months = 3,
      !.penultimate_date = FromYmd(2023, 11, 15)]}
=============================================================================
