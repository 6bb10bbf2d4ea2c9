------------------------------ MODULE CivilDates ------------------------------
(***************************************************************************)
(* Dates (_core/types.py, Date).  A date is its day number, as             *)
(* datetime.date.toordinal counts it: 1 January of year 1 is day 1.  Order,*)
(* days_between and add_days are then those of the integers, and the       *)
(* calendar arithmetic of Date is defined from year, month and day.        *)
(***************************************************************************)
EXTENDS Integers

(* A date that is not given.                                               *)
NoDate == 0

IsLeap(year) == (year % 4 = 0 /\ year % 100 # 0) \/ year % 400 = 0

MonthLength(year, month) ==
  IF month = 2 /\ IsLeap(year)
  THEN 29
  ELSE <<31, 28, 31, 30, 31, 30, 31, 31, 30, 31, 30, 31>>[month]

DaysBeforeYear(year) ==
  LET y == year - 1 IN 365 * y + (y \div 4) - (y \div 100) + (y \div 400)

DaysBeforeMonth(year, month) ==
  <<0, 31, 59, 90, 120, 151, 181, 212, 243, 273, 304, 334>>[month]
    + (IF month > 2 /\ IsLeap(year) THEN 1 ELSE 0)

FromYmd(year, month, day) ==
  DaysBeforeYear(year) + DaysBeforeMonth(year, month) + day

Year(date) ==
  LET guess == (400 * date) \div 146097
  IN  CHOOSE y \in guess .. guess + 2 :
        DaysBeforeYear(y) < date /\ date <= DaysBeforeYear(y + 1)

DayOfYear(date) == date - DaysBeforeYear(Year(date))

(* The month that has the n-th day of a year: by months of 31 days one     *)
(* comes to it or to the month before.                                     *)
MonthOfDay(year, n) ==
  LET m == ((n - 1) \div 31) + 1
  IN  IF n <= DaysBeforeMonth(year, m) + MonthLength(year, m) THEN m ELSE m + 1

Month(date) == MonthOfDay(Year(date), DayOfYear(date))

Day(date) == DayOfYear(date) - DaysBeforeMonth(Year(date), Month(date))

(* Monday is 0, Sunday is 6.                                               *)
Weekday(date) == (date + 6) % 7

IsWeekday(date) == Weekday(date) < 5

LastOfMonth(year, month) == FromYmd(year, month, MonthLength(year, month))

EndOfMonth(date) == LastOfMonth(Year(date), Month(date))

IsEndOfMonth(date) == date = EndOfMonth(date)

(* The day of the month, or the last one if the month is shorter.          *)
Clamped(year, month, day) ==
  FromYmd(year, month,
          IF day < MonthLength(year, month) THEN day ELSE MonthLength(year, month))

(* Months are counted from the start of year 0.                            *)
ClampedInMonth(index, day) == Clamped(index \div 12, (index % 12) + 1, day)

AddMonths(date, n) == ClampedInMonth(12 * Year(date) + Month(date) - 1 + n, Day(date))

AddYears(date, n) == Clamped(Year(date) + n, Month(date), Day(date))

(* The dates from one to the other, without the first.                     *)
Interval(start, end) == start + 1 .. end

Earlier(a, b) == IF a <= b THEN a ELSE b

Later(a, b) == IF a >= b THEN a ELSE b
=============================================================================
