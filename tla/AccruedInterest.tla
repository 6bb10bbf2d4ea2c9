--------------------------- MODULE AccruedInterest ---------------------------
(***************************************************************************)
(* Coupons and accrued interest of a fixed-rate bond (bonds/cashflows/     *)
(* generator.py and accrued.py, bonds/instruments/fixed.py).  Coupons are  *)
(* paid on adjusted dates and accrue between unadjusted ones.              *)
(***************************************************************************)
EXTENDS CouponSchedule, DayCounts

AccrualStart(i) == Unadjusted[i - 1]

AccrualEnd(i) == Unadjusted[i]

CouponDate(i) == PayDate(AccrualEnd(i))

(* Mutant: on the date counts as after it.                                 *)
CouponsFrom(date) == {i \in Period : CouponDate(i) >= date}

(* future_cashflows: the periods whose coupon is paid after a date.        *)
CouponsAfter(date) == {i \in Period : CouponDate(i) > date}

(* The coupon of a period, as a part of the year's.                        *)
CouponParts(i) ==
  YearFraction(bond.day_count, 12 \div bond.months, AccrualStart(i), AccrualEnd(i))

(* The period the accrued interest of a settlement date belongs to.        *)
ActivePeriod(date) ==
  {i \in Period : AccrualStart(i) < date /\ date < AccrualEnd(i) /\ date < bond.end}

(* accrued_interest raises if the coupon is paid before its period ends.   *)
AccruedRaises(date) == \E i \in ActivePeriod(date) : CouponDate(i) < AccrualEnd(i)

-----------------------------------------------------------------------------
(* The share of a coupon that has accrued: a numerator and a denominator.  *)

MonthEnded(date, to_month_end) == IF to_month_end THEN EndOfMonth(date) ELSE date

Shifted(date, months, to_month_end) == MonthEnded(AddMonths(date, months), to_month_end)

(* The regular period a stub is a part of.                                 *)
ReferencePeriod(i) ==
  LET month_end == /\ bond.end_of_month
                   /\ IsEndOfMonth(AccrualStart(i)) \/ IsEndOfMonth(AccrualEnd(i))
  IN  CASE i = 2 /\ bond.first_regular_date # NoDate ->
             <<Shifted(bond.first_regular_date, 0 - bond.months, month_end),
               bond.first_regular_date>>
        [] i = Len(Unadjusted) /\ bond.penultimate_date # NoDate ->
             <<bond.penultimate_date,
               Shifted(bond.penultimate_date, bond.months, month_end)>>
        [] OTHER -> <<AccrualStart(i), AccrualEnd(i)>>

(* A date and the two that follow, each shifted from the one before.       *)
ThreeDates(date, months, to_month_end) ==
  << date, Shifted(date, months, to_month_end),
     Shifted(Shifted(date, months, to_month_end), months, to_month_end) >>

(* The bounds of the reference periods that cover a long stub: as many     *)
(* before and after the first as a stub of three periods needs.            *)
ReferenceBounds(period, to_month_end) ==
  Reverse(ThreeDates(period[1], 0 - bond.months, to_month_end))
    \o ThreeDates(period[2], bond.months, to_month_end)

BoundsAround(period) ==
  ReferenceBounds(period, IsEndOfMonth(period[1]) \/ IsEndOfMonth(period[2]))

Length(bounds, k) == bounds[k + 1] - bounds[k]

Touched(bounds, first, last) ==
  {k \in 1 .. 5 : bounds[k] < last /\ first < bounds[k + 1]}

(* Each overlap with a reference period counts in the length of that       *)
(* period.  All are brought to one denominator, so that fractions of one   *)
(* coupon period compare by their numerators.                              *)
Overlaps(bounds, touched, common, start, end) ==
  MapThenSumSet(
    LAMBDA k : Later(0, Earlier(end, bounds[k + 1]) - Later(start, bounds[k]))
                 * (common \div Length(bounds, k)),
    touched)

CountedIn(bounds, touched, start, end) ==
  Overlaps(bounds, touched, ProductSet({Length(bounds, k) : k \in touched}), start, end)

CountedAround(bounds, i, start, end) ==
  CountedIn(bounds, Touched(bounds, AccrualStart(i), AccrualEnd(i)), start, end)

(* _icma_year_fraction                                                     *)
IcmaNumerator(i, start, end) == CountedAround(BoundsAround(ReferencePeriod(i)), i, start, end)

AccruedFraction(i, start, end) ==
  IF bond.day_count = "ACT_ACT_ICMA" THEN IcmaNumerator(i, start, end)
  ELSE YearFraction(bond.day_count, 12 \div bond.months, start, end)

AccruedShare(i, date) ==
  << AccruedFraction(i, AccrualStart(i), date),
     AccruedFraction(i, AccrualStart(i), AccrualEnd(i)) >>

(* The coupon is left to the seller from so many business days before it   *)
(* is paid.                                                                *)
ExDividendDate(i) == AddBusinessDays(bond.calendar, CouponDate(i), 0 - bond.ex_dividend_days)

IsExDividend(i, date) ==
  /\ bond.ex_dividend_days > 0
  /\ ExDividendDate(i) <= date /\ date < CouponDate(i)
=============================================================================
