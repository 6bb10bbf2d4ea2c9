------------------------------- MODULE BondLife -------------------------------
(***************************************************************************)
(* A bond from its issue to its maturity: its schedule is generated, then  *)
(* the settlement date moves on day by day.  Sinking-fund factors          *)
(* (bonds/instruments/sinking_fund.py) and call and put schedules          *)
(* (bonds/instruments/callable.py, bonds/types/options.py) hang on it.     *)
(* A factor is what is left of the notional.                               *)
(***************************************************************************)
EXTENDS AccruedInterest

CONSTANT Notional    \* the notional, in the units that factors are counted in

(* A bond that the constructors accept: calls lie between issue and        *)
(* maturity, one after the other, and no window ends before it opens; the  *)
(* entries of a sinking fund are in order, and their factors do not rise.  *)
IsBond(b) ==
  /\ IsScheduleConfig(b)
  /\ b.ex_dividend_days \in Nat /\ b.protection_end \in Nat
  /\ b.calls \in Seq([date : b.start + 1 .. b.end - 1, american : BOOLEAN, end : Nat])
  /\ \A k \in DOMAIN b.calls :
       /\ b.calls[k].end = NoDate \/ b.calls[k].date <= b.calls[k].end
       /\ \A j \in DOMAIN b.calls : j < k => b.calls[j].date < b.calls[k].date
  /\ b.sinking \in Seq([date : Nat, factor : 0 .. Notional])
  /\ \A j, k \in DOMAIN b.sinking :
       j < k => /\ b.sinking[j].date <= b.sinking[k].date
                /\ b.sinking[k].factor <= b.sinking[j].factor

VARIABLE today

life == <<schedule, today>>

LifeInit == ScheduleInit /\ today = bond.start

NextDay ==
  /\ generated /\ today <= bond.end
  /\ today' = today + 1
  /\ UNCHANGED schedule

LifeNext == (Generate /\ UNCHANGED today) \/ NextDay

LifeSpec == LifeInit /\ [][LifeNext]_life /\ WF_life(Generate /\ UNCHANGED today)

-----------------------------------------------------------------------------
(* SinkingFundSchedule: bond.sinking is a sequence of dates and of factors *)
(* that do not rise.                                                       *)

EntriesUntil(date) == {k \in DOMAIN bond.sinking : bond.sinking[k].date <= date}

(* Mutant: an entry is in force from the day after.                        *)
FactorBefore(date) ==
  IF EntriesUntil(date - 1) = {} THEN Notional ELSE bond.sinking[Max(EntriesUntil(date - 1))].factor

FactorOn(date) ==
  IF EntriesUntil(date) = {} THEN Notional ELSE bond.sinking[Max(EntriesUntil(date))].factor

EntriesOn(date) == {k \in DOMAIN bond.sinking : bond.sinking[k].date = date}

(* factor_for_payment: of two entries on a date the first one answers.     *)
FactorForPayment(date, default) ==
  IF EntriesOn(date) = {} THEN default ELSE bond.sinking[Min(EntriesOn(date))].factor

(* _build_cashflows: the factor left after each period.  A date without an *)
(* entry of its own keeps the factor, maturity repays all of it.           *)
Outstanding ==
  LET left[i \in 1 .. Len(Unadjusted)] ==
        IF i = 1 THEN Notional
        ELSE FactorForPayment(Unadjusted[i], IF Unadjusted[i] = bond.end THEN 0 ELSE left[i - 1])
  IN  left

PrincipalPaid == [i \in Period |-> Outstanding[i - 1] - Outstanding[i]]

(* to_amortization: what each entry repays, on a schedule date or not.     *)
Amortization ==
  [k \in DOMAIN bond.sinking |->
     (IF k = 1 THEN Notional ELSE bond.sinking[k - 1].factor) - bond.sinking[k].factor]

(* No entry lies between two coupons, and no two on one date.              *)
OnSchedule ==
  \A k \in DOMAIN bond.sinking :
    /\ \E i \in Period : AccrualEnd(i) = bond.sinking[k].date
    /\ EntriesOn(bond.sinking[k].date) = {k}

-----------------------------------------------------------------------------
(* CallSchedule and PutSchedule: bond.calls is a sequence with rising      *)
(* dates; a put schedule is one without protection.                        *)

IsProtected(date) == date < bond.protection_end

NextCallDate(k) == IF k = Len(bond.calls) THEN bond.end ELSE bond.calls[k + 1].date

(* is_exercisable_on: an American window without an end of its own is open *)
(* to the next call date, that one included.                               *)
IsExercisable(k, date) ==
  LET entry == bond.calls[k]
  IN  IF entry.american
      THEN /\ entry.date <= date
           /\ date <= (IF entry.end # NoDate THEN entry.end ELSE NextCallDate(k))
      ELSE date = entry.date

ExercisableEntries(date) ==
  IF IsProtected(date) THEN {} ELSE {k \in DOMAIN bond.calls : IsExercisable(k, date)}

IsCallable(date) == ExercisableEntries(date) # {}

(* entry_for_date: the first one, so that on the call date after an open   *)
(* window the price is still the window's.                                 *)
EntryForDate(date) == Min(ExercisableEntries(date))

(* future_entries, first_call_after and the candidates of yield_to_worst:  *)
(* entries whose own date is still to come.                                *)
FutureEntries(date) == {k \in DOMAIN bond.calls : bond.calls[k].date > date}

CallCandidates(date) ==
  {k \in FutureEntries(date) : ~IsProtected(bond.calls[k].date)}

(* Mutant: the coupon of the call date is left out.                        *)
CouponsBeforeCall(date) == {i \in Period : CouponDate(i) < date}

(* cash_flows_to_call: coupons paid before the call date, and the first    *)
(* one paid on it, with the redemption: there the loop ends.               *)
CouponsToCall(date) ==
  {i \in Period : CouponDate(i) <= date /\ \A j \in Period : j < i => CouponDate(j) < date}

-----------------------------------------------------------------------------
TradesOn(date) ==
  generated /\ date \in bond.start + 1 .. bond.end - 1 /\ IsOpen(bond.calendar, date)
    /\ ~AccruedRaises(date)

(* A stub so short that adjusting leaves nothing of it.                    *)
IsPaidAtItsStart(i) == CouponDate(i) = PayDate(AccrualStart(i))

(* On the days a trade can settle, coupons and accrued interest fit        *)
(* together: a coupon is still to be paid iff its period has not ended, so *)
(* that the buyer pays accrued interest exactly on the coupon he is going  *)
(* to get, but for a stub that is paid together with the coupon before it; *)
(* and once ex-dividend, a period stays so until its coupon is paid.       *)
(* Where accrued_interest raises, all of that is off.                      *)
AccruedFollowsCoupons ==
  TradesOn(today) =>
    /\ CouponsAfter(today) \subseteq {i \in Period : AccrualEnd(i) > today}
    /\ \A i \in Period \ CouponsAfter(today) :
         AccrualEnd(i) > today => IsPaidAtItsStart(i)
    /\ \A i \in ActivePeriod(today) :
         today > bond.start + 1 /\ IsExDividend(i, today - 1) => IsExDividend(i, today)

GrowsTo(share, day_before) ==
  0 <= day_before /\ day_before <= share[1] /\ share[1] <= share[2] /\ 0 < share[2]

(* In a period, stubs included, what has accrued grows day by day and      *)
(* stays below the coupon.                                                 *)
AccruedGrows ==
  TradesOn(today) =>
    \A i \in ActivePeriod(today) :
      GrowsTo(AccruedShare(i, today), AccruedFraction(i, AccrualStart(i), today - 1))

(* accrued_interest has an answer on every day a trade can settle: "Return *)
(* accrued interest for the supplied bond rules".                          *)
AccruedIsDefined ==
  generated /\ IsOpen(bond.calendar, today) => ~AccruedRaises(today)

(* A sinking fund repays its notional, unless it keeps a factor at         *)
(* maturity.  If its entries lie on coupon dates, each on one of its own,  *)
(* interest accrues on the factor the coupon is paid on, and if the last   *)
(* of them is zero, too, the amortization table, which average_life        *)
(* weighs, is the principal of the cash flows, date for date.  (A first    *)
(* regular date after maturity puts another date at the end.)              *)
PrincipalIsRepaid ==
  generated =>
    /\ SumFunction(PrincipalPaid) = Notional - Outstanding[Len(Unadjusted)]
    /\ Last(Unadjusted) = bond.end =>
         /\ Outstanding[Len(Unadjusted)] > 0 =>
              \E k \in EntriesOn(bond.end) : bond.sinking[k].factor > 0
         /\ OnSchedule =>
              /\ \A i \in Period : FactorOn(AccrualStart(i)) = Outstanding[i - 1]
              /\ bond.sinking # << >> /\ Last(bond.sinking).factor = 0 =>
                   \A i \in Period :
                     PrincipalPaid[i] = SumFunctionOnSet(Amortization, EntriesOn(AccrualEnd(i)))

(* Calls on days of settlement: every call that a yield is computed to can *)
(* be exercised on its date, nothing is callable while it is protected, a  *)
(* price in force is that of the last call date reached, or on that date   *)
(* the one before it; and a bond called on an open day has paid just the   *)
(* coupons of the periods that have ended, but for a stub so short that it *)
(* is paid together with the coupon before it.                             *)
CallsAreCoherent ==
  generated =>
    /\ \A k \in CallCandidates(today) : IsCallable(bond.calls[k].date)
    /\ IsCallable(today) =>
         LET reached == {k \in DOMAIN bond.calls : bond.calls[k].date <= today}
             ended   == {i \in Period : AccrualEnd(i) <= today}
         IN  /\ today >= bond.protection_end
             /\ EntryForDate(today) # Max(reached) =>
                  bond.calls[Max(reached)].date = today \/ bond.calls[EntryForDate(today)].end # NoDate
             /\ today <= bond.end /\ IsOpen(bond.calendar, today) /\ ~AccruedRaises(today) =>
                  \A i \in SymDiff(ended, CouponsToCall(today)) : IsPaidAtItsStart(i)

(* Every schedule is generated in the end.                                 *)
ScheduleGenerated == <>generated
=============================================================================
