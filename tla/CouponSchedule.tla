---------------------------- MODULE CouponSchedule ----------------------------
(***************************************************************************)
(* Coupon schedules (bonds/cashflows/schedule.py).  The loop rolls by      *)
(* months from one end to the other, each time from the date it has just   *)
(* reached.  Its list is sorted and freed of duplicates afterwards, and is *)
(* a set of dates here.                                                    *)
(***************************************************************************)
EXTENDS BusinessDays, Sequences, SequencesExt

CONSTANT Bond    \* the bonds: records with the fields of ScheduleConfig and more

MonthsPerPeriod == {1, 3, 6, 12}

(* Without the bonds whose schedule raises; stub_type only chooses the     *)
(* direction.  A date is adjusted by a calendar that is open every month.  *)
IsScheduleConfig(b) ==
  /\ {b.start, b.end} \subseteq Nat /\ b.start < b.end
  /\ b.months \in MonthsPerPeriod
  /\ IsCalendar(b.calendar) /\ OpensEveryMonth(b.calendar) /\ b.convention \in Convention
  /\ b.end_of_month \in BOOLEAN /\ b.front_stub \in BOOLEAN
  /\ {b.first_regular_date, b.penultimate_date} \subseteq Nat

VARIABLES
  bond,        \* the bond at hand
  dates,       \* the unadjusted dates so far
  current,     \* the date the loop has reached
  generated    \* has the loop ended?

schedule == <<bond, dates, current, generated>>

-----------------------------------------------------------------------------
UsesForwardGeneration(b) == b.front_stub \/ b.first_regular_date # NoDate

StartPoint(b) ==
  IF b.first_regular_date # NoDate THEN b.first_regular_date ELSE b.start

(* The date the rolling starts from.                                       *)
Anchor(b) == IF UsesForwardGeneration(b) THEN StartPoint(b) ELSE b.end

(* Mutant: the end of the month is kept only if the date rolled is one.    *)
RolledFromItself(b, date, months) ==
  LET moved == AddMonths(date, months)
  IN  IF b.end_of_month /\ IsEndOfMonth(date) THEN EndOfMonth(moved) ELSE moved

Rolled(b, date, months) ==
  LET moved == AddMonths(date, months)
  IN  IF b.end_of_month /\ IsEndOfMonth(Anchor(b)) THEN EndOfMonth(moved) ELSE moved

ScheduleInit ==
  /\ bond \in Bond
  /\ dates = {bond.start, bond.end, Anchor(bond)}
  /\ current = Anchor(bond)
  /\ generated = FALSE

RollForward ==
  /\ ~generated /\ UsesForwardGeneration(bond)
  /\ current < bond.end
  /\ current' = Rolled(bond, current, bond.months)
  /\ dates' = IF current' < bond.end THEN dates \cup {current'} ELSE dates
  /\ UNCHANGED <<bond, generated>>

(* The penultimate date takes the place of the first date rolled to or     *)
(* past it, and of every one after it: the loop is back at the same date.  *)
RollBackward ==
  /\ ~generated /\ ~UsesForwardGeneration(bond)
  /\ current > bond.start
  /\ LET rolled == Rolled(bond, current, 0 - bond.months)
     IN  current' = IF bond.penultimate_date # NoDate /\ rolled <= bond.penultimate_date
                         /\ rolled > bond.start
                    THEN bond.penultimate_date ELSE rolled
  /\ dates' = IF current' > bond.start THEN dates \cup {current'} ELSE dates
  /\ UNCHANGED <<bond, generated>>

(* Mutant: the loop waits for the very end it rolls to.                    *)
EndOfRegularLoop ==
  /\ ~generated
  /\ current = (IF UsesForwardGeneration(bond) THEN bond.end ELSE bond.start)
  /\ generated' = TRUE
  /\ UNCHANGED <<bond, dates, current>>

EndOfLoop ==
  /\ ~generated
  /\ IF UsesForwardGeneration(bond) THEN current >= bond.end ELSE current <= bond.start
  /\ generated' = TRUE
  /\ UNCHANGED <<bond, dates, current>>

Generate == RollForward \/ RollBackward \/ EndOfLoop

-----------------------------------------------------------------------------
(* The schedule: unadjusted dates in order, payment dates beside them.     *)
Unadjusted ==
  [i \in 1 .. Cardinality(dates) |->
     CHOOSE d \in dates : Cardinality({e \in dates : e <= d}) = i]

PayDate(date) == Adjust(bond.calendar, date, bond.convention)

(* The coupon periods, by the position of the date they end on.            *)
Period == 2 .. Len(Unadjusted)

(* Whole periods between two dates, by the calendar.                       *)
PeriodsApart(b, date) ==
  ((12 * Year(date) + Month(date)) - (12 * Year(Anchor(b)) + Month(Anchor(b)))) \div b.months

(* Rolling adds up: whatever the length of the months on the way, a        *)
(* regular date is at most three days before the anchor's day of its own   *)
(* month, never after it, and exactly there if the anchor's day is one     *)
(* every month has or the end-of-month rule keeps it.  The dates run from  *)
(* the start to the end, if the first regular date lies between them, and  *)
(* their payment dates are in the same order and, if they are adjusted,    *)
(* all on open days.                                                       *)
ScheduleIsRegular ==
  generated =>
    /\ \A date \in dates \ {bond.start, bond.end, Anchor(bond), bond.penultimate_date} :
         LET n      == PeriodsApart(bond, date)
             target == AddMonths(Anchor(bond), n * bond.months)
             kept   == bond.end_of_month /\ IsEndOfMonth(Anchor(bond))
         IN  /\ kept => date = EndOfMonth(target)
             /\ ~kept => date \in target - 3 .. target
             /\ Day(Anchor(bond)) <= 28 /\ ~kept => date = target
    /\ bond.first_regular_date \in {NoDate} \cup bond.start .. bond.end =>
         \A date \in dates : bond.start <= date /\ date <= bond.end
    /\ \A i \in Period :
         /\ PayDate(Unadjusted[i - 1]) <= PayDate(Unadjusted[i])
         /\ bond.convention # "UNADJUSTED" => IsOpen(bond.calendar, PayDate(Unadjusted[i]))
=============================================================================
