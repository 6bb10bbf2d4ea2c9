---------------------------- MODULE FloatingCoupon ----------------------------
(***************************************************************************)
(* The overnight coupon of a floating-rate note (rates/indices.py and      *)
(* bonds/instruments/floating_rate.py) while its fixings are published:    *)
(* which fixing each business day of the accrual period reads, and what is *)
(* projected instead while that fixing is not known.  A rate is where it   *)
(* comes from: a fixing, with its date, or a projection.                   *)
(***************************************************************************)
EXTENDS BusinessDays

CONSTANT Note     \* records as IsNote has them

(* A projected rate, by the forward curve or by the note's current rate:   *)
(* no date.                                                                *)
Curve == 0

CurrentRate == 0 - 1

IsNote(n) ==
  /\ IsCalendar(n.calendar)
  /\ n.start < n.end
  /\ n.shift \in {"NONE", "LOOKBACK", "OBSERVATION_SHIFT"}
  /\ {n.lookback, n.lockout} \subseteq Nat
  /\ n.projection \in {Curve, CurrentRate}

VARIABLES
  note,
  observed,   \* the date that each business day of the period reads
  today,      \* the settlement date that the coupon is asked for
  fixings     \* the dates the index has a fixing for, IndexFixingStore

vars == <<note, observed, today, fixings>>

-----------------------------------------------------------------------------
(* _business_accrual_schedule: a segment per business day, from the day to *)
(* the next one or to the end of the period.                               *)
SegmentStarts(n) == OpenDays(n.calendar, n.start .. n.end - 1)

SegmentEnd(n, day) == Earlier(AddBusinessDays(n.calendar, day, 1), n.end)

(* Observation shifts and lookbacks are the same number of business days.  *)
ObservationDate(n, day) ==
  Preceding(n.calendar,
    IF n.shift = "NONE" THEN day ELSE AddBusinessDays(n.calendar, day, 0 - n.lookback))

(* How far from the end of the schedule a day is, the last being 1.        *)
FromEnd(n, day) == Cardinality({d \in SegmentStarts(n) : d >= day})

(* Mutant: the first day of the lockout is read for all of them.           *)
FirstLockedDay(n, day) ==
  IF n.lockout = 0 \/ FromEnd(n, day) > n.lockout THEN day
  ELSE CHOOSE d \in SegmentStarts(n) :
         FromEnd(n, d) = Min({n.lockout, Cardinality(SegmentStarts(n))})

(* The last days read what the day before them reads (lockout_days, or     *)
(* rate_cutoff_days), all of them the first when they are the whole period.*)
LockedDay(n, day) ==
  IF FromEnd(n, day) > n.lockout THEN day
  ELSE CHOOSE d \in SegmentStarts(n) :
         FromEnd(n, d) = Min({n.lockout + 1, Cardinality(SegmentStarts(n))})

ObservedDates(n) ==
  [day \in SegmentStarts(n) |-> ObservationDate(n, LockedDay(n, day))]

(* Dates are days of year 1 and later.                                     *)
NoteConstants ==
  \A n \in Note :
    /\ IsNote(n) /\ n.start \in Nat /\ n.end \in Nat
    /\ \A day \in SegmentStarts(n) : ObservedDates(n)[day] \in Nat \ {0}

RequiredFixingDates == {observed[day] : day \in DOMAIN observed}

(* Mutant: a fixing is looked up when its date is not over.                *)
KnownFromDate(date) == today - 1 <= date

(* as_of is the day before settlement.                                     *)
Known(date) == date <= today - 1

(* _lookup_or_project_rate.  The note always passes its current reference  *)
(* rate as fallback, so that the look-up never raises.                     *)
Rate(day) ==
  IF Known(observed[day]) /\ observed[day] \in fixings
  THEN observed[day]
  ELSE note.projection

-----------------------------------------------------------------------------
Init ==
  /\ note \in Note
  /\ observed = ObservedDates(note)
  /\ today = note.start
  /\ fixings = {}

(* Settlement is asked for until the coupon is paid and a little longer.   *)
NextDay ==
  /\ today < note.end + 3
  /\ today' = today + 1
  /\ UNCHANGED <<note, observed, fixings>>

(* add_fixing inserts or overwrites: a fixing is published on its date at  *)
(* the earliest, in any order, perhaps never, perhaps again with a value   *)
(* that replaces the one before it.  A rate is told by the date of the     *)
(* fixing it is read from, whatever that fixing says at the time.          *)
AddFixing(date) ==
  /\ date \in RequiredFixingDates
  /\ date <= today
  /\ fixings' = fixings \cup {date}
  /\ UNCHANGED <<note, observed, today>>

Next == NextDay \/ \E date \in RequiredFixingDates : AddFixing(date)

Spec == Init /\ [][Next]_vars

-----------------------------------------------------------------------------
(* The notice that a lookback and a lockout are there to give: when each   *)
(* fixing is published in time, then that many business days before the    *)
(* last day of the period is over the coupon is known, every day of it     *)
(* earning a fixed rate.  When a period starts on a closed day, no segment *)
(* begins there: the days up to the first open one earn nothing.           *)
Notice(n) == (IF n.shift = "NONE" THEN 0 ELSE n.lookback) + n.lockout

FixedDays ==
  UNION {day .. SegmentEnd(note, day) - 1 : day \in {d \in DOMAIN observed : Rate(d) \in fixings}}

CouponKnownAhead ==
  LET last == Max(DOMAIN observed)
  IN  /\ Notice(note) < Cardinality(DOMAIN observed)
      /\ today > AddBusinessDays(note.calendar, last, 0 - Notice(note))
      /\ {d \in RequiredFixingDates : d < today} \subseteq fixings
      => FixedDays = Min(DOMAIN observed) .. note.end - 1

(* A day that has its fixing goes on reading that date's fixing: fixings   *)
(* of other dates, later settlements and the projection never take its     *)
(* place.  (Publishing that very date again does change its value.)        *)
KeepsFixedRates ==
  \A day \in DOMAIN observed : Rate(day) \in fixings => Rate(day)' = Rate(day)

RateSettles == [][KeepsFixedRates]_vars
=============================================================================
