---------------------------- MODULE EodScheduler ----------------------------
(***************************************************************************)
(* EodScheduler (_runtime/scheduler.py): a periodic loop whose tick emits  *)
(* once the wall clock is past run_time on a date it has not emitted for.  *)
(* _last_run_date outlives stop and start, and is whatever date the last   *)
(* emission was for.  The clock counts from midnight of date 0.            *)
(***************************************************************************)
EXTENDS PeriodicLoop, Sequences, FiniteSetsExt

CONSTANTS
  DayLength,      \* instants of a date
  RunTime,        \* run_time, as an instant of a date
  MaxForeign      \* bound on the emissions for another date than the clock's

VARIABLES
  last_run_date,  \* _last_run_date, NoDate before the first emission
  emitted         \* history: the date of each emission, and that of the clock then

vars == <<loop, last_run_date, emitted>>

NoDate == -1

DateOf(t) == t \div DayLength

EodConstants ==
  /\ LoopConstants
  /\ DayLength \in Nat \ {0} /\ RunTime \in 0 .. DayLength - 1 /\ MaxForeign \in Nat

Emission == [date : Nat, on : Nat]

TypeOK ==
  LoopTypeOK /\ last_run_date \in Nat \cup {NoDate} /\ emitted \in Seq(Emission)

Init == LoopInit /\ last_run_date = NoDate /\ emitted = <<>>

(* Mutant: only later dates count as done.                                 *)
DoneBefore(t) == last_run_date > DateOf(t)

Done(t) == last_run_date = DateOf(t)

Due(t) == ~ Done(t) /\ t % DayLength >= RunTime

(* tick, by the loop or by a caller.                                       *)
Tick(now) ==
  IF Due(now)
  THEN /\ last_run_date' = DateOf(now)
       /\ emitted' = Append(emitted, [date |-> DateOf(now), on |-> DateOf(clock)])
  ELSE UNCHANGED <<last_run_date, emitted>>

(* An emission whose now was not of the clock's date.                      *)
Foreign(e) == e.date # e.on

CallerTicks ==
  \E now \in Nows :
    /\ DateOf(now) # DateOf(clock) =>
         Cardinality({i \in DOMAIN emitted : Foreign(emitted[i])}) < MaxForeign
    /\ Tick(now)
    /\ UNCHANGED loop

Next ==
  \/ CallerTicks
  \/ Tick(clock) /\ LoopWakes
  \/ (StartLoop \/ StopLoop \/ Elapse) /\ UNCHANGED <<last_run_date, emitted>>

Spec == Init /\ [][Next]_vars

-----------------------------------------------------------------------------
(* "Emit once per date" does not hold of callers that pass a time of their *)
(* own: an emission for another date makes the scheduler forget the last.  *)
(* That is the only way to a second emission for a date: the loop, callers *)
(* that tick with the clock's date and restarts, in any order, never emit  *)
(* twice for it.                                                           *)
TwiceOnlyAcross ==
  \A i, j \in DOMAIN emitted :
    i < j /\ emitted[i].date = emitted[j].date => \E k \in i .. j : Foreign(emitted[k])

(* "after the configured end-of-day time": when the loop was started       *)
(* before a date's run time and runs on into the next date, there was an   *)
(* emission for that date, whatever the callers passed meanwhile.          *)
EmittedFor(d) == \E i \in DOMAIN emitted : emitted[i].date = d

NoDateMissed ==
  \A d \in 0 .. DateOf(clock) - 1 :
    running /\ since < d * DayLength + RunTime => EmittedFor(d)

(* It has, as long as the checks are no further apart than the rest of the *)
(* date after the run time.                                                *)
Covered == CheckInterval + MaxLate =< DayLength - RunTime => NoDateMissed

(* The strengthening.  The date that tick compares with is that of the     *)
(* last emission, and so not that of the next; the clock's dates go up.    *)
(* While the loop runs, there is an emission for every date whose run time *)
(* came after it was started and before its last check.                    *)
LastCheck == clock - (CheckInterval - sleep)

DueAt(d) == d * DayLength + RunTime

DatesFollow ==
  /\ last_run_date = IF emitted = <<>> THEN NoDate ELSE emitted[Len(emitted)].date
  /\ \A i, j \in DOMAIN emitted : j = i + 1 => emitted[i].date # emitted[j].date
  /\ \A i, j \in DOMAIN emitted : i < j => emitted[i].on =< emitted[j].on
  /\ \A i \in DOMAIN emitted : emitted[i].on =< DateOf(clock)

ChecksEmit ==
  CheckInterval + MaxLate =< DayLength - RunTime =>
    \A d \in Nat :
      running /\ since < DueAt(d) /\ DueAt(d) =< LastCheck => EmittedFor(d)

IInv == TypeOK /\ DatesFollow /\ (running => since =< LastCheck) /\ ChecksEmit
=============================================================================
