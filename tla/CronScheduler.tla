--------------------------- MODULE CronScheduler ---------------------------
(***************************************************************************)
(* CronScheduler (_runtime/scheduler.py): a periodic loop whose first tick *)
(* computes the next run; later ticks emit once that run has arrived and   *)
(* compute the one after now, so that runs that fell due together are one  *)
(* emission.  _next_run outlives stop and start.  The cron expression is   *)
(* the set of the instants that it names.                                  *)
(***************************************************************************)
EXTENDS PeriodicLoop, Sequences, FiniteSetsExt

CONSTANT Instant  \* the instants the cron expression names

VARIABLES
  next_run,       \* _next_run, Unset before the first tick
  armed,          \* history: the now of the first tick, which computed a next run
  emitted         \* history: the now of each emission, and the clock then

vars == <<loop, next_run, armed, emitted>>

Unset == -1

(* The times that ticks come with.                                        *)
Time == (0 .. MaxClock) \cup Passed

CronConstants ==
  /\ LoopConstants /\ Instant \subseteq Nat
  /\ \A t \in Time : \E d \in Instant : d > t

Emission == [now : Time, at : 0 .. MaxClock]

TypeOK ==
  /\ LoopTypeOK
  /\ next_run \in Instant \cup {Unset}
  /\ armed \in Time \cup {Unset}
  /\ emitted \in Seq(Emission)

Init == LoopInit /\ next_run = Unset /\ armed = Unset /\ emitted = <<>>

(* croniter(expression, base).get_next *)
NextAfter(t) == Min({d \in Instant : d > t})

(* tick, by the loop or by a caller.                                       *)
Tick(now) ==
  \/ /\ next_run = Unset
     /\ next_run' = NextAfter(now)
     /\ armed' = now
     /\ UNCHANGED emitted
  \/ /\ next_run # Unset /\ now < next_run
     /\ UNCHANGED <<next_run, emitted, armed>>
  \/ /\ next_run # Unset /\ now >= next_run
     /\ emitted' = Append(emitted, [now |-> now, at |-> clock])
     /\ next_run' = NextAfter(now)
     /\ UNCHANGED armed

CallerTicks == \E now \in Nows : Tick(now) /\ UNCHANGED loop

Next ==
  \/ CallerTicks
  \/ Tick(clock) /\ LoopWakes
  \/ (StartLoop \/ StopLoop \/ Elapse) /\ UNCHANGED <<next_run, armed, emitted>>

Spec == Init /\ [][Next]_vars

-----------------------------------------------------------------------------
(* Every emission answers an instant of its own: since the time that the   *)
(* scheduler was armed with there are no more emissions up to any time     *)
(* than instants, whatever times the ticks come with, the loop's or a      *)
(* caller's, and however often the loop restarts.                          *)
OneEmissionPerInstant ==
  \A i \in DOMAIN emitted :
    LET t == emitted[i].now IN
    Cardinality({j \in DOMAIN emitted : emitted[j].now =< t}) =<
      Cardinality({d \in Instant : armed < d /\ d =< t})

(* An instant is answered at the next check: within CheckInterval and the  *)
(* loop's lateness, when the loop runs from before the instant and the     *)
(* scheduler was armed with a time before it.  A caller's tick with a      *)
(* later time answers every instant up to that time ahead of the clock:    *)
(* no other emission comes for them.                                       *)
Answered(d) ==
  \E i \in DOMAIN emitted : emitted[i].now >= d /\ emitted[i].at =< d + CheckInterval + MaxLate

RunningBefore(d) == running /\ since < d

Overdue(d) == clock > d + CheckInterval + MaxLate

Punctual ==
  \A d \in Instant :
    RunningBefore(d) /\ Overdue(d) /\ armed # Unset /\ armed < d => Answered(d)

(* The strengthening.  The next run is the first instant after the time of *)
(* the last emission, or after the one the scheduler was armed with: each  *)
(* emission's time is no earlier than the instant it waited for.  Once the *)
(* loop has checked, the scheduler is armed; while it runs, every instant  *)
(* up to its last check is answered.                                       *)
LastCheck == clock - (CheckInterval - sleep)

Before(j) == IF j = 1 THEN armed ELSE emitted[j - 1].now

NextRunFollows ==
  /\ armed = Unset => next_run = Unset /\ emitted = <<>>
  /\ armed # Unset => next_run = NextAfter(Before(Len(emitted) + 1))

EmissionsWait ==
  /\ \A i, j \in DOMAIN emitted : i < j => emitted[i].now < emitted[j].now
  /\ \A j \in DOMAIN emitted :
       /\ armed < emitted[j].now /\ emitted[j].at =< clock
       /\ NextAfter(Before(j)) =< emitted[j].now

ChecksAnswer ==
  \A d \in Instant :
    RunningBefore(d) /\ armed # Unset /\ armed < d /\ d =< LastCheck => Answered(d)

IInv ==
  /\ TypeOK /\ NextRunFollows /\ EmissionsWait
  /\ running => since =< LastCheck
  /\ running /\ since < LastCheck => armed # Unset
  /\ ChecksAnswer
=============================================================================
