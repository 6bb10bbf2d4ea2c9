-------------------------------- MODULE MCFlow --------------------------------
(***************************************************************************)
(* What decides when the engine hears of something: the throttle in front  *)
(* of its market data, the end-of-day scheduler and the cron scheduler.    *)
(* They share no state in the code, so that a behaviour is one of a single *)
(* "part", with the variables of the others at rest; the two schedulers    *)
(* have the variables of the loop and the history of emissions in common.  *)
(***************************************************************************)
EXTENDS ThrottledFeed

CONSTANTS CheckInterval, MaxLate, MaxClock, Passed, DayLength, RunTime, MaxForeign, Instant

VARIABLES
  part,
  clock, sleep, running, since, last_run_date, next_run, armed, emitted

Eod == INSTANCE EodScheduler

Cron == INSTANCE CronScheduler

ASSUME PartsAssumption == Eod!EodConstants /\ Cron!CronConstants

scheduling == <<clock, sleep, running, since, last_run_date, next_run, armed, emitted>>

all == <<part, vars, scheduling>>

-----------------------------------------------------------------------------
PartInit ==
  \/ /\ part = "throttle" /\ Init
     /\ Eod!Init /\ next_run = Unset /\ armed = Unset
  \/ part = "eod"  /\ Eod!Init  /\ next_run = Unset /\ armed = Unset /\ Init
  \/ part = "cron" /\ Cron!Init /\ last_run_date = Eod!NoDate /\ Init

PartNext ==
  \/ part = "throttle" /\ Next /\ UNCHANGED <<part, scheduling>>
  \/ part = "eod"  /\ Eod!Next  /\ UNCHANGED <<part, vars, next_run, armed>>
  \/ part = "cron" /\ Cron!Next /\ UNCHANGED <<part, vars, last_run_date>>

PartSpec == PartInit /\ [][PartNext]_all

-----------------------------------------------------------------------------
(* A scheduler emits no more often than it should: EodScheduler once per   *)
(* date, unless a caller's tick for another date comes in between, and     *)
(* CronScheduler once for each instant since the time it was armed with,   *)
(* however ticks of the loop, ticks of callers with any time and restarts  *)
(* interleave.                                                             *)
EmitsOnce ==
  /\ part = "eod" => Eod!TypeOK /\ Eod!TwiceOnlyAcross
  /\ part = "cron" => Cron!TypeOK /\ Cron!OneEmissionPerInstant

(* ... and no less often: no date that EodScheduler's loop is awake for is *)
(* left out, and every instant CronScheduler is armed for is answered by   *)
(* the next check, or ahead of it by a caller's tick with a later time.    *)
NoneMissed ==
  /\ part = "eod" => Eod!Covered
  /\ part = "cron" => Cron!Punctual
=============================================================================
