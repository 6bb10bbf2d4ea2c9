---------------------------- MODULE PeriodicLoop ----------------------------
(***************************************************************************)
(* The background loop of a scheduler (_BaseScheduler and the _run of its  *)
(* subclasses, _runtime/scheduler.py): sleep for check_interval_seconds,   *)
(* tick, sleep again.                                                      *)
(*                                                                         *)
(* Time is discrete; the loop's sleep may end up to MaxLate late.  Clocks  *)
(* that are set back are left out.  A caller may tick too, at any moment,  *)
(* with a time of its own or, passing none, with the clock's.  What stop   *)
(* and start do to the loop's task when they overlap is in                 *)
(* EngineLifecycle.                                                        *)
(***************************************************************************)
EXTENDS Integers

CONSTANTS
  CheckInterval,  \* check_interval_seconds
  MaxLate,        \* bound on how late the loop wakes
  MaxClock,       \* bound on the clock
  Passed          \* the times that callers pass to tick as now

VARIABLES
  clock,          \* the clock the ticks read
  sleep,          \* what is left of the loop's sleep; below 0 when it is late
  running,        \* whether there is a loop
  since           \* history: when the loop was started

loop == <<clock, sleep, running, since>>

LoopConstants ==
  /\ CheckInterval \in Nat \ {0} /\ MaxLate \in Nat /\ MaxClock \in Nat
  /\ Passed \subseteq Nat

LoopTypeOK ==
  /\ clock \in 0 .. MaxClock
  /\ sleep \in -MaxLate .. CheckInterval
  /\ running \in BOOLEAN
  /\ since \in 0 .. clock

LoopInit == clock = 0 /\ since = 0 /\ sleep = CheckInterval /\ running = FALSE

(* Mutant: every second check is left out.                                 *)
SleepTwice == 2 * CheckInterval

SleepAgain == CheckInterval

(* The now of a caller's tick.                                             *)
Nows == Passed \cup {clock}

(* The sleep ends; the scheduler ticks with the clock's time.              *)
LoopWakes ==
  /\ running /\ sleep =< 0
  /\ sleep' = SleepAgain
  /\ UNCHANGED <<clock, running, since>>

StartLoop ==
  /\ ~ running
  /\ running' = TRUE
  /\ sleep' = CheckInterval
  /\ since' = clock
  /\ UNCHANGED clock

StopLoop ==
  /\ running
  /\ running' = FALSE
  /\ UNCHANGED <<clock, sleep, since>>

Elapse ==
  /\ clock < MaxClock
  /\ running => sleep > -MaxLate
  /\ clock' = clock + 1
  /\ sleep' = IF running THEN sleep - 1 ELSE sleep
  /\ UNCHANGED <<running, since>>
=============================================================================
