-------------------------------- MODULE MCCalls --------------------------------
(***************************************************************************)
(* The two things that a caller of the engine waits for: mark_dirty, whose *)
(* loop walks the graph, and start and stop, which wait for tasks.  They   *)
(* share no state, so that a behaviour is one of mark_dirty, on every      *)
(* graph of three nodes with every root and flag, or one of the lifecycle, *)
(* and "part" tells which.  The calls of mark_dirty that are not           *)
(* Terminating are left out: their stack can grow without bound.           *)
(***************************************************************************)
EXTENDS MarkDirtyLoop, SequencesExt

CONSTANTS Caller, MaxStarts, MaxEvents

VARIABLES
  part,
  running, current, starts, task, relays, subscribed, handle, target, subq, inq,
  caller, consumer, published, handled

Life == INSTANCE EngineLifecycle

(* Calls of start and stop that overlap leave two loops behind: that is   *)
(* the run of EngineLifecycle on its own.                                  *)
ASSUME PartsAssumption == Life!LifecycleConstants /\ Life!OneCaller

MCNodeId == 1 .. 3

MCDescending == [S \in SUBSET MCNodeId |-> SetToSortSeq(S, >)]

lifecycle ==
  <<running, current, starts, task, relays, subscribed, handle, target, subq, inq,
    caller, consumer, published, handled>>

all == <<part, vars, lifecycle>>

-----------------------------------------------------------------------------
LoopAtRest ==
  /\ dependents = [n \in NodeId |-> {}] /\ root = 1
  /\ propagate = FALSE /\ include_self = FALSE
  /\ before = {} /\ stack = <<>> /\ marked = {} /\ dirty = {}

PartInit ==
  \/ part = "mark_dirty" /\ Init /\ Terminating /\ before \in {{}, {1}} /\ Life!Init
  \/ part = "lifecycle" /\ Life!Init /\ LoopAtRest

OfMarkDirty(A) == part = "mark_dirty" /\ A /\ UNCHANGED <<part, lifecycle>>

OfLifecycle(A) == part = "lifecycle" /\ A /\ UNCHANGED <<part, vars>>

PartNext == OfMarkDirty(Next) \/ OfLifecycle(Life!Next)

(* The fairness of both.                                                   *)
PartSpec ==
  /\ PartInit /\ [][PartNext]_all
  /\ WF_all(OfMarkDirty(Next))
  /\ \A t \in Life!Task : WF_all(OfLifecycle(Life!RunTask(t)))
  /\ \A c \in Caller : WF_all(OfLifecycle(Life!Resume(c)))
  /\ WF_all(OfLifecycle(Life!ProcessOnce))
  /\ WF_all(OfLifecycle(Life!ProcessResumes))
  /\ WF_all(OfLifecycle(Life!ProcessTimesOut))

-----------------------------------------------------------------------------
(* EngineLifecycle: a started engine is wired to its newest queue and to   *)
(* one scheduler loop, and a stopped one leaves nothing behind.            *)
CleanStartsAndStops ==
  Life!TypeOK /\ Life!WiredWhenRunning /\ Life!QuietWhenStopped

(* Across restarts, no event is handled twice or out of order.             *)
HandledInOrder == Life!HandledInOrder

(* Every stop returns.                                                     *)
StopReturns == Life!StopReturns

(* What waits in a running engine is handled, unless it is stopped first.  *)
HandledWhileRunning == Life!HandledWhileRunning
=============================================================================
