-------------------------- MODULE EngineLifecycle --------------------------
(***************************************************************************)
(* Starting and stopping a ReactiveEngine (_runtime/reactive.py) with one  *)
(* scheduler (_runtime/scheduler.py): the tasks start creates, the queues  *)
(* they move events through, and a stop that suspends while it waits for   *)
(* cancelled tasks to end, so that other callers run in between.           *)
(*                                                                         *)
(* The tasks and queues of the g-th effective start have generation g.  An *)
(* event is its source and a number, in the order of publication; what     *)
(* handling it does is in module ReactiveEngine.  A coroutine runs alone   *)
(* until it suspends; which of those that can run goes next is left open.  *)
(***************************************************************************)
EXTENDS Naturals, Sequences

CONSTANTS
  Caller,       \* the application's tasks that call start and stop
  MaxStarts,    \* bound on the effective starts
  MaxEvents     \* bound on the events published and emitted

LifecycleConstants == MaxStarts \in Nat \ {0} /\ MaxEvents \in Nat

Gen   == 1 .. MaxStarts
Relay == [of : {"market", "scheduler"}, gen : Gen]
Loop  == [of : {"loop"}, gen : Gen]
Task  == Relay \cup Loop
Event == [of : {"market", "scheduler"}, number : 1 .. MaxEvents]

VARIABLES
  running,      \* _running
  current,      \* _incoming_queue: its generation, 0 when None
  starts,       \* the effective starts so far
  task,         \* the state of every asyncio task
  relays,       \* _relay_tasks
  subscribed,   \* _subscriptions, and the subscriber sets of the publishers
  handle,       \* the scheduler's _task: its generation, 0 when None
  target,       \* the queue a relay captured, by generation
  subq,         \* the subscription queues, one per relay
  inq,          \* the incoming queues, one per generation
  caller,       \* where each caller is suspended in stop
  consumer,     \* the incoming queue a process_once waits on, 0 when none does
  published, handled

tasks  == <<task, target>>
queues == <<subq, inq>>
wiring == <<current, relays, subscribed>>
data   == <<consumer, published, handled>>
vars   == <<running, starts, handle, tasks, queues, wiring, caller, data>>

(* A created task has not run yet, a parked one waits in queue.get or      *)
(* sleep, a cancelling one was cancelled and has not run since.            *)
TaskState == {"none", "created", "parked", "cancelling", "done"}

Idle == [at |-> "idle"]

CallerState ==
  {Idle} \cup [at : {"scheduler"}, on : Loop]
         \cup [at : {"relay"}, on : Relay, index : 1 .. 2 * MaxStarts]

TypeOK ==
  /\ running \in BOOLEAN
  /\ current \in 0 .. MaxStarts /\ starts \in 0 .. MaxStarts /\ handle \in 0 .. MaxStarts
  /\ task \in [Task -> TaskState] /\ target \in [Relay -> 0 .. MaxStarts]
  /\ relays \in Seq(Relay) /\ subscribed \subseteq Relay
  /\ subq \in [Relay -> Seq(Event)] /\ inq \in [Gen -> Seq(Event)]
  /\ caller \in [Caller -> CallerState]
  /\ consumer \in 0 .. MaxStarts
  /\ published \in 0 .. MaxEvents /\ handled \in Seq(Event)

Init ==
  /\ running = FALSE /\ current = 0 /\ starts = 0 /\ handle = 0
  /\ task = [t \in Task |-> "none"] /\ target = [r \in Relay |-> 0]
  /\ relays = <<>> /\ subscribed = {}
  /\ subq = [r \in Relay |-> <<>>] /\ inq = [g \in Gen |-> <<>>]
  /\ caller = [c \in Caller |-> Idle]
  /\ consumer = 0 /\ published = 0 /\ handled = <<>>

Live(t) == task[t] \in {"created", "parked"}

Member(s) == {s[i] : i \in 1 .. Len(s)}

RelayOf(of, g) == [of |-> of, gen |-> g]
LoopOf(g)      == [of |-> "loop", gen |-> g]

-----------------------------------------------------------------------------
(* start never suspends; on a running engine it returns at once.  The      *)
(* scheduler keeps the loop its handle names unless that one has ended.    *)
LoopRunning == handle # 0 /\ task[LoopOf(handle)] # "done"

Created(g) ==
  {RelayOf("market", g), RelayOf("scheduler", g)}
    \cup (IF LoopRunning THEN {} ELSE {LoopOf(g)})

Start(c) ==
  /\ caller[c] = Idle
  /\ ~running /\ starts < MaxStarts
  /\ LET g == starts + 1
     IN  /\ starts' = g /\ running' = TRUE /\ current' = g
         /\ subscribed' = subscribed \cup {RelayOf("market", g), RelayOf("scheduler", g)}
         /\ relays' = relays \o <<RelayOf("market", g), RelayOf("scheduler", g)>>
         /\ handle' = IF LoopRunning THEN handle ELSE g
         /\ task' = [t \in Task |-> IF t \in Created(g) THEN "created" ELSE task[t]]
  /\ UNCHANGED <<target, queues, caller, data>>

(* Mutant: the tasks are awaited without being cancelled.                  *)
CancelNothing(ts, S) == ts

(* stop: cancelling a task that has ended does nothing.                    *)
Cancel(ts, S) ==
  [t \in Task |-> IF t \in S /\ ts[t] \notin {"none", "done"} THEN "cancelling" ELSE ts[t]]

(* The second half of stop waits for the relays, from position i of the    *)
(* list as it is now, and lets go of everything when all of them ended.    *)
AwaitRelays(c, ts, i) ==
  \/ \E j \in i .. Len(relays) :
       /\ ts[relays[j]] # "done"
       /\ \A k \in i .. j - 1 : ts[relays[k]] = "done"
       /\ caller' = [caller EXCEPT ![c] = [at |-> "relay", on |-> relays[j], index |-> j]]
       /\ UNCHANGED wiring
  \/ /\ \A k \in i .. Len(relays) : ts[relays[k]] = "done"
     /\ caller' = [caller EXCEPT ![c] = Idle]
     /\ relays' = <<>> /\ subscribed' = {} /\ current' = 0

StopRelays(c) ==
  /\ task' = Cancel(task, Member(relays))
  /\ AwaitRelays(c, task', 1)

(* The scheduler's stop suspends on its loop, if it has one.               *)
Stop(c) ==
  /\ caller[c] = Idle
  /\ running
  /\ running' = FALSE
  /\ \/ /\ LoopRunning
        /\ task' = Cancel(task, {LoopOf(handle)})
        /\ caller' = [caller EXCEPT ![c] = [at |-> "scheduler", on |-> LoopOf(handle)]]
        /\ UNCHANGED <<handle, wiring>>
     \/ /\ ~LoopRunning
        /\ handle' = 0
        /\ StopRelays(c)
  /\ UNCHANGED <<starts, target, queues, data>>

(* Mutant: the handle keeps naming the cancelled loop.                     *)
SchedulerStoppedKeepsHandle(c) ==
  /\ caller[c].at = "scheduler" /\ task[caller[c].on] = "done"
  /\ StopRelays(c)
  /\ UNCHANGED <<running, starts, handle, target, queues, data>>

(* The loop has ended: whatever the handle names now, it is cleared.       *)
SchedulerStopped(c) ==
  /\ caller[c].at = "scheduler" /\ task[caller[c].on] = "done"
  /\ handle' = 0
  /\ StopRelays(c)
  /\ UNCHANGED <<running, starts, target, queues, data>>

RelayStopped(c) ==
  /\ caller[c].at = "relay" /\ task[caller[c].on] = "done"
  /\ AwaitRelays(c, task, caller[c].index + 1)
  /\ UNCHANGED <<running, starts, handle, tasks, queues, data>>

-----------------------------------------------------------------------------
(* The tasks.  A relay captures the incoming queue when it first runs, and *)
(* suspends only when its subscription queue is empty.                     *)
MoveInFront(r, g) ==      \* mutant: the newest items go first
  /\ inq' = [inq EXCEPT ![g] = subq[r] \o @]
  /\ subq' = [subq EXCEPT ![r] = <<>>]

MoveAll(r, g) ==
  /\ inq' = [inq EXCEPT ![g] = @ \o subq[r]]
  /\ subq' = [subq EXCEPT ![r] = <<>>]

RelayBegins(r) ==
  /\ task[r] = "created"
  /\ target' = [target EXCEPT ![r] = current]
  /\ \/ /\ current = 0
        /\ task' = [task EXCEPT ![r] = "done"]
        /\ UNCHANGED queues
     \/ /\ current # 0
        /\ task' = [task EXCEPT ![r] = "parked"]
        /\ MoveAll(r, current)
  /\ UNCHANGED <<running, starts, handle, wiring, caller, data>>

RelayMoves(r) ==
  /\ task[r] = "parked" /\ subq[r] # <<>>
  /\ MoveAll(r, target[r])
  /\ UNCHANGED <<running, starts, handle, tasks, wiring, caller, data>>

LoopBegins(t) ==
  /\ task[t] = "created"
  /\ task' = [task EXCEPT ![t] = "parked"]
  /\ UNCHANGED <<running, starts, handle, target, queues, wiring, caller, data>>

(* CancelledError ends a task; what its queue holds stays there.           *)
TaskEnds(t) ==
  /\ task[t] = "cancelling"
  /\ task' = [task EXCEPT ![t] = "done"]
  /\ UNCHANGED <<running, starts, handle, target, queues, wiring, caller, data>>

(* An event goes to every queue subscribed to its publisher.               *)
FanOut(of) ==
  /\ published < MaxEvents
  /\ published' = published + 1
  /\ subq' = [r \in Relay |->
                IF r \in subscribed /\ r.of = of
                THEN Append(subq[r], [of |-> of, number |-> published + 1])
                ELSE subq[r]]
  /\ UNCHANGED <<running, starts, handle, tasks, inq, wiring, caller, consumer, handled>>

LoopTicks(t) == task[t] = "parked" /\ FanOut("scheduler")

PublishMarketDataUpdate == FanOut("market")

-----------------------------------------------------------------------------
(* process_once holds on to the queue it found, and refuses to run without *)
(* one.  A timeout leaves the queue as it is.                              *)
Take(g) ==
  /\ handled' = Append(handled, Head(inq[g]))
  /\ inq' = [inq EXCEPT ![g] = Tail(@)]
  /\ consumer' = 0

engine == <<running, starts, handle, tasks, wiring, caller>>

ProcessOnce ==
  /\ consumer = 0 /\ current # 0
  /\ \/ inq[current] # <<>> /\ Take(current)
     \/ inq[current] = <<>> /\ consumer' = current /\ UNCHANGED <<handled, inq>>
  /\ UNCHANGED <<engine, subq, published>>

ProcessResumes ==
  /\ consumer # 0 /\ inq[consumer] # <<>>
  /\ Take(consumer)
  /\ UNCHANGED <<engine, subq, published>>

(* Mutant: after a timeout the consumer waits on the queue it knows.       *)
ProcessKeepsQueue ==
  /\ consumer # 0
  /\ UNCHANGED vars

ProcessTimesOut ==
  /\ consumer # 0
  /\ consumer' = 0
  /\ UNCHANGED <<engine, queues, published, handled>>

Calls  == \E c \in Caller : Start(c) \/ Stop(c)
Resume(c) == SchedulerStopped(c) \/ RelayStopped(c)
RunTask(t) ==
  \/ t \in Relay /\ (RelayBegins(t) \/ RelayMoves(t))
  \/ t \in Loop /\ LoopBegins(t)
  \/ TaskEnds(t)
Events == PublishMarketDataUpdate \/ \E t \in Loop : LoopTicks(t)
Consume == ProcessOnce \/ ProcessResumes \/ ProcessTimesOut

Next ==
  \/ Calls
  \/ \E c \in Caller : Resume(c)
  \/ \E t \in Task : RunTask(t)
  \/ Events
  \/ Consume

Spec == Init /\ [][Next]_vars

(* The event loop runs every task and caller that can go on, and the       *)
(* application keeps calling process_once, with a timeout.                 *)
Fairness ==
  /\ \A t \in Task : WF_vars(RunTask(t))
  /\ \A c \in Caller : WF_vars(Resume(c))
  /\ WF_vars(ProcessOnce) /\ WF_vars(ProcessResumes)
  /\ WF_vars(ProcessTimesOut)

LiveSpec == Spec /\ Fairness

-----------------------------------------------------------------------------
Stopping == \E c \in Caller : caller[c] # Idle

(* A started engine is wired: each subscription of its generation has one  *)
(* live relay, which delivers to the queue process_once reads, and one     *)
(* scheduler loop runs, the one the handle can cancel.                     *)
WiredWhenRunning ==
  running =>
    /\ current = starts
    /\ subscribed = Member(relays) /\ Len(relays) = 2
    /\ \A r \in subscribed : /\ Live(r) /\ r.gen = current
                             /\ task[r] = "parked" => target[r] = current
    /\ handle # 0
    /\ {t \in Loop : Live(t)} = {LoopOf(handle)}

(* A stopped engine leaves nothing behind: no task that could still run,   *)
(* no subscription that would collect events for nobody, no handle.        *)
QuietWhenStopped ==
  ~running /\ ~Stopping =>
    /\ current = 0 /\ handle = 0 /\ relays = <<>> /\ subscribed = {}
    /\ \A t \in Task : task[t] \in {"none", "done"}

(* Across restarts no event is handled twice, and those of one source are  *)
(* handled in the order of publication: nothing a stop left in a queue     *)
(* comes back later.                                                       *)
HandledInOrder ==
  \A i, j \in 1 .. Len(handled) :
    i < j /\ handled[i].of = handled[j].of => handled[i].number < handled[j].number

(* The argument for both, when the calls of start and stop do not overlap: *)
(* the engine is running, or stopped, or one stop waits for the scheduler  *)
(* loop or for a relay of the last start.                                  *)
OneCaller == \A c, d \in Caller : c = d

RelaysOf(g) == {RelayOf("market", g), RelayOf("scheduler", g)}

Ended(t) == task[t] \in {"none", "done"}

Ending(t) == task[t] \in {"cancelling", "done"}

Bound(g) ==
  /\ g \in Gen /\ current = g /\ subscribed = RelaysOf(g)
  /\ relays = <<RelayOf("market", g), RelayOf("scheduler", g)>>
  /\ \A t \in Task \ (RelaysOf(g) \cup {LoopOf(g)}) : Ended(t)

RelaysDeliver(g) == \A r \in RelaysOf(g) : Live(r) /\ (task[r] = "parked" => target[r] = g)

IsRunning(g) ==
  /\ running /\ ~ Stopping
  /\ Bound(g) /\ RelaysDeliver(g) /\ handle = g /\ Live(LoopOf(g))

IsStopped ==
  /\ ~ running /\ ~ Stopping
  /\ current = 0 /\ handle = 0 /\ relays = <<>> /\ subscribed = {}
  /\ \A t \in Task : Ended(t)

WaitsForScheduler(c, g) ==
  /\ ~ running /\ caller[c] = [at |-> "scheduler", on |-> LoopOf(g)]
  /\ Bound(g) /\ RelaysDeliver(g) /\ handle = g /\ Ending(LoopOf(g))

WaitsForRelay(c, g) ==
  /\ ~ running
  /\ \E i \in {1, 2} : /\ caller[c] = [at |-> "relay", on |-> relays[i], index |-> i]
                       /\ i = 2 => task[RelayOf("market", g)] = "done"
  /\ Bound(g) /\ handle = 0 /\ task[LoopOf(g)] = "done" /\ \A r \in RelaysOf(g) : Ending(r)

Phases ==
  \/ IsRunning(starts)
  \/ IsStopped
  \/ \E c \in Caller : WaitsForScheduler(c, starts) \/ WaitsForRelay(c, starts)

(* Events were published in the order of the generations, and in each of   *)
(* them those in the incoming queue before those in the subscription       *)
(* queues.  What process_once can still come to read was published after   *)
(* all that it has read.                                                   *)
Rising(q) ==
  \A i, j \in 1 .. Len(q) : i < j /\ q[i].of = q[j].of => q[i].number < q[j].number

Precedes(p, q) ==
  \A i \in 1 .. Len(p), j \in 1 .. Len(q) : p[i].of = q[j].of => p[i].number < q[j].number

UpTo(q, n) == \A i \in 1 .. Len(q) : q[i].number =< n

Reads(g) ==
  IF consumer # 0 THEN consumer =< g ELSE IF current # 0 THEN current =< g ELSE starts < g

QueueInOrder(g) ==
  /\ Rising(inq[g]) /\ UpTo(inq[g], published)
  /\ g > starts => inq[g] = <<>>
  /\ Reads(g) => Precedes(handled, inq[g])
  /\ \A h \in Gen : g < h => Precedes(inq[g], inq[h])

RelayInOrder(r) ==
  /\ Rising(subq[r]) /\ UpTo(subq[r], published)
  /\ \A i \in 1 .. Len(subq[r]) : subq[r][i].of = r.of
  /\ r.gen > starts => subq[r] = <<>>
  /\ Reads(r.gen) => Precedes(handled, subq[r])
  /\ \A g \in Gen : g =< r.gen => Precedes(inq[g], subq[r])

InOrder ==
  /\ consumer =< starts
  /\ Rising(handled) /\ UpTo(handled, published)
  /\ \A g \in Gen : QueueInOrder(g)
  /\ \A r \in Relay : RelayInOrder(r)

IInv == TypeOK /\ Phases /\ InOrder

(* Every stop returns.                                                     *)
StopReturns == \A c \in Caller : caller[c] # Idle ~> caller[c] = Idle

(* An event that waits for a relay or for process_once in the engine's     *)
(* current generation is handled, unless the engine is stopped first: a    *)
(* restart does not leave the consumer on the old queue.                   *)
Waiting(e) ==
  /\ running
  /\ \/ \E r \in subscribed : e \in Member(subq[r])
     \/ e \in Member(inq[current])

HandledWhileRunning == \A e \in Event : Waiting(e) ~> e \in Member(handled) \/ ~running

(* The scheduler has at most one loop (start: "if it is not already        *)
(* running").                                                              *)
OneLoop == \A t, u \in Loop : Live(t) /\ Live(u) => t = u
=============================================================================
