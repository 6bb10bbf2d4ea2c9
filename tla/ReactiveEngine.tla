-------------------------- MODULE ReactiveEngine --------------------------
(***************************************************************************)
(* The data path of a started ReactiveEngine (_runtime/reactive.py): the   *)
(* market-data publisher and a scheduler fill one subscription queue each, *)
(* a relay task moves the items of each to the incoming queue, and         *)
(* process_once applies one item to the caches and the graph, prices every *)
(* dirty pricing node in the order of the node ids, and fans the results   *)
(* out.  A coroutine runs alone until it suspends, and here only the get   *)
(* of an empty queue suspends, so each of these is one step.               *)
(*                                                                         *)
(* A quote or a fixing is its version: the number of updates published for *)
(* its node so far.  An instrument is named by its quote node.  A price is *)
(* the market data the router saw and whether the router succeeded.        *)
(* start and stop are in module EngineLifecycle.                           *)
(***************************************************************************)
EXTENDS CalcGraph, Sequences

CONSTANTS
  QuoteNode, FixingNode,    \* quote:<instrument> and fixing:<index>:<date> nodes
  PricingId,                \* the ids pricing nodes are registered under
  Rank,                     \* the order of the node ids
  Registration,             \* the calls of register_pricing_node, as records
  SchedulerNode,            \* the nodes the scheduler was created with
  BaseQuote,                \* instruments the caller's market data quotes
  BaseReference,            \* instruments the reference provider describes
  ReferenceMayRaise,        \* instruments whose lookup at the provider may raise
  PublisherMayRaise,        \* the output publisher may raise
  Subscriber,               \* the queues of subscribe_updates
  MaxVersion, MaxEmitted    \* bounds on the updates published and emitted

MarketNode == QuoteNode \cup FixingNode

Input == [instrument : QuoteNode, by_id : BOOLEAN, has_curve : BOOLEAN]

ASSUME NodeAssumption ==
  /\ MarketNode \subseteq NodeId /\ PricingId \subseteq NodeId
  /\ MarketNode \cap PricingId = {}
  /\ SchedulerNode \subseteq NodeId
  /\ Rank \in [NodeId -> Nat]
  /\ \A m, n \in NodeId : Rank[m] = Rank[n] => m = n
ASSUME RegistrationAssumption ==
  Registration \subseteq [node : PricingId, input : Input, deps : SUBSET NodeId]
ASSUME ProviderAssumption ==
  /\ BaseQuote \subseteq QuoteNode /\ BaseReference \subseteq QuoteNode
  /\ ReferenceMayRaise \subseteq QuoteNode /\ PublisherMayRaise \in BOOLEAN
ASSUME BoundAssumption == MaxVersion \in Nat /\ MaxEmitted \in Nat

Result == [read : [MarketNode -> Nat], upstream : SUBSET MarketNode, priced : BOOLEAN]

MarketValue == [version : Nat]

ASSUME ValueAssumption == NoValue \notin NodeId \cup Result \cup Input \cup MarketValue

VARIABLES
  graph,          \* calc_graph
  pricing,        \* _pricing_nodes
  overlay,        \* the overlay's quote and fixing sources; 0 is absent
  reference,      \* the instruments in _reference_cache
  sent, emitted,  \* updates published per market node, ticks emitted
  market_queue, scheduler_queue,      \* the subscription queues
  incoming,       \* _incoming_queue
  handled,        \* the number of calls of process_once
  outputs,        \* the last output that went through both publish calls
  subscribed,     \* _subscribers
  view            \* what a subscriber knows of each pricing node

sources  == <<sent, emitted, market_queue, scheduler_queue>>
engine   == <<graph, pricing, overlay, reference, handled, outputs>>
clients  == <<subscribed, view>>
vars     == <<sources, incoming, engine, clients>>

MarketEvent    == [kind : {"market"}, node : MarketNode, version : Nat]
SchedulerEvent == [kind : {"scheduler"}, node : SchedulerNode]

TypeOK ==
  /\ graph \in Graph(MarketValue \cup Result)
  /\ \A p \in PricingId : graph.cached[p] \in Result \cup {NoValue}
  /\ pricing \in [PricingId -> Input \cup {NoValue}]
  /\ overlay \in [MarketNode -> Nat]
  /\ reference \in SUBSET QuoteNode
  /\ sent \in [MarketNode -> Nat] /\ emitted \in Nat
  /\ market_queue \in Seq(MarketEvent)
  /\ scheduler_queue \in Seq(SchedulerEvent)
  /\ incoming \in Seq(MarketEvent \cup SchedulerEvent)
  /\ handled \in Nat
  /\ outputs \in [PricingId -> Result \cup {NoValue}]
  /\ subscribed \in SUBSET Subscriber
  /\ view \in [Subscriber -> [PricingId -> Result \cup {NoValue}]]

Init ==
  /\ graph = EmptyGraph
  /\ pricing = [p \in PricingId |-> NoValue]
  /\ overlay = [m \in MarketNode |-> 0]
  /\ reference = {}
  /\ sent = [m \in MarketNode |-> 0] /\ emitted = 0
  /\ market_queue = <<>> /\ scheduler_queue = <<>> /\ incoming = <<>>
  /\ handled = 0
  /\ outputs = [p \in PricingId |-> NoValue]
  /\ subscribed = {}
  /\ view = [c \in Subscriber |-> [p \in PricingId |-> NoValue]]

-----------------------------------------------------------------------------
(* The producers and the relays.                                           *)

PublishMarketDataUpdate(m) ==
  /\ sent[m] < MaxVersion
  /\ sent' = [sent EXCEPT ![m] = @ + 1]
  /\ market_queue' =
       Append(market_queue, [kind |-> "market", node |-> m, version |-> sent[m] + 1])
  /\ UNCHANGED <<emitted, scheduler_queue, incoming, engine, clients>>

SchedulerEmit(n) ==
  /\ emitted < MaxEmitted
  /\ emitted' = emitted + 1
  /\ scheduler_queue' = Append(scheduler_queue, [kind |-> "scheduler", node |-> n])
  /\ UNCHANGED <<sent, market_queue, incoming, engine, clients>>

(* Mutant: a relay puts its items in front of those that wait.             *)
RelayMarketDataAhead ==
  /\ market_queue # <<>>
  /\ incoming' = market_queue \o incoming
  /\ market_queue' = <<>>
  /\ UNCHANGED <<sent, emitted, scheduler_queue, engine, clients>>

(* A woken relay suspends only at an empty queue: it moves all the items.  *)
RelayMarketData ==
  /\ market_queue # <<>>
  /\ incoming' = incoming \o market_queue
  /\ market_queue' = <<>>
  /\ UNCHANGED <<sent, emitted, scheduler_queue, engine, clients>>

RelayScheduler ==
  /\ scheduler_queue # <<>>
  /\ incoming' = incoming \o scheduler_queue
  /\ scheduler_queue' = <<>>
  /\ UNCHANGED <<sent, emitted, market_queue, engine, clients>>

-----------------------------------------------------------------------------
(* The application's calls between two events.                             *)

AddDependencies(g, n, deps) ==
  [g EXCEPT !.nodes = @ \cup {n} \cup deps,
            !.dependencies[n] = @ \cup deps,
            !.dependents = [m \in NodeId |-> IF m \in deps THEN @[m] \cup {n} ELSE @[m]]]

(* The quote of the input's instrument is an inferred dependency.  The     *)
(* node is not marked dirty, and an earlier input's edges stay.            *)
RegisterPricingNode(r) ==
  /\ pricing' = [pricing EXCEPT ![r.node] = r.input]
  /\ graph' = AddDependencies(graph, r.node, {r.input.instrument} \cup r.deps)
  /\ UNCHANGED <<sources, incoming, overlay, reference, handled, outputs, clients>>

CacheReferenceData(i) ==
  /\ reference' = reference \cup {i}
  /\ UNCHANGED <<sources, incoming, graph, pricing, overlay, handled, outputs, clients>>

(* A client that reads the graph when it subscribes, and then follows the  *)
(* updates of its queue.                                                   *)
SubscribeUpdates(c) ==
  /\ c \notin subscribed
  /\ subscribed' = subscribed \cup {c}
  /\ view' = [view EXCEPT ![c] = [p \in PricingId |-> graph.cached[p]]]
  /\ UNCHANGED <<sources, incoming, engine>>

UnsubscribeUpdates(c) ==
  /\ c \in subscribed
  /\ subscribed' = subscribed \ {c}
  /\ view' = [view EXCEPT ![c] = [p \in PricingId |-> NoValue]]
  /\ UNCHANGED <<sources, incoming, engine>>

-----------------------------------------------------------------------------
(* process_once.                                                           *)

(* The listener: a market update is stored in its source, cached as the    *)
(* node's value, and dirties the node's dependents; a scheduler update     *)
(* dirties the node as well.                                               *)
OverlayAfter(e) ==
  IF e.kind = "market" THEN [overlay EXCEPT ![e.node] = e.version] ELSE overlay

GraphAfter(e) ==
  IF e.kind = "market"
  THEN MarkDependentsDirty(UpdateNodeValue(graph, e.node, [version |-> e.version]), e.node)
  ELSE MarkDirty(graph, e.node)

(* Mutant: a node that has a price is not priced again.                    *)
BatchOfUnpriced(g) ==
  {p \in QueryDirty(g) \cap PricingId : pricing[p] # NoValue /\ g.cached[p] = NoValue}

(* The dirty nodes that have a pricing input; the other dirty nodes are    *)
(* skipped and stay dirty.                                                 *)
Batch(g) == {p \in QueryDirty(g) \cap PricingId : pricing[p] # NoValue}

(* What ends a batch early: an exception from the reference provider,      *)
(* which is asked before _price_input's try, or from the output publisher, *)
(* which is called after the node's value is stored.                       *)
NoFault == [at |-> NoValue, when |-> "never"]

MayBePriced(p, ov) ==
  /\ pricing[p].by_id => pricing[p].instrument \in reference \cup BaseReference
  /\ \/ ov[pricing[p].instrument] > 0
     \/ pricing[p].instrument \in BaseQuote
     \/ pricing[p].has_curve

AskedBefore(p, batch) ==
  {pricing[q].instrument : q \in {q \in batch : Rank[q] < Rank[p]}}

MayRaise(p, batch) ==
  pricing[p].instrument \in
     ReferenceMayRaise \ (reference \cup (AskedBefore(p, batch) \cap BaseReference))

Fault(batch, ov) ==
  {NoFault}
    \cup [at : {p \in batch : MayRaise(p, batch)}, when : {"resolving"}]
    \cup [at : {p \in batch : PublisherMayRaise /\ MayBePriced(p, ov)},
          when : {"publishing"}]

(* Mutant: one node per event.                                             *)
StoredFirstOnly(batch, fault) == {p \in batch : \A q \in batch : Rank[p] <= Rank[q]}

(* The nodes whose value the batch stores, and those it publishes.         *)
Stored(batch, fault) ==
  IF fault = NoFault THEN batch
  ELSE {p \in batch : \/ Rank[p] < Rank[fault.at]
                      \/ p = fault.at /\ fault.when = "publishing"}

(* Mutant: the price is read before the event reaches the overlay.         *)
PriceFromOldOverlay(p, g, ov) ==
  [ read     |-> overlay,
    upstream |-> {m \in MarketNode : p \in Downstream(g.dependents, m)},
    priced   |-> MayBePriced(p, overlay) ]

Price(p, g, ov) ==
  [ read     |-> ov,
    upstream |-> {m \in MarketNode : p \in Downstream(g.dependents, m)},
    priced   |-> MayBePriced(p, ov) ]

(* Mutant: the dirty flags are cleared when the batch begins.              *)
StorePricesAndClean(g, ov, done) ==
  [g EXCEPT
     !.cached = [n \in NodeId |-> IF n \in done THEN Price(n, g, ov) ELSE @[n]],
     !.dirty  = @ \ Batch(g)]

(* No node's price depends on another's, so storing them one after the     *)
(* other is storing them together.                                         *)
StorePrices(g, ov, done) ==
  [g EXCEPT
     !.cached = [n \in NodeId |-> IF n \in done THEN Price(n, g, ov) ELSE @[n]],
     !.dirty  = @ \ done]

(* What the other components learn: the reference cache keeps each answer  *)
(* of the provider; an output is published when neither publish call       *)
(* raised; the updates go to the subscriber queues when the batch ended.   *)
ReferenceAfter(done) ==
  reference \cup ({pricing[p].instrument : p \in done} \cap BaseReference)

(* Mutant: the value before the update is published.                       *)
OutputsBefore(after, ov, done, fault) ==
  [p \in PricingId |->
     IF p \in done \ {fault.at} /\ MayBePriced(p, ov)
     THEN graph.cached[p] ELSE outputs[p]]

OutputsAfter(after, ov, done, fault) ==
  [p \in PricingId |->
     IF p \in done \ {fault.at} /\ MayBePriced(p, ov)
     THEN after.cached[p] ELSE outputs[p]]

(* Mutant: subscribers hear of successes only.                             *)
ViewOfSuccesses(after, done, fault) ==
  [c \in Subscriber |-> [p \in PricingId |->
     IF c \in subscribed /\ p \in done /\ fault = NoFault /\ after.cached[p].priced
     THEN after.cached[p] ELSE view[c][p]]]

ViewAfter(after, done, fault) ==
  [c \in Subscriber |-> [p \in PricingId |->
     IF c \in subscribed /\ p \in done /\ fault = NoFault
     THEN after.cached[p] ELSE view[c][p]]]

ProcessOnce(fault) ==
  /\ incoming # <<>>
  /\ incoming' = Tail(incoming)
  /\ LET e     == Head(incoming)
         g     == GraphAfter(e)
         ov    == OverlayAfter(e)
         done  == Stored(Batch(g), fault)
         after == StorePrices(g, ov, done)
     IN  /\ fault \in Fault(Batch(g), ov)
         /\ overlay' = ov
         /\ graph' = after
         /\ reference' = ReferenceAfter(done)
         /\ outputs' = OutputsAfter(after, ov, done, fault)
         /\ view' = ViewAfter(after, done, fault)
  /\ handled' = handled + 1
  /\ UNCHANGED <<sources, pricing, subscribed>>

AnyFault == {NoFault} \cup [at : PricingId, when : {"resolving", "publishing"}]

Producer ==
  \/ \E m \in MarketNode : PublishMarketDataUpdate(m)
  \/ \E n \in SchedulerNode : SchedulerEmit(n)

Relay == RelayMarketData \/ RelayScheduler

Application ==
  \/ \E r \in Registration : RegisterPricingNode(r)
  \/ \E i \in QuoteNode : CacheReferenceData(i)
  \/ \E c \in Subscriber : SubscribeUpdates(c) \/ UnsubscribeUpdates(c)

Next == Producer \/ Relay \/ Application \/ \E fault \in AnyFault : ProcessOnce(fault)

Spec == Init /\ [][Next]_vars

(* The event loop runs every relay task that has an item, and the          *)
(* application keeps calling process_once.                                 *)
Fairness ==
  /\ WF_vars(RelayMarketData)
  /\ WF_vars(RelayScheduler)
  /\ WF_vars(\E fault \in AnyFault : ProcessOnce(fault))

LiveSpec == Spec /\ Fairness

-----------------------------------------------------------------------------
(* The engine keeps the contract of FreshPrices: an update of a quote or   *)
(* fixing leaves every result below it repriced or dirty (listener and     *)
(* _evaluate_dirty_pricing_nodes together).                                *)
FP == INSTANCE FreshPrices WITH
        Series   <- MarketNode,
        Item     <- PricingId,
        NoResult <- NoValue,
        latest   <- overlay,
        board    <- [p \in PricingId |-> graph.cached[p]],
        stale    <- graph.dirty \cap PricingId

KeepsPricesFresh == FP!FSpec

(* A pricing node that is not dirty was priced from the market data in the *)
(* overlay, for every series above it in the graph, however many edges     *)
(* away: nothing goes stale unnoticed.                                     *)
Fresh == FP!BoardFresh

(* No update is lost, duplicated or reordered on the way from              *)
(* publish_market_data_update to the overlay: of the versions of a series, *)
(* those after the applied one are on the way, in order, once each.        *)
SameSeries(e, f) == e.kind = "market" /\ f.kind = "market" /\ e.node = f.node

Newer(q) ==
  \A i \in 1 .. Len(q) : q[i].kind = "market" =>
    overlay[q[i].node] < q[i].version /\ q[i].version <= sent[q[i].node]

Ascending(q) ==
  \A i, j \in 1 .. Len(q) :
    i < j /\ SameSeries(q[i], q[j]) => q[i].version < q[j].version

Holds(q, m, v) == \E i \in 1 .. Len(q) : q[i] = [kind |-> "market", node |-> m, version |-> v]

AppliedInOrder ==
  LET way == incoming \o market_queue
  IN  /\ Newer(way) /\ Ascending(way)
      /\ \A m \in MarketNode : \A v \in overlay[m] + 1 .. sent[m] : Holds(way, m, v)

(* The strengthening the proofs use: the same of the two queues, and a     *)
(* series a result hangs on still reaches its node, since no edge is ever  *)
(* removed.                                                                *)
QueuesAscend ==
  /\ Newer(incoming) /\ Newer(market_queue)
  /\ Ascending(incoming) /\ Ascending(market_queue)
  /\ \A i \in 1 .. Len(incoming), j \in 1 .. Len(market_queue) :
       SameSeries(incoming[i], market_queue[j]) =>
         incoming[i].version < market_queue[j].version
  /\ \A m \in MarketNode : overlay[m] <= sent[m]

NothingLost ==
  \A m \in MarketNode : \A v \in overlay[m] + 1 .. sent[m] :
    Holds(incoming, m, v) \/ Holds(market_queue, m, v)

StillUpstream ==
  \A p \in PricingId : graph.cached[p] # NoValue =>
    \A m \in graph.cached[p].upstream : p \in Downstream(graph.dependents, m)

IInv == TypeOK /\ QueuesAscend /\ NothingLost /\ StillUpstream /\ Fresh

(* A registered node below a market node is priced again with every update *)
(* of it that is still on its way, or with a later one.                    *)
EventuallyRepriced ==
  \A p \in PricingId, m \in MarketNode, k \in 1 .. MaxVersion :
    /\ pricing[p] # NoValue /\ p \in Downstream(graph.dependents, m)
    /\ overlay[m] < k /\ k <= sent[m]
    ~> graph.cached[p] # NoValue /\ graph.cached[p].read[m] >= k
=============================================================================
