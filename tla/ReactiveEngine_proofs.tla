----------------------- MODULE ReactiveEngine_proofs -----------------------
(***************************************************************************)
(* The reactive engine keeps its prices fresh, for every graph, every set  *)
(* of instruments and any number of updates: type correctness, the order   *)
(* of the queues, and the refinement of FreshPrices.                       *)
(***************************************************************************)
EXTENDS MCReactiveEngine, GraphReach, SequenceTheorems, TLAPS

Values == MarketValue \cup Result

(* The graph operations keep a graph a graph.                              *)
LEMMA GraphOperations ==
  ASSUME NEW g \in Graph(Values), NEW n \in NodeId
  PROVE  /\ AddNode(g, n) \in Graph(Values)
         /\ \A v \in Values : UpdateNodeValue(g, n, v) \in Graph(Values)
         /\ MarkDirty(g, n) \in Graph(Values)
         /\ MarkDependentsDirty(g, n) \in Graph(Values)
<1>1. Downstream(g.dependents, n) \subseteq NodeId
  BY DEF Downstream
<1>2. AddNode(g, n) \in Graph(Values)
  BY DEF AddNode, Graph
<1>3. ASSUME NEW v \in Values
      PROVE  UpdateNodeValue(g, n, v) \in Graph(Values)
  <2> DEFINE c == [g.cached EXCEPT ![n] = v]
  <2>1. c \in [NodeId -> Values \cup {NoValue}]
    BY DEF Graph
  <2> DEFINE h == AddNode(g, n)
  <2>2. /\ h \in Graph(Values)
        /\ h.cached = g.cached /\ h.dirty = g.dirty
    BY <1>2 DEF AddNode, Graph
  <2> DEFINE i == [h EXCEPT !.cached[n] = v]
  <2>3. i \in Graph(Values) /\ i.dirty = g.dirty
    BY <2>1, <2>2 DEF Graph
  <2>4. UpdateNodeValue(g, n, v) = [i EXCEPT !.dirty = @ \ {n}]
    BY DEF UpdateNodeValue
  <2>5. QED
    <3> HIDE DEF i
    <3>1. QED
      BY <2>3, <2>4 DEF Graph
<1>4. MarkDirty(g, n) \in Graph(Values)
  BY <1>1 DEF MarkDirty, Marked, AddNode, Graph
<1>5. MarkDependentsDirty(g, n) \in Graph(Values)
  BY <1>1 DEF MarkDependentsDirty, Marked, AddNode, Graph
<1>6. QED
  BY <1>2, <1>3, <1>4, <1>5

LEMMA AddDependenciesGraph ==
  ASSUME NEW g \in Graph(Values), NEW n \in NodeId, NEW deps \in SUBSET NodeId
  PROVE  /\ AddDependencies(g, n, deps) \in Graph(Values)
         /\ AddDependencies(g, n, deps).cached = g.cached
         /\ AddDependencies(g, n, deps).dirty = g.dirty
         /\ \A m \in NodeId :
              g.dependents[m] \subseteq AddDependencies(g, n, deps).dependents[m]
BY DEF AddDependencies, Graph

(* What the listener does to the graph, for an event of either kind: it    *)
(* touches the cached value of the event's node only, keeps what was dirty *)
(* except that node, and dirties everything below it.                      *)
LEMMA ListenerStep ==
  ASSUME TypeOK, NEW e \in MarketEvent \cup SchedulerEvent
  PROVE  /\ GraphAfter(e) \in Graph(Values)
         /\ OverlayAfter(e) \in [MarketNode -> Nat]
         /\ GraphAfter(e).dependents = graph.dependents
         /\ \A p \in PricingId : GraphAfter(e).cached[p] = graph.cached[p]
         /\ \A p \in PricingId : p \in graph.dirty => p \in GraphAfter(e).dirty
         /\ \A m \in MarketNode :
              \/ OverlayAfter(e)[m] = overlay[m]
              \/ /\ e.kind = "market" /\ e.node = m /\ OverlayAfter(e)[m] = e.version
                 /\ \A p \in PricingId :
                      p \in Downstream(graph.dependents, m) => p \in GraphAfter(e).dirty
<1> USE DEF TypeOK, Values
<1>1. CASE e \in MarketEvent
  <2>1. /\ e.kind = "market" /\ e.node \in MarketNode /\ e.version \in Nat
        /\ e.node \in NodeId /\ [version |-> e.version] \in MarketValue
    BY <1>1, NodeAssumption DEF MarketEvent, MarketValue
  <2> DEFINE u == UpdateNodeValue(graph, e.node, [version |-> e.version])
  <2>2. u \in Graph(Values)
    BY <2>1, GraphOperations
  <2>3. GraphAfter(e) = MarkDependentsDirty(u, e.node)
    BY <2>1 DEF GraphAfter
  <2>4. GraphAfter(e) \in Graph(Values)
    BY <2>1, <2>2, <2>3, GraphOperations
  <2>5. /\ u.dependents = graph.dependents
        /\ u.cached = [graph.cached EXCEPT ![e.node] = [version |-> e.version]]
        /\ u.dirty = graph.dirty \ {e.node}
    BY <2>1 DEF UpdateNodeValue, AddNode, Graph
  <2>6. /\ GraphAfter(e).dependents = graph.dependents
        /\ GraphAfter(e).cached = u.cached
        /\ GraphAfter(e).dirty =
             u.dirty \cup (Downstream(graph.dependents, e.node) \ {e.node})
    BY <2>2, <2>3, <2>5 DEF MarkDependentsDirty, Marked, AddNode, Graph
  <2>7. \A p \in PricingId : p # e.node
    BY <2>1, NodeAssumption
  <2>8. PricingId \subseteq NodeId
    BY NodeAssumption
  <2>9. OverlayAfter(e) = [overlay EXCEPT ![e.node] = e.version]
    BY <2>1 DEF OverlayAfter
  <2>10. \A p \in PricingId : GraphAfter(e).cached[p] = graph.cached[p]
    BY <2>5, <2>6, <2>7, <2>8 DEF Graph
  <2>11. \A p \in PricingId :
           /\ p \in graph.dirty => p \in GraphAfter(e).dirty
           /\ p \in Downstream(graph.dependents, e.node) => p \in GraphAfter(e).dirty
    BY <2>5, <2>6, <2>7
  <2>12. /\ OverlayAfter(e) \in [MarketNode -> Nat]
         /\ \A m \in MarketNode : OverlayAfter(e)[m] =
              IF m = e.node THEN e.version ELSE overlay[m]
    BY <2>1, <2>9
  <2>13. QED
    BY <2>1, <2>4, <2>6, <2>10, <2>11, <2>12
<1>2. CASE e \in SchedulerEvent
  <2>1. e.kind = "scheduler" /\ e.node \in NodeId
    BY <1>2, NodeAssumption DEF SchedulerEvent
  <2>2. GraphAfter(e) = MarkDirty(graph, e.node) /\ OverlayAfter(e) = overlay
    BY <2>1 DEF OverlayAfter, GraphAfter
  <2>3. GraphAfter(e) \in Graph(Values)
    BY <2>1, <2>2, GraphOperations
  <2>4. /\ GraphAfter(e).dependents = graph.dependents
        /\ GraphAfter(e).cached = graph.cached
        /\ graph.dirty \subseteq GraphAfter(e).dirty
    BY <2>2 DEF MarkDirty, AddNode, Graph
  <2>5. QED
    BY <2>2, <2>3, <2>4
<1>3. QED
  BY <1>1, <1>2

(* What a batch stores: the priced nodes get a price read from the overlay *)
(* and become clean, nothing else changes.                                 *)
LEMMA StoreStep ==
  ASSUME TypeOK, NEW g \in Graph(Values), NEW ov \in [MarketNode -> Nat],
         NEW done \in SUBSET PricingId
  PROVE  /\ StorePrices(g, ov, done) \in Graph(Values)
         /\ StorePrices(g, ov, done).dependents = g.dependents
         /\ StorePrices(g, ov, done).dirty = g.dirty \ done
         /\ \A n \in NodeId : StorePrices(g, ov, done).cached[n] =
                               IF n \in done THEN Price(n, g, ov) ELSE g.cached[n]
<1>1. PricingId \subseteq NodeId
  BY NodeAssumption
<1> DEFINE c == [n \in NodeId |-> IF n \in done THEN Price(n, g, ov) ELSE g.cached[n]]
<1>2. \A n \in NodeId : Price(n, g, ov) \in Result
  BY DEF Price, Result, MayBePriced
<1>3. c \in [NodeId -> Values \cup {NoValue}]
  BY <1>2 DEF Graph, Values
<1>4. StorePrices(g, ov, done) =
        [g EXCEPT !.cached = c, !.dirty = @ \ done]
  BY DEF StorePrices, Graph
<1>5. QED
  <2> HIDE DEF c
  <2>1. /\ StorePrices(g, ov, done) \in Graph(Values)
        /\ StorePrices(g, ov, done).dependents = g.dependents
        /\ StorePrices(g, ov, done).dirty = g.dirty \ done
        /\ StorePrices(g, ov, done).cached = c
    BY <1>3, <1>4 DEF Graph
  <2>2. QED
    BY <2>1 DEF c

(* process_once, put together: one event, one batch.                       *)
LEMMA ProcessStep ==
  ASSUME TypeOK, NEW why \in AnyFault, ProcessOnce(why)
  PROVE  \E e \in MarketEvent \cup SchedulerEvent : \E done \in SUBSET PricingId :
           /\ e = incoming[1] /\ incoming # <<>> /\ incoming' = Tail(incoming)
           /\ overlay' = OverlayAfter(e)
           /\ graph' = StorePrices(GraphAfter(e), OverlayAfter(e), done)
           /\ GraphAfter(e) \in Graph(Values)
           /\ OverlayAfter(e) \in [MarketNode -> Nat]
           /\ \A p \in done : p \in GraphAfter(e).dirty /\ pricing[p] \in Input
           /\ done = Stored(Batch(GraphAfter(e)), why)
           /\ why \in Fault(Batch(GraphAfter(e)), OverlayAfter(e))
           /\ reference' = ReferenceAfter(done)
           /\ outputs' = OutputsAfter(graph', overlay', done, why)
           /\ view' = ViewAfter(graph', done, why)
<1> DEFINE e == Head(incoming)
           done == Stored(Batch(GraphAfter(e)), why)
<1>1. e \in MarketEvent \cup SchedulerEvent /\ e = incoming[1]
  BY DEF TypeOK, ProcessOnce
<1>2. GraphAfter(e) \in Graph(Values) /\ OverlayAfter(e) \in [MarketNode -> Nat]
  BY <1>1, ListenerStep
<1>3. done \subseteq Batch(GraphAfter(e))
  BY DEF Stored
<1>4. /\ done \in SUBSET PricingId
      /\ \A p \in done : p \in GraphAfter(e).dirty /\ pricing[p] \in Input
  BY <1>3 DEF Batch, QueryDirty, TypeOK
<1>5. /\ overlay' = OverlayAfter(e)
      /\ graph' = StorePrices(GraphAfter(e), OverlayAfter(e), done)
      /\ reference' = ReferenceAfter(done)
      /\ outputs' = OutputsAfter(graph', overlay', done, why)
      /\ view' = ViewAfter(graph', done, why)
      /\ incoming # <<>> /\ incoming' = Tail(incoming)
      /\ why \in Fault(Batch(GraphAfter(e)), OverlayAfter(e))
  BY DEF ProcessOnce
<1>6. QED
  BY <1>1, <1>2, <1>4, <1>5

-----------------------------------------------------------------------------
(* Every action keeps the types.                                           *)
LEMMA ProcessType ==
  ASSUME TypeOK, NEW why \in AnyFault, ProcessOnce(why)
  PROVE  TypeOK'
<1>1. PICK e \in MarketEvent \cup SchedulerEvent, done \in SUBSET PricingId :
        /\ incoming # <<>> /\ incoming' = Tail(incoming)
        /\ overlay' = OverlayAfter(e)
        /\ graph' = StorePrices(GraphAfter(e), OverlayAfter(e), done)
        /\ GraphAfter(e) \in Graph(Values)
        /\ OverlayAfter(e) \in [MarketNode -> Nat]
        /\ \A p \in done : p \in GraphAfter(e).dirty /\ pricing[p] \in Input
        /\ reference' = ReferenceAfter(done)
        /\ outputs' = OutputsAfter(graph', overlay', done, why)
        /\ view' = ViewAfter(graph', done, why)
  BY ProcessStep
<1>2. graph' \in Graph(Values) /\ PricingId \subseteq NodeId
  BY <1>1, StoreStep, NodeAssumption
<1>3. ASSUME NEW p \in PricingId
      PROVE  /\ graph'.cached[p] \in Result \cup {NoValue}
             /\ p \in done => graph'.cached[p] \in Result
  <2>1. Price(p, GraphAfter(e), OverlayAfter(e)) \in Result
    BY <1>1 DEF Price, Result, MayBePriced
  <2>2. graph'.cached[p] = IF p \in done THEN Price(p, GraphAfter(e), OverlayAfter(e))
                          ELSE GraphAfter(e).cached[p]
    BY <1>1, <1>2, StoreStep
  <2>3. GraphAfter(e).cached[p] = graph.cached[p]
    BY ListenerStep
  <2>4. QED
    BY <2>1, <2>2, <2>3 DEF TypeOK
<1>4. reference' \in SUBSET QuoteNode
  BY <1>1, ProviderAssumption DEF ReferenceAfter, TypeOK
<1>5. outputs' \in [PricingId -> Result \cup {NoValue}]
  BY <1>1, <1>3 DEF OutputsAfter, TypeOK
<1>6. view' \in [Subscriber -> [PricingId -> Result \cup {NoValue}]]
  BY <1>1, <1>3 DEF ViewAfter, TypeOK
<1>7. /\ incoming' \in Seq(MarketEvent \cup SchedulerEvent)
      /\ overlay' \in [MarketNode -> Nat]
  BY <1>1 DEF TypeOK
<1>8. /\ handled' \in Nat
      /\ UNCHANGED <<sent, emitted, market_queue, scheduler_queue, pricing, subscribed>>
  BY DEF ProcessOnce, sources, TypeOK
<1>9. QED
  BY <1>2, <1>3, <1>4, <1>5, <1>6, <1>7, <1>8 DEF TypeOK, Values

LEMMA TypeStep == TypeOK /\ [Next]_vars => TypeOK'
<1> SUFFICES ASSUME TypeOK, [Next]_vars PROVE TypeOK'
  OBVIOUS
<1> USE DEF sources, engine, clients
<1>1. ASSUME NEW m \in MarketNode, PublishMarketDataUpdate(m) PROVE TypeOK'
  <2>1. [kind |-> "market", node |-> m, version |-> sent[m] + 1] \in MarketEvent
    BY DEF MarketEvent, TypeOK
  <2>2. QED
    BY <1>1, <2>1 DEF PublishMarketDataUpdate, TypeOK
<1>2. ASSUME NEW n \in SchedulerNode, SchedulerEmit(n) PROVE TypeOK'
  <2>1. [kind |-> "scheduler", node |-> n] \in SchedulerEvent
    BY DEF SchedulerEvent
  <2>2. QED
    BY <1>2, <2>1 DEF SchedulerEmit, TypeOK
<1>3. CASE RelayMarketData
  BY <1>3 DEF RelayMarketData, TypeOK
<1>4. CASE RelayScheduler
  BY <1>4 DEF RelayScheduler, TypeOK
<1>5. ASSUME NEW r \in Registration, RegisterPricingNode(r) PROVE TypeOK'
  <2>1. /\ r.node \in PricingId /\ r.node \in NodeId /\ r.input \in Input
        /\ {r.input.instrument} \cup r.deps \in SUBSET NodeId
    BY RegistrationAssumption, NodeAssumption DEF Input, MarketNode
  <2>2. graph' \in Graph(Values) /\ graph'.cached = graph.cached
    BY <1>5, <2>1, AddDependenciesGraph DEF RegisterPricingNode, TypeOK, Values
  <2>3. pricing' \in [PricingId -> Input \cup {NoValue}]
    BY <1>5, <2>1 DEF RegisterPricingNode, TypeOK
  <2>4. QED
    BY <1>5, <2>2, <2>3 DEF RegisterPricingNode, TypeOK, Values
<1>6. ASSUME NEW i \in QuoteNode, CacheReferenceData(i) PROVE TypeOK'
  BY <1>6 DEF CacheReferenceData, TypeOK
<1>7. ASSUME NEW c \in Subscriber, SubscribeUpdates(c) \/ UnsubscribeUpdates(c)
      PROVE  TypeOK'
  <2>1. /\ view' \in [Subscriber -> [PricingId -> Result \cup {NoValue}]]
        /\ subscribed' \in SUBSET Subscriber
    <3>1. CASE SubscribeUpdates(c)
      <4>1. [p \in PricingId |-> graph.cached[p]] \in [PricingId -> Result \cup {NoValue}]
        BY DEF TypeOK
      <4>2. QED
        BY <3>1, <4>1 DEF SubscribeUpdates, TypeOK
    <3>2. CASE UnsubscribeUpdates(c)
      BY <3>2 DEF UnsubscribeUpdates, TypeOK
    <3>3. QED
      BY <1>7, <3>1, <3>2
  <2>2. UNCHANGED <<sources, incoming, engine>>
    BY <1>7 DEF SubscribeUpdates, UnsubscribeUpdates
  <2>3. QED
    BY <2>1, <2>2 DEF TypeOK
<1>8. ASSUME NEW why \in AnyFault, ProcessOnce(why) PROVE TypeOK'
  BY <1>8, ProcessType
<1>9. CASE UNCHANGED vars
  BY <1>9 DEF vars, TypeOK
<1>10. QED
  BY <1>1, <1>2, <1>3, <1>4, <1>5, <1>6, <1>7, <1>8, <1>9
     DEF Next, Producer, Relay, Application

LEMMA InitType == Init => TypeOK
<1> SUFFICES ASSUME Init PROVE TypeOK
  OBVIOUS
<1>1. EmptyGraph \in Graph(MarketValue \cup Result)
  BY DEF EmptyGraph, Graph
<1>2. \A p \in PricingId : EmptyGraph.cached[p] = NoValue
  BY NodeAssumption DEF EmptyGraph
<1>3. QED
  BY <1>1, <1>2 DEF Init, TypeOK

(* The variables keep their types in every behaviour.                      *)
THEOREM TypeCorrect == Spec => []TypeOK
BY InitType, TypeStep, PTL DEF Spec

-----------------------------------------------------------------------------
(* The queues stay in order: a new version is above all earlier ones, a    *)
(* relay moves the oldest item, and what is applied is older than what     *)
(* stays.                                                                  *)
LEMMA PublishQueues ==
  ASSUME TypeOK, QueuesAscend, NEW m \in MarketNode, PublishMarketDataUpdate(m)
  PROVE  QueuesAscend'
<1> DEFINE ev == [kind |-> "market", node |-> m, version |-> sent[m] + 1]
<1>1. /\ market_queue' = Append(market_queue, ev) /\ incoming' = incoming
      /\ overlay' = overlay /\ sent' = [sent EXCEPT ![m] = @ + 1]
  BY DEF PublishMarketDataUpdate, engine
<1>2. /\ Len(market_queue') = Len(market_queue) + 1 /\ Len(market_queue) \in Nat
      /\ \A i \in 1 .. Len(market_queue) : market_queue'[i] = market_queue[i]
      /\ market_queue'[Len(market_queue) + 1] = ev
  BY <1>1 DEF TypeOK
<1>3. \A k \in MarketNode : sent[k] \in Nat /\ overlay[k] \in Nat
                            /\ sent'[k] = IF k = m THEN sent[k] + 1 ELSE sent[k]
  BY <1>1 DEF TypeOK
<1>4. /\ \A i \in 1 .. Len(market_queue) : market_queue[i] \in MarketEvent
      /\ \A i \in 1 .. Len(incoming) : incoming[i] \in MarketEvent \cup SchedulerEvent
  BY DEF TypeOK
<1> HIDE DEF ev
<1>5. ev.kind = "market" /\ ev.node = m /\ ev.version = sent[m] + 1
  BY DEF ev
<1>6. Newer(incoming)'
  BY <1>1, <1>3, <1>4 DEF QueuesAscend, Newer, MarketEvent, SchedulerEvent
<1>7. Newer(market_queue)'
  BY <1>1, <1>2, <1>3, <1>4, <1>5 DEF QueuesAscend, Newer, MarketEvent
<1>8. Ascending(incoming)'
  BY <1>1 DEF QueuesAscend, Ascending, SameSeries
<1>9. Ascending(market_queue)'
  <2> SUFFICES ASSUME NEW i \in 1 .. Len(market_queue'), NEW j \in 1 .. Len(market_queue'),
                      i < j, SameSeries(market_queue'[i], market_queue'[j])
               PROVE  market_queue'[i].version < market_queue'[j].version
    BY DEF Ascending, SameSeries
  <2>1. i \in 1 .. Len(market_queue) /\ market_queue'[i] = market_queue[i]
    BY <1>2
  <2>2. CASE j \in 1 .. Len(market_queue)
    BY <2>1, <2>2, <1>2 DEF QueuesAscend, Ascending
  <2>3. CASE j = Len(market_queue) + 1
    <3>1. market_queue[i].version <= sent[m] /\ market_queue[i].version \in Nat
      BY <2>1, <2>3, <1>2, <1>4, <1>5 DEF QueuesAscend, Newer, SameSeries, MarketEvent
    <3>2. QED
      BY <3>1, <2>1, <2>3, <1>2, <1>3, <1>5
  <2>4. QED
    BY <2>2, <2>3, <1>2
<1>10. \A i \in 1 .. Len(incoming'), j \in 1 .. Len(market_queue') :
         SameSeries(incoming'[i], market_queue'[j]) =>
           incoming'[i].version < market_queue'[j].version
  <2> SUFFICES ASSUME NEW i \in 1 .. Len(incoming), NEW j \in 1 .. Len(market_queue'),
                      SameSeries(incoming[i], market_queue'[j])
               PROVE  incoming[i].version < market_queue'[j].version
    BY <1>1
  <2>1. CASE j \in 1 .. Len(market_queue)
    BY <2>1, <1>2 DEF QueuesAscend
  <2>2. CASE j = Len(market_queue) + 1
    <3>1. incoming[i].version <= sent[m] /\ incoming[i].version \in Nat
      <4>1. incoming[i].kind = "market" /\ incoming[i].node = m
        BY <2>2, <1>2, <1>5 DEF SameSeries
      <4>2. incoming[i].version <= sent[m]
        BY <4>1 DEF QueuesAscend, Newer
      <4>3. incoming[i] \in MarketEvent
        BY <4>1, <1>4 DEF SchedulerEvent
      <4>4. QED
        BY <4>2, <4>3 DEF MarketEvent
    <3>2. market_queue'[j].version = sent[m] + 1
      BY <2>2, <1>2, <1>5
    <3>3. QED
      BY <3>1, <3>2, <1>3
  <2>3. QED
    BY <2>1, <2>2, <1>2
<1>11. \A k \in MarketNode : overlay'[k] <= sent'[k]
  BY <1>1, <1>3 DEF QueuesAscend
<1>12. QED
  BY <1>6, <1>7, <1>8, <1>9, <1>10, <1>11 DEF QueuesAscend

LEMMA RelayMarketQueues ==
  ASSUME TypeOK, QueuesAscend, RelayMarketData
  PROVE  QueuesAscend'
<1>1. /\ market_queue' = <<>> /\ incoming' = incoming \o market_queue
      /\ overlay' = overlay /\ sent' = sent
  BY DEF RelayMarketData, engine
<1> DEFINE n == Len(incoming)
           k == Len(market_queue)
<1>2. /\ n \in Nat /\ k \in Nat /\ Len(incoming') = n + k
      /\ \A i \in 1 .. n : incoming'[i] = incoming[i]
      /\ \A i \in 1 .. n + k : i \in 1 .. n \/ i - n \in 1 .. k
      /\ \A i \in 1 .. n + k : i - n \in 1 .. k => incoming'[i] = market_queue[i - n]
  BY <1>1 DEF TypeOK
<1>3. Newer(incoming)'
  BY <1>1, <1>2 DEF QueuesAscend, Newer
<1>4. Ascending(incoming)'
  <2> SUFFICES ASSUME NEW i \in 1 .. Len(incoming'), NEW j \in 1 .. Len(incoming'),
                      i < j, SameSeries(incoming'[i], incoming'[j])
               PROVE  incoming'[i].version < incoming'[j].version
    BY DEF Ascending, SameSeries
  <2>1. CASE i \in 1 .. n /\ j \in 1 .. n
    BY <2>1, <1>2 DEF QueuesAscend, Ascending
  <2>2. CASE i \in 1 .. n /\ j - n \in 1 .. k
    BY <2>2, <1>2 DEF QueuesAscend
  <2>3. CASE i - n \in 1 .. k /\ j - n \in 1 .. k
    <3>1. i - n < j - n
      BY <1>2
    <3>2. QED
      BY <2>3, <3>1, <1>2 DEF QueuesAscend, Ascending
  <2>4. CASE i - n \in 1 .. k /\ j \in 1 .. n
    BY <2>4, <1>2
  <2>5. QED
    BY <2>1, <2>2, <2>3, <2>4, <1>2
<1>5. \A i \in 1 .. Len(market_queue') : FALSE
  BY <1>1
<1>6. \A i \in MarketNode : overlay'[i] <= sent'[i]
  BY <1>1 DEF QueuesAscend
<1> HIDE DEF n, k
<1>7. Newer(market_queue)' /\ Ascending(market_queue)'
  BY <1>5 DEF Newer, Ascending
<1>8. QED
  BY <1>3, <1>4, <1>5, <1>6, <1>7 DEF QueuesAscend

LEMMA RelaySchedulerQueues ==
  ASSUME TypeOK, QueuesAscend, RelayScheduler
  PROVE  QueuesAscend'
<1>1. /\ market_queue' = market_queue /\ incoming' = incoming \o scheduler_queue
      /\ overlay' = overlay /\ sent' = sent
  BY DEF RelayScheduler, engine
<1> DEFINE n == Len(incoming)
<1>2. /\ n \in Nat /\ Len(incoming') \in Nat
      /\ \A i \in 1 .. n : incoming'[i] = incoming[i]
      /\ \A i \in 1 .. Len(incoming') : i \in 1 .. n \/ incoming'[i].kind = "scheduler"
  <2>1. \A i \in 1 .. Len(scheduler_queue) : scheduler_queue[i].kind = "scheduler"
    <3>1. \A i \in 1 .. Len(scheduler_queue) : scheduler_queue[i] \in SchedulerEvent
      BY DEF TypeOK
    <3>2. QED
      BY <3>1 DEF SchedulerEvent
  <2> DEFINE k == Len(scheduler_queue)
  <2>2. /\ n \in Nat /\ k \in Nat /\ Len(incoming') = n + k
        /\ \A i \in 1 .. n : incoming'[i] = incoming[i]
        /\ \A i \in 1 .. n + k : i \in 1 .. n \/ i - n \in 1 .. k
        /\ \A i \in 1 .. n + k : i - n \in 1 .. k => incoming'[i] = scheduler_queue[i - n]
    BY <1>1 DEF TypeOK
  <2>3. QED
    BY <2>1, <2>2
<1>3. Newer(incoming)' /\ Ascending(incoming)'
  <2>1. Newer(incoming)'
    BY <1>1, <1>2 DEF QueuesAscend, Newer
  <2>2. Ascending(incoming)'
    BY <1>1, <1>2 DEF QueuesAscend, Ascending, SameSeries
  <2>3. QED
    BY <2>1, <2>2
<1>4. QED
  BY <1>1, <1>2, <1>3 DEF QueuesAscend, Newer, Ascending, SameSeries

LEMMA ProcessQueues ==
  ASSUME TypeOK, QueuesAscend, NEW why \in AnyFault, ProcessOnce(why)
  PROVE  QueuesAscend'
<1>1. PICK e \in MarketEvent \cup SchedulerEvent :
        /\ e = incoming[1] /\ incoming # <<>> /\ incoming' = Tail(incoming)
        /\ overlay' = OverlayAfter(e)
  BY ProcessStep
<1>2. market_queue' = market_queue /\ sent' = sent
  BY DEF ProcessOnce, sources
<1>3. /\ Len(incoming) \in Nat /\ Len(incoming') = Len(incoming) - 1
      /\ \A j \in 1 .. Len(incoming') :
           j + 1 \in 1 .. Len(incoming) /\ incoming'[j] = incoming[j + 1]
      /\ 1 \in 1 .. Len(incoming)
  BY <1>1 DEF TypeOK
<1>4. /\ \A i \in 1 .. Len(incoming) : incoming[i] \in MarketEvent \cup SchedulerEvent
      /\ \A i \in 1 .. Len(market_queue) : market_queue[i] \in MarketEvent
  BY DEF TypeOK
<1>5. \A m \in MarketNode :
        \/ overlay'[m] = overlay[m] /\ ~(e.kind = "market" /\ e.node = m)
        \/ e.kind = "market" /\ e.node = m /\ overlay'[m] = e.version
  BY <1>1 DEF OverlayAfter, TypeOK
<1>6. Newer(incoming)'
  <2> SUFFICES ASSUME NEW j \in 1 .. Len(incoming'), incoming'[j].kind = "market"
               PROVE  /\ overlay'[incoming'[j].node] < incoming'[j].version
                      /\ incoming'[j].version <= sent'[incoming'[j].node]
    BY DEF Newer
  <2> DEFINE f == incoming[j + 1]
  <2>1. f = incoming'[j] /\ j + 1 \in 1 .. Len(incoming) /\ 1 < j + 1
    BY <1>3
  <2>2. f.node \in MarketNode
    BY <2>1, <1>4 DEF MarketEvent, SchedulerEvent
  <2>3. overlay[f.node] < f.version /\ f.version <= sent[f.node]
    BY <2>1 DEF QueuesAscend, Newer
  <2>4. e.kind = "market" /\ e.node = f.node => e.version < f.version
    BY <1>1, <1>3, <2>1 DEF QueuesAscend, Ascending, SameSeries
  <2>5. QED
    BY <1>2, <1>5, <2>1, <2>2, <2>3, <2>4
<1>7. Newer(market_queue)'
  <2> SUFFICES ASSUME NEW j \in 1 .. Len(market_queue)
               PROVE  /\ overlay'[market_queue[j].node] < market_queue[j].version
                      /\ market_queue[j].version <= sent[market_queue[j].node]
    BY <1>2 DEF Newer
  <2> DEFINE f == market_queue[j]
  <2>1. f.node \in MarketNode /\ f.kind = "market"
    BY <1>4 DEF MarketEvent
  <2>2. overlay[f.node] < f.version /\ f.version <= sent[f.node]
    BY <2>1 DEF QueuesAscend, Newer
  <2>3. e.kind = "market" /\ e.node = f.node => e.version < f.version
    BY <1>1, <1>3, <2>1 DEF QueuesAscend, SameSeries
  <2>4. QED
    BY <1>5, <2>1, <2>2, <2>3
<1>8. Ascending(incoming)'
  <2> SUFFICES ASSUME NEW i \in 1 .. Len(incoming'), NEW j \in 1 .. Len(incoming'),
                      i < j, SameSeries(incoming'[i], incoming'[j])
               PROVE  incoming'[i].version < incoming'[j].version
    BY DEF Ascending, SameSeries
  <2>1. i + 1 < j + 1
    BY <1>3
  <2>2. QED
    BY <2>1, <1>3 DEF QueuesAscend, Ascending
<1>9. \A i \in 1 .. Len(incoming'), j \in 1 .. Len(market_queue') :
        SameSeries(incoming'[i], market_queue'[j]) =>
          incoming'[i].version < market_queue'[j].version
  BY <1>2, <1>3 DEF QueuesAscend
<1>10. \A m \in MarketNode : overlay'[m] <= sent'[m]
  BY <1>1, <1>2, <1>3, <1>5 DEF QueuesAscend, Newer
<1>11. QED
  BY <1>2, <1>6, <1>7, <1>8, <1>9, <1>10 DEF QueuesAscend

(* What is applied is newer than what was: the overlay only moves forward. *)
LEMMA ProcessAdvances ==
  ASSUME TypeOK, QueuesAscend, NEW why \in AnyFault, ProcessOnce(why),
         NEW m \in MarketNode
  PROVE  overlay'[m] >= overlay[m]
<1>1. PICK e \in MarketEvent \cup SchedulerEvent :
        e = incoming[1] /\ incoming # <<>> /\ overlay' = OverlayAfter(e)
  BY ProcessStep
<1>2. 1 \in 1 .. Len(incoming)
  BY <1>1 DEF TypeOK
<1>3. CASE e.kind = "market" /\ e.node = m
  <2>1. overlay[m] < e.version /\ e.version \in Nat
    BY <1>1, <1>2, <1>3 DEF QueuesAscend, Newer, MarketEvent, SchedulerEvent
  <2>2. overlay'[m] = e.version
    BY <1>1, <1>3 DEF OverlayAfter, TypeOK
  <2>3. QED
    BY <2>1, <2>2 DEF TypeOK
<1>4. CASE ~(e.kind = "market" /\ e.node = m)
  BY <1>1, <1>4 DEF OverlayAfter, TypeOK
<1>5. QED
  BY <1>3, <1>4

LEMMA QueueStep == TypeOK /\ QueuesAscend /\ [Next]_vars => QueuesAscend'
<1> SUFFICES ASSUME TypeOK, QueuesAscend, [Next]_vars PROVE QueuesAscend'
  OBVIOUS
<1>1. ASSUME UNCHANGED <<incoming, market_queue, overlay, sent>> PROVE QueuesAscend'
  BY <1>1 DEF QueuesAscend, Newer, Ascending, SameSeries
<1>2. ASSUME NEW m \in MarketNode, PublishMarketDataUpdate(m) PROVE QueuesAscend'
  BY <1>2, PublishQueues
<1>3. CASE RelayMarketData
  BY <1>3, RelayMarketQueues
<1>4. CASE RelayScheduler
  BY <1>4, RelaySchedulerQueues
<1>5. ASSUME NEW n \in SchedulerNode, SchedulerEmit(n) PROVE QueuesAscend'
  BY <1>1, <1>5 DEF SchedulerEmit, engine
<1>6. CASE Application
  BY <1>1, <1>6
     DEF Application, RegisterPricingNode, CacheReferenceData, SubscribeUpdates,
         UnsubscribeUpdates, sources, engine
<1>7. ASSUME NEW why \in AnyFault, ProcessOnce(why) PROVE QueuesAscend'
  BY <1>7, ProcessQueues
<1>8. CASE UNCHANGED vars
  BY <1>1, <1>8 DEF vars, sources, engine
<1>9. QED
  BY <1>2, <1>3, <1>4, <1>5, <1>6, <1>7, <1>8 DEF Next, Producer, Relay

(* The actions other than process_once and register_pricing_node leave the *)
(* engine's graph and overlay alone.                                       *)
LEMMA EngineUntouched ==
  ASSUME [Next]_vars,
         \A why \in AnyFault : ~ProcessOnce(why),
         \A r \in Registration : ~RegisterPricingNode(r)
  PROVE  graph' = graph /\ overlay' = overlay
BY DEF Next, vars, Producer, Relay, Application, PublishMarketDataUpdate, SchedulerEmit,
       RelayMarketData, RelayScheduler, CacheReferenceData, SubscribeUpdates,
       UnsubscribeUpdates, engine

(* A registration adds edges and touches neither a result nor a flag.      *)
LEMMA RegisterStep ==
  ASSUME TypeOK, NEW r \in Registration, RegisterPricingNode(r)
  PROVE  /\ graph'.cached = graph.cached /\ graph'.dirty = graph.dirty
         /\ overlay' = overlay
         /\ graph' \in Graph(Values)
         /\ \A m \in NodeId : graph.dependents[m] \subseteq graph'.dependents[m]
<1>1. r.node \in NodeId /\ {r.input.instrument} \cup r.deps \in SUBSET NodeId
  BY RegistrationAssumption, NodeAssumption DEF Input, MarketNode
<1>2. QED
  BY <1>1, AddDependenciesGraph DEF RegisterPricingNode, TypeOK, Values

(* The same step of process_once as a list of facts about each node.       *)
LEMMA BatchStep ==
  ASSUME TypeOK, StillUpstream, NEW why \in AnyFault, ProcessOnce(why)
  PROVE  /\ graph'.dependents = graph.dependents
         /\ \A p \in PricingId :
              \/ /\ graph'.cached[p] \in Result
                 /\ graph'.cached[p].read = overlay'
                 /\ graph'.cached[p].upstream =
                      {m \in MarketNode : p \in Downstream(graph.dependents, m)}
                 /\ p \notin graph'.dirty
              \/ /\ graph'.cached[p] = graph.cached[p]
                 /\ p \in graph.dirty => p \in graph'.dirty
                 /\ \A m \in MarketNode :
                      p \in Downstream(graph.dependents, m) /\ overlay'[m] # overlay[m]
                         => p \in graph'.dirty
<1>1. PICK e \in MarketEvent \cup SchedulerEvent, done \in SUBSET PricingId :
        /\ overlay' = OverlayAfter(e)
        /\ graph' = StorePrices(GraphAfter(e), OverlayAfter(e), done)
        /\ GraphAfter(e) \in Graph(Values)
        /\ OverlayAfter(e) \in [MarketNode -> Nat]
        /\ \A p \in done : p \in GraphAfter(e).dirty /\ pricing[p] \in Input
  BY ProcessStep
<1> DEFINE g == GraphAfter(e)
<1>2. g.dependents = graph.dependents
  BY <1>1, ListenerStep
<1>3. /\ graph'.dependents = graph.dependents
      /\ graph'.dirty = g.dirty \ done
      /\ \A p \in PricingId : graph'.cached[p] =
           IF p \in done THEN Price(p, g, overlay') ELSE g.cached[p]
  BY <1>1, <1>2, StoreStep, NodeAssumption
<1>4. ASSUME NEW p \in done
      PROVE  /\ graph'.cached[p] \in Result
             /\ graph'.cached[p].read = overlay'
             /\ graph'.cached[p].upstream =
                  {m \in MarketNode : p \in Downstream(graph.dependents, m)}
             /\ p \notin graph'.dirty
  <2>1. graph'.cached[p] = Price(p, g, overlay') /\ p \notin graph'.dirty
    BY <1>3, <1>4
  <2> HIDE DEF g
  <2>2. overlay' \in [MarketNode -> Nat]
    BY <1>1
  <2>3. QED
    BY <2>1, <2>2, <1>2 DEF Price, Result, MayBePriced
<1>5. ASSUME NEW p \in PricingId, p \notin done
      PROVE  /\ graph'.cached[p] = graph.cached[p]
             /\ p \in graph.dirty => p \in graph'.dirty
             /\ \A m \in MarketNode :
                  p \in Downstream(graph.dependents, m) /\ overlay'[m] # overlay[m]
                     => p \in graph'.dirty
  <2>1. g.cached[p] = graph.cached[p] /\ (p \in graph.dirty => p \in g.dirty)
    BY ListenerStep
  <2>2. ASSUME NEW m \in MarketNode, p \in Downstream(graph.dependents, m),
               overlay'[m] # overlay[m]
        PROVE  p \in g.dirty
    BY <2>2, <1>1, ListenerStep
  <2>3. QED
    BY <2>1, <2>2, <1>3, <1>5
<1>6. QED
  BY <1>3, <1>4, <1>5

(* A series a result hangs on still reaches its node: edges are only added.*)
LEMMA UpstreamStep == TypeOK /\ StillUpstream /\ [Next]_vars => StillUpstream'
<1> SUFFICES ASSUME TypeOK, StillUpstream, [Next]_vars PROVE StillUpstream'
  OBVIOUS
<1>1. ASSUME NEW why \in AnyFault, ProcessOnce(why) PROVE StillUpstream'
  <2>1. graph'.dependents = graph.dependents
    BY <1>1, BatchStep
  <2>2. \A p \in PricingId :
          \/ graph'.cached[p].upstream =
               {m \in MarketNode : p \in Downstream(graph.dependents, m)}
          \/ graph'.cached[p] = graph.cached[p]
    BY <1>1, BatchStep
  <2>3. QED
    BY <2>1, <2>2 DEF StillUpstream
<1>2. ASSUME NEW r \in Registration, RegisterPricingNode(r) PROVE StillUpstream'
  <2>1. /\ graph'.cached = graph.cached
        /\ graph.dependents \in [NodeId -> SUBSET NodeId]
        /\ graph'.dependents \in [NodeId -> SUBSET NodeId]
        /\ \A m \in NodeId : graph.dependents[m] \subseteq graph'.dependents[m]
    BY <1>2, RegisterStep DEF TypeOK, Graph
  <2>2. \A m \in NodeId :
          Downstream(graph.dependents, m) \subseteq Downstream(graph'.dependents, m)
    BY <2>1, DownstreamMonotone
  <2>3. \A p \in PricingId : graph.cached[p] # NoValue =>
          graph.cached[p].upstream \subseteq NodeId
    BY NodeAssumption DEF TypeOK, Result
  <2>4. QED
    BY <2>1, <2>2, <2>3 DEF StillUpstream
<1>3. ASSUME graph' = graph PROVE StillUpstream'
  BY <1>3 DEF StillUpstream
<1>4. QED
  BY <1>1, <1>2, <1>3, EngineUntouched

(* Every step of the engine is a step of FreshPrices or leaves its         *)
(* variables alone.                                                        *)
LEMMA ContractStep ==
  TypeOK /\ QueuesAscend /\ StillUpstream /\ TypeOK' /\ [Next]_vars => [FP!FNext]_(FP!fvars)
<1> SUFFICES ASSUME TypeOK, QueuesAscend, StillUpstream, TypeOK', [Next]_vars
             PROVE  [FP!FNext]_(FP!fvars)
  OBVIOUS
<1>1. ASSUME NEW why \in AnyFault, ProcessOnce(why) PROVE FP!FNext
  <2>1. overlay' \in [MarketNode -> Nat]
    BY DEF TypeOK
  <2>2. \A m \in MarketNode : overlay'[m] >= overlay[m]
    BY <1>1, ProcessAdvances
  <2>3. [p \in PricingId |-> graph.cached[p]]' \in [PricingId -> FP!Result \cup {NoValue}]
    BY DEF TypeOK, Result, FP!Result
  <2>4. (graph.dirty \cap PricingId)' \subseteq PricingId
    OBVIOUS
  <2>5. ASSUME NEW p \in PricingId PROVE FP!Reprice(p) \/ FP!Keep(p)
    <3>1. CASE /\ graph'.cached[p] \in Result
               /\ graph'.cached[p].read = overlay'
               /\ p \notin graph'.dirty
      BY <3>1 DEF FP!Reprice, FP!Result, Result
    <3>2. CASE /\ graph'.cached[p] = graph.cached[p]
               /\ p \in graph.dirty => p \in graph'.dirty
               /\ \A m \in MarketNode :
                    p \in Downstream(graph.dependents, m) /\ overlay'[m] # overlay[m]
                       => p \in graph'.dirty
      <4>1. ASSUME graph.cached[p] # NoValue,
                   NEW m \in graph.cached[p].upstream, overlay'[m] # overlay[m],
                   m \in MarketNode
            PROVE  p \in graph'.dirty
        BY <3>2, <4>1 DEF StillUpstream
      <4>2. QED
        BY <3>2, <4>1 DEF FP!Keep, FP!Moved
    <3>3. QED
      BY <1>1, <3>1, <3>2, BatchStep
  <2>6. QED
    BY <2>1, <2>2, <2>3, <2>4, <2>5 DEF FP!FNext
<1>2. ASSUME NEW r \in Registration, RegisterPricingNode(r) PROVE UNCHANGED FP!fvars
  BY <1>2, RegisterStep DEF FP!fvars
<1>3. ASSUME graph' = graph, overlay' = overlay PROVE UNCHANGED FP!fvars
  BY <1>3 DEF FP!fvars
<1>4. QED
  BY <1>1, <1>2, <1>3, EngineUntouched

(* Under that contract a fresh board stays fresh.                          *)
LEMMA FreshStep == TypeOK /\ Fresh /\ [FP!FNext]_(FP!fvars) => Fresh'
<1> SUFFICES ASSUME TypeOK, Fresh, [FP!FNext]_(FP!fvars) PROVE Fresh'
  OBVIOUS
<1>1. CASE UNCHANGED FP!fvars
  <2>1. /\ \A p \in PricingId : graph'.cached[p] = graph.cached[p]
        /\ \A p \in PricingId : p \in graph'.dirty <=> p \in graph.dirty
        /\ overlay' = overlay
    <3>1. [p \in PricingId |-> graph'.cached[p]] = [p \in PricingId |-> graph.cached[p]]
      BY <1>1 DEF FP!fvars
    <3>2. QED
      BY <1>1, <3>1 DEF FP!fvars
  <2>2. QED
    BY <2>1 DEF Fresh, FP!BoardFresh
<1>2. CASE FP!FNext
  <2> SUFFICES ASSUME NEW p \in PricingId, graph'.cached[p] # NoValue,
      p \notin graph'.dirty,
                      NEW m \in graph'.cached[p].upstream
               PROVE  graph'.cached[p].read[m] = overlay'[m]
    BY DEF Fresh, FP!BoardFresh
  <2>1. CASE FP!Reprice(p)
    BY <2>1 DEF FP!Reprice
  <2>2. CASE FP!Keep(p)
    <3>1. graph'.cached[p] = graph.cached[p] /\ p \notin graph.dirty
      BY <2>2 DEF FP!Keep
    <3>2. m \in MarketNode
      BY <3>1 DEF TypeOK, Result
    <3>3. overlay'[m] = overlay[m]
      BY <2>2, <3>1, <3>2 DEF FP!Keep, FP!Moved
    <3>4. QED
      BY <3>1, <3>3 DEF Fresh, FP!BoardFresh
  <2>3. QED
    BY <1>2, <2>1, <2>2 DEF FP!FNext
<1>3. QED
  BY <1>1, <1>2

(* What is on the way stays on the way until it is applied.                *)
LEMMA LostStep == TypeOK /\ QueuesAscend /\ NothingLost /\ [Next]_vars => NothingLost'
<1> SUFFICES ASSUME TypeOK, QueuesAscend, NothingLost, [Next]_vars,
                    NEW m \in MarketNode, NEW v \in overlay'[m] + 1 .. sent'[m]
             PROVE  Holds(incoming, m, v)' \/ Holds(market_queue, m, v)'
  BY DEF NothingLost
<1> DEFINE e == [kind |-> "market", node |-> m, version |-> v]
           n == Len(incoming)
           k == Len(market_queue)
<1>1. /\ n \in Nat /\ k \in Nat /\ overlay[m] \in Nat /\ sent[m] \in Nat
      /\ \A i \in 1 .. n : incoming[i] \in MarketEvent \cup SchedulerEvent
  BY DEF TypeOK
<1>2. ASSUME v \in overlay[m] + 1 .. sent[m]
      PROVE  \/ \E i \in 1 .. n : incoming[i] = e
             \/ \E i \in 1 .. k : market_queue[i] = e
  BY <1>2 DEF NothingLost, Holds
<1> HIDE DEF e
<1>3. /\ (\E i \in 1 .. Len(incoming') : incoming'[i] = e) => Holds(incoming, m, v)'
      /\ (\E i \in 1 .. Len(market_queue') : market_queue'[i] = e)
         => Holds(market_queue, m, v)'
  BY DEF Holds, e
<1>4. ASSUME UNCHANGED <<incoming, market_queue, overlay, sent>>
      PROVE  Holds(incoming, m, v)' \/ Holds(market_queue, m, v)'
  BY <1>2, <1>3, <1>4
<1>5. ASSUME NEW x \in MarketNode, PublishMarketDataUpdate(x)
      PROVE  Holds(incoming, m, v)' \/ Holds(market_queue, m, v)'
  <2> DEFINE f == [kind |-> "market", node |-> x, version |-> sent[x] + 1]
  <2>1. /\ incoming' = incoming /\ overlay' = overlay
        /\ sent' = [sent EXCEPT ![x] = @ + 1] /\ market_queue' = Append(market_queue, f)
    BY <1>5 DEF PublishMarketDataUpdate, engine
  <2> HIDE DEF f
  <2>2. /\ Len(market_queue') = k + 1 /\ market_queue'[k + 1] = f
        /\ \A i \in 1 .. k : market_queue'[i] = market_queue[i] /\ i \in 1 .. k + 1
    BY <2>1 DEF TypeOK
  <2>3. CASE v \in overlay[m] + 1 .. sent[m]
    BY <1>1, <1>2, <1>3, <2>1, <2>2, <2>3
  <2>4. CASE v \notin overlay[m] + 1 .. sent[m]
    <3>1. m = x /\ v = sent[m] + 1
      BY <1>1, <2>1, <2>4 DEF TypeOK
    <3>2. f = e
      BY <3>1 DEF e, f
    <3>3. k + 1 \in 1 .. Len(market_queue')
      BY <1>1, <2>2
    <3>4. QED
      BY <1>3, <2>2, <3>2, <3>3
  <2>5. QED
    BY <2>3, <2>4
<1>6. CASE RelayMarketData
  <2>1. incoming' = incoming \o market_queue /\ UNCHANGED <<overlay, sent>>
    BY <1>6 DEF RelayMarketData, engine
  <2>2. /\ Len(incoming') = n + k
        /\ \A i \in 1 .. n : i \in 1 .. n + k /\ incoming'[i] = incoming[i]
        /\ \A i \in 1 .. k : n + i \in 1 .. n + k /\ incoming'[n + i] = market_queue[i]
    BY <2>1 DEF TypeOK
  <2>3. QED
    BY <1>2, <1>3, <2>1, <2>2
<1>7. CASE RelayScheduler
  <2>1. incoming' = incoming \o scheduler_queue /\ UNCHANGED <<overlay, sent, market_queue>>
    BY <1>7 DEF RelayScheduler, engine
  <2>2. \A i \in 1 .. n : i \in 1 .. Len(incoming') /\ incoming'[i] = incoming[i]
    BY <2>1 DEF TypeOK
  <2>3. QED
    BY <1>2, <1>3, <2>1, <2>2
<1>8. ASSUME NEW why \in AnyFault, ProcessOnce(why)
      PROVE  Holds(incoming, m, v)' \/ Holds(market_queue, m, v)'
  <2>1. PICK h \in MarketEvent \cup SchedulerEvent :
          h = incoming[1] /\ incoming # <<>> /\ incoming' = Tail(incoming)
          /\ overlay' = OverlayAfter(h)
    BY <1>8, ProcessStep
  <2>2. UNCHANGED <<market_queue, sent>> /\ overlay'[m] >= overlay[m] /\ overlay'[m] \in Nat
    BY <1>8, ProcessAdvances, ProcessType DEF ProcessOnce, sources, TypeOK
  <2>3. v \in overlay[m] + 1 .. sent[m] /\ v > overlay'[m]
    BY <1>1, <2>2
  <2>4. incoming[1] # e
    <3> SUFFICES ASSUME h = e PROVE FALSE
      BY <2>1
    <3>1. h.kind = "market" /\ h.node = m /\ h.version = v
      BY DEF e
    <3>2. overlay' = [overlay EXCEPT ![m] = v]
      BY <2>1, <3>1 DEF OverlayAfter
    <3>3. QED
      BY <2>3, <3>2 DEF TypeOK
  <2>5. \A i \in 1 .. n : i # 1 => i - 1 \in 1 .. Len(incoming')
        /\ incoming'[i - 1] = incoming[i]
    BY <2>1 DEF TypeOK
  <2>6. QED
    BY <1>2, <1>3, <2>2, <2>3, <2>4, <2>5
<1>9. ASSUME NEW x \in SchedulerNode, SchedulerEmit(x)
      PROVE  UNCHANGED <<incoming, market_queue, overlay, sent>>
  BY <1>9 DEF SchedulerEmit, engine
<1>10. ASSUME Application
       PROVE  UNCHANGED <<incoming, market_queue, overlay, sent>>
  BY <1>10
     DEF Application, RegisterPricingNode, CacheReferenceData, SubscribeUpdates,
         UnsubscribeUpdates, sources, engine
<1>11. ASSUME UNCHANGED vars
       PROVE  UNCHANGED <<incoming, market_queue, overlay, sent>>
  BY <1>11 DEF vars, sources, engine
<1>12. QED
  BY <1>4, <1>5, <1>6, <1>7, <1>8, <1>9, <1>10, <1>11 DEF Next, Producer, Relay

LEMMA InitInv == Init => IInv /\ FP!FInit
<1> SUFFICES ASSUME Init PROVE IInv /\ FP!FInit
  OBVIOUS
<1>1. TypeOK
  BY InitType
<1>2. \A p \in PricingId : graph.cached[p] = NoValue /\ p \notin graph.dirty
  BY NodeAssumption DEF Init, EmptyGraph
<1>3. QueuesAscend
  BY DEF Init, QueuesAscend, Newer, Ascending
<1>4. StillUpstream /\ Fresh
  BY <1>2 DEF StillUpstream, Fresh, FP!BoardFresh
<1>5. FP!FInit
  BY <1>2 DEF Init, FP!FInit
<1>6. NothingLost
  BY DEF Init, NothingLost
<1>7. QED
  BY <1>1, <1>3, <1>4, <1>5, <1>6 DEF IInv

LEMMA InvStep == IInv /\ [Next]_vars => IInv' /\ [FP!FNext]_(FP!fvars)
BY TypeStep, QueueStep, LostStep, UpstreamStep, ContractStep, FreshStep DEF IInv

(* The inductive invariant: types, ascending queues, live upstream links   *)
(* and freshness hold together in every state.                             *)
THEOREM InvariantHolds == Spec => []IInv
BY InitInv, InvStep, PTL DEF Spec

(* No stale price goes unnoticed, whatever the graph, the registrations,   *)
(* the faults and the number of updates (Fresh): a clean pricing node was  *)
(* priced from the market data the engine now holds.                       *)
THEOREM FreshHolds == Spec => []Fresh
<1>1. IInv => Fresh
  BY DEF IInv
<1>2. QED
  BY <1>1, InvariantHolds, PTL

(* The engine implements the contract of FreshPrices.                      *)
THEOREM ImplementsFreshPrices == Spec => KeepsPricesFresh
<1>1. Spec => FP!FInit /\ [][FP!FNext]_(FP!fvars)
  BY InitInv, InvStep, PTL DEF Spec
<1>2. QED
  BY <1>1 DEF KeepsPricesFresh, FP!FSpec

(* The two queues one behind the other are what is on the way.             *)
LEMMA OnTheWay == ASSUME TypeOK, QueuesAscend, NothingLost PROVE AppliedInOrder
<1> DEFINE n == Len(incoming)
           k == Len(market_queue)
           way == incoming \o market_queue
<1>1. /\ n \in Nat /\ k \in Nat /\ Len(way) = n + k
      /\ \A i \in 1 .. n : i \in 1 .. n + k /\ way[i] = incoming[i]
      /\ \A i \in 1 .. k : n + i \in 1 .. n + k /\ way[n + i] = market_queue[i]
      /\ \A i \in 1 .. n + k : i \in 1 .. n \/ i - n \in 1 .. k
      /\ \A i \in 1 .. n + k : i - n \in 1 .. k => way[i] = market_queue[i - n]
  BY DEF TypeOK
<1> HIDE DEF way
<1>2. Newer(way)
  <2>1. ASSUME NEW i \in 1 .. n + k, way[i].kind = "market"
        PROVE  overlay[way[i].node] < way[i].version /\ way[i].version <= sent[way[i].node]
    <3>1. CASE i \in 1 .. n
      BY <1>1, <2>1, <3>1 DEF QueuesAscend, Newer
    <3>2. CASE i - n \in 1 .. k
      BY <1>1, <2>1, <3>2 DEF QueuesAscend, Newer
    <3>3. QED
      BY <1>1, <3>1, <3>2
  <2>2. QED
    BY <1>1, <2>1 DEF Newer
<1>3. Ascending(way)
  <2> SUFFICES ASSUME NEW i \in 1 .. n + k, NEW j \in 1 .. n + k,
                      i < j, SameSeries(way[i], way[j])
               PROVE  way[i].version < way[j].version
    BY <1>1 DEF Ascending
  <2>1. CASE i \in 1 .. n /\ j \in 1 .. n
    BY <2>1, <1>1 DEF QueuesAscend, Ascending
  <2>2. CASE i \in 1 .. n /\ j - n \in 1 .. k
    BY <2>2, <1>1 DEF QueuesAscend
  <2>3. CASE i - n \in 1 .. k /\ j - n \in 1 .. k
    <3>1. i - n < j - n
      BY <1>1
    <3>2. QED
      BY <2>3, <3>1, <1>1 DEF QueuesAscend, Ascending
  <2>4. CASE i - n \in 1 .. k /\ j \in 1 .. n
    BY <2>4, <1>1
  <2>5. QED
    BY <2>1, <2>2, <2>3, <2>4, <1>1
<1>4. ASSUME NEW m \in MarketNode, NEW v \in overlay[m] + 1 .. sent[m]
      PROVE  Holds(way, m, v)
  <2>1. CASE Holds(incoming, m, v)
    BY <1>1, <2>1 DEF Holds
  <2>2. CASE Holds(market_queue, m, v)
    BY <1>1, <2>2 DEF Holds
  <2>3. QED
    BY <2>1, <2>2 DEF NothingLost
<1>5. QED
  BY <1>2, <1>3, <1>4 DEF AppliedInOrder, way

(* Every update published is applied, once and in the order of its series, *)
(* through both queues and the relay between them, whatever else is on the *)
(* way.                                                                    *)
THEOREM AppliedInOrderHolds == Spec => []AppliedInOrder
<1>1. IInv => AppliedInOrder
  BY OnTheWay DEF IInv
<1>2. QED
  BY <1>1, InvariantHolds, PTL

-----------------------------------------------------------------------------
(* What the engine's clients learn: the history variables of module        *)
(* MCReactiveEngine remember which results an exception kept from them.    *)
LEMMA HistoryRefines == MCSpec => Spec
<1>1. MCInit => Init
  BY DEF MCInit
<1>2. [MCNext]_<<vars, history>> => [Next]_vars
  BY DEF MCNext, MCProcessOnce, Next
<1>3. QED
  BY <1>1, <1>2, PTL DEF MCSpec, Spec

LEMMA PriceTells ==
  ASSUME NEW p, NEW g, NEW ov
  PROVE  Price(p, g, ov).priced = MayBePriced(p, ov)
BY DEF Price

(* process_once, with what it leaves of the batch.                         *)
LEMMA BatchOutcome ==
  ASSUME TypeOK, NEW f \in AnyFault, ProcessOnce(f)
  PROVE  LET batch == Batch(GraphAfter(Head(incoming)))
             done  == batch \ QueryDirty(graph')
         IN  /\ done = Stored(batch, f) /\ done \subseteq PricingId /\ batch \subseteq PricingId
             /\ f \in Fault(batch, overlay')
             /\ \A p \in PricingId : p \notin done => graph'.cached[p] = graph.cached[p]
             /\ \A p \in done : graph'.cached[p].priced = MayBePriced(p, overlay')
             /\ outputs' = OutputsAfter(graph', overlay', done, f)
             /\ view' = ViewAfter(graph', done, f)
             /\ \A p \in PricingId :
                  p \in Batch(graph)' <=> p \in batch /\ p \notin done
<1> DEFINE g == GraphAfter(Head(incoming))
           batch == Batch(g)
<1>1. PICK e \in MarketEvent \cup SchedulerEvent, done \in SUBSET PricingId :
        /\ e = incoming[1] /\ incoming # <<>>
        /\ overlay' = OverlayAfter(e)
        /\ graph' = StorePrices(GraphAfter(e), OverlayAfter(e), done)
        /\ GraphAfter(e) \in Graph(Values)
        /\ OverlayAfter(e) \in [MarketNode -> Nat]
        /\ done = Stored(Batch(GraphAfter(e)), f)
        /\ f \in Fault(Batch(GraphAfter(e)), OverlayAfter(e))
        /\ outputs' = OutputsAfter(graph', overlay', done, f)
        /\ view' = ViewAfter(graph', done, f)
  BY ProcessStep
<1>2. e = Head(incoming)
  BY <1>1 DEF TypeOK
<1>3. g = GraphAfter(e) /\ g \in Graph(Values)
  BY <1>1, <1>2
<1>4. \A p \in PricingId : g.cached[p] = graph.cached[p]
  BY <1>1, <1>3, ListenerStep
<1> HIDE DEF g
<1>5. /\ graph'.dirty = g.dirty \ done
      /\ \A p \in PricingId : graph'.cached[p] =
           IF p \in done THEN Price(p, g, overlay') ELSE g.cached[p]
  BY <1>1, <1>3, StoreStep, NodeAssumption
<1>6. graph'.nodes = g.nodes
  BY <1>1, <1>3 DEF StorePrices, Graph
<1>7. batch \subseteq PricingId \cap g.dirty \cap g.nodes /\ done \subseteq batch
  BY <1>1, <1>3 DEF Batch, QueryDirty, Stored
<1>8. batch \ QueryDirty(graph') = done
  BY <1>5, <1>6, <1>7 DEF QueryDirty
<1>9. \A p \in PricingId : p \in Batch(graph)' <=> p \in batch /\ p \notin done
  BY <1>5, <1>6, <1>7 DEF Batch, QueryDirty, ProcessOnce
<1>10. \A p \in done : graph'.cached[p].priced = MayBePriced(p, overlay')
  <2> SUFFICES ASSUME NEW p \in done
               PROVE  graph'.cached[p].priced = MayBePriced(p, overlay')
    OBVIOUS
  <2>1. graph'.cached[p] = Price(p, g, overlay')
    BY <1>5
  <2>2. QED
    BY <2>1, PriceTells
<1>11. \A p \in PricingId : p \notin done => graph'.cached[p] = graph.cached[p]
  BY <1>4, <1>5
<1>12. done = Stored(batch, f) /\ f \in Fault(batch, overlay')
  BY <1>1, <1>3
<1>13. QED
  BY <1>1, <1>7, <1>8, <1>9, <1>10, <1>11, <1>12 DEF g

LEMMA BatchClients ==
  ASSUME TypeOK, ViewsFollowGraph, OutputsPublished, NEW f \in AnyFault, MCProcessOnce(f)
  PROVE  /\ ViewsFollowGraph' /\ OutputsPublished'
         /\ IF f = NoFault THEN Batch(graph)' = {}
            ELSE f.when = "resolving" => f.at \in Batch(graph)'
<1> DEFINE batch == Batch(GraphAfter(Head(incoming)))
           done  == batch \ QueryDirty(graph')
<1>1. /\ done = Stored(batch, f) /\ done \subseteq PricingId /\ batch \subseteq PricingId
      /\ f \in Fault(batch, overlay')
      /\ \A p \in PricingId : p \notin done => graph'.cached[p] = graph.cached[p]
      /\ \A p \in done : graph'.cached[p].priced = MayBePriced(p, overlay')
      /\ outputs' = OutputsAfter(graph', overlay', done, f)
      /\ view' = ViewAfter(graph', done, f)
      /\ \A p \in PricingId : p \in Batch(graph)' <=> p \in batch /\ p \notin done
  BY BatchOutcome DEF MCProcessOnce
<1>2. /\ subscribed' = subscribed
      /\ unheard' = IF f = NoFault THEN unheard \ done ELSE unheard \cup done
      /\ unpublished' = (unpublished \ done) \cup (IF f.when = "publishing" THEN {f.at} ELSE {})
  BY DEF MCProcessOnce, ProcessOnce
<1> HIDE DEF batch, done
<1>3. subscribed \subseteq Subscriber /\ Batch(graph)' \subseteq PricingId
  BY DEF TypeOK, Batch
<1>4. ViewsFollowGraph'
  <2> SUFFICES ASSUME NEW c \in subscribed, NEW p \in PricingId, p \notin unheard'
               PROVE  view'[c][p] = graph'.cached[p]
    BY <1>2 DEF ViewsFollowGraph
  <2>1. view'[c][p] = IF p \in done /\ f = NoFault THEN graph'.cached[p] ELSE view[c][p]
    BY <1>1, <1>3 DEF ViewAfter
  <2>2. CASE p \in done
    BY <1>2, <2>1, <2>2
  <2>3. CASE p \notin done
    BY <1>1, <1>2, <2>1, <2>3 DEF ViewsFollowGraph
  <2>4. QED
    BY <2>2, <2>3
<1>5. ASSUME NEW p \in done, p = f.at
      PROVE  f.when = "publishing"
  <2>1. p \in NodeId /\ f # NoFault
    BY <1>1, <1>5, NodeAssumption, ValueAssumption DEF NoFault
  <2>2. ~ (Rank[p] < Rank[p])
    BY <2>1, NodeAssumption
  <2>3. QED
    BY <1>1, <1>5, <2>1, <2>2 DEF Stored
<1>6. OutputsPublished'
  <2> SUFFICES ASSUME NEW p \in PricingId, p \notin unpublished',
                      graph'.cached[p] # NoValue, graph'.cached[p].priced
               PROVE  outputs'[p] = graph'.cached[p]
    BY DEF OutputsPublished
  <2>1. outputs'[p] = IF p \in done \ {f.at} /\ MayBePriced(p, overlay')
                      THEN graph'.cached[p] ELSE outputs[p]
    BY <1>1 DEF OutputsAfter
  <2>2. CASE p \in done
    BY <1>1, <1>2, <1>5, <2>1, <2>2
  <2>3. CASE p \notin done
    BY <1>1, <1>2, <2>1, <2>3 DEF OutputsPublished
  <2>4. QED
    BY <2>2, <2>3
<1>7. ASSUME f = NoFault
      PROVE  Batch(graph)' = {}
  <2>1. done = batch
    BY <1>1, <1>7 DEF Stored
  <2>2. QED
    BY <1>1, <1>3, <2>1
<1>8. ASSUME f # NoFault, f.when = "resolving"
      PROVE  f.at \in Batch(graph)'
  <2>1. f.at \in batch
    BY <1>1, <1>8 DEF Fault
  <2>2. f.at \notin done
    BY <1>5, <1>8
  <2>3. QED
    BY <1>1, <2>1, <2>2
<1>9. QED
  BY <1>4, <1>6, <1>7, <1>8

(* The other actions: a client that subscribes reads the graph, and no     *)
(* result changes.                                                         *)
LEMMA OthersKeepClients ==
  ASSUME TypeOK, ViewsFollowGraph, OutputsPublished,
         Producer \/ Relay \/ Application \/ UNCHANGED vars, UNCHANGED history
  PROVE  ViewsFollowGraph' /\ OutputsPublished' /\ handled' = handled
<1>1. UNCHANGED <<unheard, unpublished>>
  BY DEF history
<1>2. /\ graph'.cached = graph.cached /\ outputs' = outputs /\ handled' = handled
  <2>1. ASSUME NEW r \in Registration, RegisterPricingNode(r)
        PROVE  graph'.cached = graph.cached /\ outputs' = outputs /\ handled' = handled
    BY <2>1, RegisterStep DEF RegisterPricingNode
  <2>2. QED
    BY <2>1 DEF Producer, Relay, Application, PublishMarketDataUpdate, SchedulerEmit,
                RelayMarketData, RelayScheduler, CacheReferenceData, SubscribeUpdates,
                UnsubscribeUpdates, engine, vars
<1>3. OutputsPublished'
  BY <1>1, <1>2 DEF OutputsPublished
<1>4. ASSUME UNCHANGED <<subscribed, view>>
      PROVE  ViewsFollowGraph'
  BY <1>1, <1>2, <1>4 DEF ViewsFollowGraph
<1>5. ASSUME NEW c \in Subscriber, SubscribeUpdates(c)
      PROVE  ViewsFollowGraph'
  <2>1. /\ subscribed' = subscribed \cup {c}
        /\ view' = [view EXCEPT ![c] = [p \in PricingId |-> graph.cached[p]]]
    BY <1>5 DEF SubscribeUpdates
  <2>2. \A b \in subscribed \cup {c}, p \in PricingId :
          view'[b][p] = IF b = c THEN graph.cached[p] ELSE view[b][p]
    BY <2>1 DEF TypeOK
  <2>3. QED
    BY <1>1, <1>2, <2>1, <2>2 DEF ViewsFollowGraph
<1>6. ASSUME NEW c \in Subscriber, UnsubscribeUpdates(c)
      PROVE  ViewsFollowGraph'
  <2>1. /\ subscribed' = subscribed \ {c}
        /\ \A b \in subscribed \ {c} : view'[b] = view[b]
    BY <1>6 DEF UnsubscribeUpdates, TypeOK
  <2>2. QED
    BY <1>1, <1>2, <2>1 DEF ViewsFollowGraph
<1>7. QED
  BY <1>2, <1>3, <1>4, <1>5, <1>6
     DEF Producer, Relay, Application, PublishMarketDataUpdate, SchedulerEmit,
         RelayMarketData, RelayScheduler, RegisterPricingNode, CacheReferenceData,
         clients, vars

ClientsInv == IInv /\ ViewsFollowGraph /\ OutputsPublished

BatchEnds ==
  handled' # handled =>
    IF fault' = NoFault THEN Batch(graph)' = {}
    ELSE fault'.when = "resolving" => fault'.at \in Batch(graph)'

LEMMA ClientsStep ==
  ClientsInv /\ [MCNext]_<<vars, history>> => ClientsInv' /\ [BatchEnds]_vars
<1> SUFFICES ASSUME ClientsInv, [MCNext]_<<vars, history>>
             PROVE  ClientsInv' /\ BatchEnds
  OBVIOUS
<1>1. [Next]_vars
  BY DEF MCNext, MCProcessOnce, Next
<1>2. IInv' /\ TypeOK
  BY <1>1, InvStep DEF ClientsInv, IInv
<1>3. ASSUME NEW f \in AnyFault, MCProcessOnce(f)
      PROVE  ViewsFollowGraph' /\ OutputsPublished' /\ BatchEnds
  <2>1. fault' = f
    BY <1>3 DEF MCProcessOnce
  <2>2. QED
    BY <1>2, <1>3, <2>1, BatchClients DEF ClientsInv, BatchEnds
<1>4. ASSUME Producer \/ Relay \/ Application \/ UNCHANGED vars, UNCHANGED history
      PROVE  ViewsFollowGraph' /\ OutputsPublished' /\ BatchEnds
  BY <1>2, <1>4, OthersKeepClients DEF ClientsInv, BatchEnds
<1>5. QED
  BY <1>2, <1>3, <1>4 DEF MCNext, ClientsInv

LEMMA ClientsInit == MCInit => ClientsInv
<1> SUFFICES ASSUME MCInit
             PROVE  ClientsInv
  OBVIOUS
<1>1. IInv
  BY InitInv DEF MCInit
<1>2. \A p \in PricingId : graph.cached[p] = NoValue
  BY NodeAssumption DEF MCInit, Init, EmptyGraph
<1>3. subscribed = {}
  BY DEF MCInit, Init
<1>4. QED
  BY <1>1, <1>2, <1>3 DEF ClientsInv, ViewsFollowGraph, OutputsPublished

LEMMA ClientsInvHolds == MCSpec => []ClientsInv
BY ClientsInit, ClientsStep, PTL DEF MCSpec

(* A subscriber that read the graph when it subscribed knows every result  *)
(* the graph holds, but those of batches cut short by an exception.        *)
THEOREM ViewsFollowGraphHolds == MCSpec => []ViewsFollowGraph
<1>1. ClientsInv => ViewsFollowGraph
  BY DEF ClientsInv
<1>2. QED
  BY <1>1, ClientsInvHolds, PTL

(* Every priced result in the graph went to the output publisher, except   *)
(* where the call for it raised.                                           *)
THEOREM OutputsPublishedHolds == MCSpec => []OutputsPublished
<1>1. ClientsInv => OutputsPublished
  BY DEF ClientsInv
<1>2. QED
  BY <1>1, ClientsInvHolds, PTL

(* A process_once that returns leaves no registered node dirty, and one    *)
(* that raises leaves dirty the node that it could not resolve.            *)
THEOREM BatchCompletesHolds == MCSpec => BatchCompletes
<1>1. ClientsInv /\ [MCNext]_<<vars, history>> => [BatchEnds]_vars
  BY ClientsStep
<1>2. QED
  BY <1>1, ClientsInvHolds, PTL DEF MCSpec, BatchCompletes, BatchEnds
=============================================================================
