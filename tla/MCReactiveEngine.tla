------------------------- MODULE MCReactiveEngine -------------------------
(***************************************************************************)
(* A small engine: one or two instruments, a fixing, two pricing nodes     *)
(* with a chain between them, and a scheduler node with no pricing input.  *)
(* A history variable remembers which results a raising provider or        *)
(* publisher kept from the subscribers.                                    *)
(***************************************************************************)
EXTENDS ReactiveEngine, TLC

CONSTANTS quote, fixing, first, second, eod

MCNodeId == {quote, fixing, first, second, eod}

MCRank == (first :> 1) @@ (second :> 2) @@ (quote :> 3) @@ (fixing :> 4) @@ (eod :> 5)

ByQuote == [instrument |-> quote, by_id |-> FALSE, has_curve |-> FALSE]
ById    == [instrument |-> quote, by_id |-> TRUE, has_curve |-> TRUE]

(* "first" hangs on its quote, "second" also on "first", on the fixing and *)
(* on the scheduler's node; "first" may be registered again with the       *)
(* fixing.                                                                 *)
MCRegistration ==
  { [node |-> first,  input |-> ByQuote, deps |-> {}],
    [node |-> first,  input |-> ById,    deps |-> {fixing}],
    [node |-> second, input |-> ById,    deps |-> {first, eod}] }

(* For the liveness run: no fixing, and a scheduler that ticks "first".    *)
LiveNodeId == {quote, first, second}

LiveRank == (second :> 1) @@ (first :> 2) @@ (quote :> 3)

LiveRegistration ==
  { [node |-> first,  input |-> ByQuote, deps |-> {}],
    [node |-> second, input |-> ById,    deps |-> {first}] }

-----------------------------------------------------------------------------
VARIABLES
  fault,        \* how the last process_once ended
  unheard,      \* the nodes whose last result is from a batch that was cut short
  unpublished   \* the nodes whose last result the publisher refused

history == <<fault, unheard, unpublished>>

MCInit == Init /\ fault = NoFault /\ unheard = {} /\ unpublished = {}

(* The nodes a batch stores are those that it leaves clean.                *)
MCProcessOnce(f) ==
  LET done == Batch(GraphAfter(Head(incoming))) \ QueryDirty(graph')
  IN  /\ ProcessOnce(f)
      /\ fault' = f
      /\ unheard' = IF f = NoFault THEN unheard \ done ELSE unheard \cup done
      /\ unpublished' =
           (unpublished \ done) \cup (IF f.when = "publishing" THEN {f.at} ELSE {})

MCNext ==
  \/ (Producer \/ Relay \/ Application) /\ UNCHANGED history
  \/ \E f \in AnyFault : MCProcessOnce(f)

MCSpec == MCInit /\ [][MCNext]_<<vars, history>>

MCLiveSpec == MCSpec /\ Fairness

(* A client that read the graph when it subscribed and follows its queue   *)
(* knows every pricing result the graph holds, except those of batches     *)
(* that an exception cut short, which are never fanned out (process_once). *)
ViewsFollowGraph ==
  \A c \in subscribed : \A p \in PricingId \ unheard : view[c][p] = graph.cached[p]

(* Every priced result the graph holds went to the output publisher, those *)
(* of a batch that was cut short too, except one whose publish call raised *)
(* (_evaluate_dirty_pricing_nodes).                                        *)
OutputsPublished ==
  \A p \in PricingId \ unpublished :
    graph.cached[p] # NoValue /\ graph.cached[p].priced => outputs[p] = graph.cached[p]

(* One event is one complete batch: a process_once that returns leaves no  *)
(* registered node dirty, whatever happened to the others; one that raises *)
(* never leaves the node that it could not resolve clean.                  *)
BatchCompletes ==
  [][handled' # handled =>
       IF fault' = NoFault THEN Batch(graph)' = {}
       ELSE fault'.when = "resolving" => fault'.at \in Batch(graph)']_vars
=============================================================================
