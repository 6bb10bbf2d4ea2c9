---------------------------- MODULE GraphReach ----------------------------
(***************************************************************************)
(* Reachability along the "dependents" edges of the calculation graph, and *)
(* the set of nodes a call of CalculationGraph.mark_dirty promises to mark *)
(* (_runtime/calc_graph.py), with the facts about reachability in any graph*)
(* that the proofs about mark_dirty and the reactive engine rest on.       *)
(***************************************************************************)

EXTENDS TLAPS

CONSTANT NodeId      \* the node identifiers

ClosedUnder(dependents, S) == \A m \in S : dependents[m] \subseteq S

(* The nodes reachable from n along one or more edges: the least set that  *)
(* holds the dependents of n and of each of its members.                   *)
Downstream(dependents, n) ==
  { m \in NodeId :
      \A S \in SUBSET NodeId :
         dependents[n] \subseteq S /\ ClosedUnder(dependents, S) => m \in S }

(* What one call marks.  With include_self=False the root is not marked    *)
(* even when a cycle leads back to it.                                     *)
Marked(dependents, n, propagate, include_self) ==
  (IF include_self THEN {n} ELSE {})
    \cup (IF propagate THEN Downstream(dependents, n) \ {n} ELSE {})

-----------------------------------------------------------------------------
(* Downstream holds the direct dependents and is closed: what is reachable *)
(* from a reachable node is reachable.                                     *)
LEMMA DownstreamClosed ==
  ASSUME NEW D \in [NodeId -> SUBSET NodeId], NEW n \in NodeId
  PROVE  /\ Downstream(D, n) \subseteq NodeId
         /\ D[n] \subseteq Downstream(D, n)
         /\ ClosedUnder(D, Downstream(D, n))
<1>1. Downstream(D, n) \subseteq NodeId
  BY DEF Downstream
<1>2. D[n] \subseteq Downstream(D, n)
  BY DEF Downstream
<1>3. ASSUME NEW m \in Downstream(D, n), NEW k \in D[m]
      PROVE  k \in Downstream(D, n)
  <2>1. k \in NodeId
    BY <1>1
  <2>2. ASSUME NEW S \in SUBSET NodeId, D[n] \subseteq S, ClosedUnder(D, S)
        PROVE  k \in S
    <3>1. m \in S
      BY <2>2 DEF Downstream
    <3>2. QED
      BY <3>1, <2>2 DEF ClosedUnder
  <2>3. QED
    BY <2>1, <2>2 DEF Downstream
<1>4. QED
  BY <1>1, <1>2, <1>3 DEF ClosedUnder

(* Downstream is the least such set.                                       *)
LEMMA DownstreamLeast ==
  ASSUME NEW D \in [NodeId -> SUBSET NodeId], NEW n \in NodeId,
         NEW S \in SUBSET NodeId, D[n] \subseteq S, ClosedUnder(D, S)
  PROVE  Downstream(D, n) \subseteq S
BY DEF Downstream

(* An edge more never makes a node unreachable.                            *)
LEMMA DownstreamMonotone ==
  ASSUME NEW D \in [NodeId -> SUBSET NodeId], NEW E \in [NodeId -> SUBSET NodeId],
         \A m \in NodeId : D[m] \subseteq E[m],
         NEW n \in NodeId
  PROVE  Downstream(D, n) \subseteq Downstream(E, n)
<1>1. /\ Downstream(E, n) \in SUBSET NodeId
      /\ E[n] \subseteq Downstream(E, n)
      /\ ClosedUnder(E, Downstream(E, n))
  BY DownstreamClosed
<1>2. D[n] \subseteq Downstream(E, n) /\ ClosedUnder(D, Downstream(E, n))
  BY <1>1 DEF ClosedUnder
<1>3. QED
  BY <1>1, <1>2, DownstreamLeast
=============================================================================
