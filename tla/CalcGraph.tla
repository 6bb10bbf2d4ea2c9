----------------------------- MODULE CalcGraph -----------------------------
(***************************************************************************)
(* The calculation graph of _runtime/calc_graph.py: nodes added on demand, *)
(* dependency edges kept in both directions, a cached value and a dirty    *)
(* flag.  The graph is a record; each operator below is the effect of one  *)
(* method on it.  A method never suspends, so a handler that calls several *)
(* of them composes the operators in one step.                             *)
(*                                                                         *)
(* A node's revision, timestamp, source label, metadata and shard are left *)
(* out: no method's control depends on them, and the runtime reads none.   *)
(***************************************************************************)
EXTENDS Naturals, GraphReach

CONSTANT NoValue      \* cached_value is None: nothing cached yet

Graph(Value) ==
  [ nodes        : SUBSET NodeId,
    dependencies : [NodeId -> SUBSET NodeId],
    dependents   : [NodeId -> SUBSET NodeId],
    cached       : [NodeId -> Value \cup {NoValue}],
    dirty        : SUBSET NodeId ]

EmptyGraph ==
  [ nodes        |-> {},
    dependencies |-> [n \in NodeId |-> {}],
    dependents   |-> [n \in NodeId |-> {}],
    cached       |-> [n \in NodeId |-> NoValue],
    dirty        |-> {} ]

AddNode(g, n) == [g EXCEPT !.nodes = @ \cup {n}]

AddDependency(g, child, parent) ==
  [AddNode(AddNode(g, child), parent)
     EXCEPT !.dependencies[child] = @ \cup {parent},
            !.dependents[parent]  = @ \cup {child}]

(* mark_dirty and mark_dependents_dirty; module MarkDirtyLoop shows that   *)
(* the loop of mark_dirty computes Marked.                                 *)
MarkDirty(g, n) ==
  [AddNode(g, n) EXCEPT !.dirty = @ \cup Marked(g.dependents, n, TRUE, TRUE)]

(* Mutant: propagation stops after one edge.                               *)
MarkDirectDependents(g, n) ==
  [AddNode(g, n) EXCEPT !.dirty = @ \cup (g.dependents[n] \ {n})]

MarkDependentsDirty(g, n) ==
  [AddNode(g, n) EXCEPT !.dirty = @ \cup Marked(g.dependents, n, TRUE, FALSE)]

(* update_node_value with mark_clean=True, the only form the runtime calls.*)
UpdateNodeValue(g, n, v) ==
  [AddNode(g, n) EXCEPT !.cached[n] = v, !.dirty = @ \ {n}]

QueryDirty(g) == g.dirty \cap g.nodes
=============================================================================
