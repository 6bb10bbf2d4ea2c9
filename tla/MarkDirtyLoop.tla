--------------------------- MODULE MarkDirtyLoop ---------------------------
(***************************************************************************)
(* The loop of CalculationGraph.mark_dirty (_runtime/calc_graph.py), one   *)
(* step per iteration: an explicit stack, a set of nodes marked by this    *)
(* call, and a root that is expanded but not marked when include_self is   *)
(* False.  The graph is any graph, cycles and self-loops included: the     *)
(* code adds edges without a cycle check and never removes one.            *)
(***************************************************************************)
EXTENDS Integers, Sequences, GraphReach

CONSTANT
  Descending    \* sorted(..., reverse=True): a sequence of the members of a set

ASSUME DescendingAssumption ==
  /\ Descending \in [SUBSET NodeId -> Seq(NodeId)]
  /\ \A S \in SUBSET NodeId :
       {Descending[S][i] : i \in 1 .. Len(Descending[S])} = S

VARIABLES
  dependents, root, propagate, include_self,   \* the graph and the call
  before,       \* the dirty nodes when the call was made
  stack,        \* the last element is the top
  marked,
  dirty

call == <<dependents, root, propagate, include_self, before>>
vars == <<call, stack, marked, dirty>>

Elements(s) == {s[i] : i \in 1 .. Len(s)}

TypeOK ==
  /\ dependents \in [NodeId -> SUBSET NodeId]
  /\ root \in NodeId
  /\ propagate \in BOOLEAN /\ include_self \in BOOLEAN
  /\ stack \in Seq(NodeId)
  /\ before \subseteq NodeId /\ marked \subseteq NodeId /\ dirty \subseteq NodeId

Init ==
  /\ dependents \in [NodeId -> SUBSET NodeId]
  /\ root \in NodeId
  /\ propagate \in BOOLEAN /\ include_self \in BOOLEAN
  /\ before \in SUBSET NodeId
  /\ stack = <<root>>
  /\ marked = {}
  /\ dirty = before

Top     == stack[Len(stack)]
Popped  == SubSeq(stack, 1, Len(stack) - 1)
MarkingAlways == TRUE    \* mutant: the root is marked whatever include_self says
Marking == Top # root \/ include_self

(* Mutant: a node seen before stays on the stack. *)
SkipWithoutPop ==
  /\ stack # <<>>
  /\ Marking /\ Top \in marked
  /\ UNCHANGED vars

(* The node on top was marked by this call already. *)
Skip ==
  /\ stack # <<>>
  /\ Marking /\ Top \in marked
  /\ stack' = Popped
  /\ UNCHANGED <<call, marked, dirty>>

(* The node on top is marked, unless it is an excluded root, and expanded. *)
Expand ==
  /\ stack # <<>>
  /\ ~(Marking /\ Top \in marked)
  /\ marked' = IF Marking THEN marked \cup {Top} ELSE marked
  /\ dirty'  = IF Marking THEN dirty \cup {Top} ELSE dirty
  /\ stack'  = IF propagate THEN Popped \o Descending[dependents[Top]] ELSE Popped
  /\ UNCHANGED call

Next == Skip \/ Expand

Spec == Init /\ [][Next]_vars /\ WF_vars(Next)

Returned == stack = <<>>
-----------------------------------------------------------------------------
(* When the loop ends, exactly the promised nodes are newly dirty: every   *)
(* transitive dependent, whatever the shape of the graph, and no other     *)
(* node (mark_dirty's contract).                                           *)
MarksExactlyDownstream ==
  Returned => dirty = before \cup Marked(dependents, root, propagate, include_self)

(* The argument for it: what was marked is promised, every marked node has *)
(* its dependents marked or on the stack, and so has the root unless it is *)
(* itself still to be taken from the stack.                                *)
Covered(m) == dependents[m] \subseteq marked \cup Elements(stack) \cup {root}

LoopInv ==
  /\ TypeOK
  /\ dirty = before \cup marked
  /\ marked \subseteq Marked(dependents, root, propagate, include_self)
  /\ Elements(stack) \subseteq
        {root} \cup (IF propagate THEN Downstream(dependents, root) ELSE {})
  /\ propagate => /\ \A m \in marked : Covered(m)
                  /\ root \in Elements(stack) \/ Covered(root)
  /\ include_self => root \in marked \cup Elements(stack)

(* The call returns on every graph, cyclic ones included, unless the       *)
(* excluded root is a dependent of itself: that root is never marked, so   *)
(* each visit pushes it again.                                             *)
Terminating == include_self \/ ~propagate \/ root \notin dependents[root]

CallReturns == Terminating => <>Returned
=============================================================================
