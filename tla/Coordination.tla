---------------------------- MODULE Coordination ----------------------------
(***************************************************************************)
(* InMemoryPartitionRegistry and InMemoryLeaderElection                    *)
(* (_runtime/coordination.py) used together by the nodes of one process:   *)
(* any caller, leader or not, assigns partitions to nodes, since the       *)
(* registry asks nobody who leads, and a node works on the assignments it  *)
(* was given.  Nodes learn nothing of what the others do, so a node may go *)
(* on with an assignment that was replaced;                                *)
(* the version is what tells the two apart, until the partition is         *)
(* released: release drops the version with the record, and the next       *)
(* assignment is version 1 again.                                          *)
(***************************************************************************)
EXTENDS Naturals

CONSTANTS
  Node, Partition, None,
  MaxVersion      \* bound on the assignments of a partition

Assignment == [owner : Node, version : Nat]

ASSUME ConstantsAssumption ==
  None \notin Node /\ None \notin Assignment /\ MaxVersion \in Nat

VARIABLES
  assignments,    \* _assignments: per partition an owner and a version, or None
  leader,         \* _leader
  leads,          \* the nodes whose acquire returned True and that hold on to it
  held,           \* the assignments [partition, owner, version, term] handed out
  assigned,       \* the number of assignments per partition so far
  term            \* history: how often each partition was released

vars == <<assignments, leader, leads, held, assigned, term>>

TypeOK ==
  /\ assignments \in [Partition -> Assignment \cup {None}]
  /\ leader \in Node \cup {None}
  /\ leads \subseteq Node
  /\ held \subseteq [partition : Partition, owner : Node, version : Nat, term : Nat]
  /\ assigned \in [Partition -> Nat] /\ term \in [Partition -> Nat]

Init ==
  /\ assignments = [p \in Partition |-> None]
  /\ leader = None /\ leads = {}
  /\ held = {}
  /\ assigned = [p \in Partition |-> 0] /\ term = [p \in Partition |-> 0]

(* acquire: True also for the node that leads already.                     *)
Acquire(n) ==
  /\ leader \in {None, n}
  /\ leader' = n
  /\ leads' = leads \cup {n}
  /\ UNCHANGED <<assignments, held, assigned, term>>

(* release, by a node that leads or by one that only may have.             *)
ReleaseLeadership(n) ==
  /\ leader' = IF leader = n THEN None ELSE leader
  /\ leads' = leads \ {n}
  /\ UNCHANGED <<assignments, held, assigned, term>>

(* Mutant: the version counts per owner.                                   *)
VersionForOwner(p, o) ==
  IF assignments[p] # None /\ assignments[p].owner = o THEN assignments[p].version + 1 ELSE 1

NextVersion(p, o) == IF assignments[p] = None THEN 1 ELSE assignments[p].version + 1

(* assign, with the owner it returns the assignment to.                    *)
Assign(p, o) ==
  /\ assigned[p] < MaxVersion
  /\ LET v == NextVersion(p, o)
     IN  /\ assignments' = [assignments EXCEPT ![p] = [owner |-> o, version |-> v]]
         /\ held' = held \cup
              {[partition |-> p, owner |-> o, version |-> v, term |-> term[p]]}
  /\ assigned' = [assigned EXCEPT ![p] = @ + 1]
  /\ UNCHANGED <<leader, leads, term>>

(* release, by any caller.                                                 *)
ReleasePartition(p) ==
  /\ term[p] < MaxVersion
  /\ assignments' = [assignments EXCEPT ![p] = None]
  /\ term' = [term EXCEPT ![p] = @ + 1]
  /\ UNCHANGED <<leader, leads, held, assigned>>

Next ==
  \/ \E n \in Node : Acquire(n) \/ ReleaseLeadership(n)
  \/ \E p \in Partition : ReleasePartition(p) \/ \E o \in Node : Assign(p, o)

Spec == Init /\ [][Next]_vars

-----------------------------------------------------------------------------
(* However nodes acquire, release and release what is not theirs, no two   *)
(* of them take themselves for the leader at once.                         *)
OneLeader == \A n, m \in leads : n = m

(* Of two assignments of a partition that no release parts, a node can     *)
(* tell the newer by its version, and while the partition is assigned, the *)
(* current one is the newest ("Assign a partition to an owner and bump the *)
(* version").                                                              *)
VersionsTell ==
  \A h \in held :
    LET p == h.partition IN
    /\ \A g \in held :
         g.partition = p /\ g.term = h.term /\ g.version = h.version => g = h
    /\ h.term = term[p] =>
         assignments[p] # None /\ h.version =< assignments[p].version

(* The strengthening: a node that takes itself for the leader is the       *)
(* leader, and no assignment is from a term to come.                       *)
IInv ==
  /\ TypeOK
  /\ \A n \in leads : leader = n
  /\ VersionsTell
  /\ \A h \in held : h.term =< term[h.partition]
=============================================================================
