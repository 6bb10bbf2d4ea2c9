-------------------------------- MODULE MCStore --------------------------------
(***************************************************************************)
(* The stores: curve snapshots and overrides in SQLite, and records that   *)
(* are listed page by page.  They share no table, so that a behaviour is   *)
(* one of a single "part", with the variables of the others at rest.       *)
(***************************************************************************)
EXTENDS SnapshotStore

CONSTANTS Conn, Place, Date, NULL, Value, MaxOverrides, Id, AsOf, NoDate, Label,
          Absent, PageSize, MaxEdits

VARIABLES
  part,
  overrides, next_id, audit, call, refused, changed,
  store, rows, walk, removed, left, changes

Overrides == INSTANCE OverrideStore WITH MaxChanges <- MaxOverrides

Records == INSTANCE RecordPages WITH Limit <- PageSize, MaxChanges <- MaxEdits

ASSUME PartsAssumption == Overrides!OverrideConstants /\ Records!PageConstants

overriding == <<overrides, next_id, audit, call, refused, changed>>

paging == <<store, rows, walk, removed, left, changes>>

all == <<part, vars, overriding, paging>>

-----------------------------------------------------------------------------
NoRecords ==
  /\ store = "bonds" /\ rows = [k \in Records!Key |-> Absent] /\ walk = Records!Idle
  /\ removed = {} /\ left = 0 /\ changes = 0

PartInit ==
  \/ part = "snapshots" /\ Init /\ Overrides!Init /\ NoRecords
  \/ part = "overrides" /\ Overrides!Init /\ Init /\ NoRecords
  \/ part = "records" /\ Records!Init /\ Init /\ Overrides!Init

PartNext ==
  \/ part = "snapshots" /\ Next /\ UNCHANGED <<part, overriding, paging>>
  \/ part = "overrides" /\ Overrides!Next /\ UNCHANGED <<part, vars, paging>>
  \/ part = "records" /\ Records!Next /\ UNCHANGED <<part, vars, overriding>>

PartSpec == PartInit /\ [][PartNext]_all

-----------------------------------------------------------------------------
(* OverrideStore: a map with one value per key, dates that are NULL        *)
(* included, every change of which is answered for by one entry of the     *)
(* audit log.                                                              *)
KeepsAuditedMap == Overrides!KeepsAuditedMap

(* SnapshotStore and RecordPages: a walk over the pages of snapshots       *)
(* misses nothing while others insert; one over the pages of records       *)
(* misses no more than left its listing meanwhile, by a delete or a        *)
(* replacement, or came between the two statements of its last page.       *)
PagesMissNothing == WalkSeesAll /\ Records!MissesOnlyMoved
=============================================================================
