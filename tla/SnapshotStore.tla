--------------------------- MODULE SnapshotStore ---------------------------
(***************************************************************************)
(* The curve snapshots of SQLiteCurveStore (_storage/sqlite_storage.py):   *)
(* the table curve_snapshots, with its primary key (curve_id, version),    *)
(* shared by several connections to one database file.                     *)
(*                                                                         *)
(* insert_curve_snapshot reads the next version in one statement and       *)
(* writes it in a transaction of its own; list_curve_snapshots counts the  *)
(* rows in one statement and selects the page in another.  SQLite runs a   *)
(* statement at once; between two statements of a call the statements of   *)
(* the other connections run.                                              *)
(***************************************************************************)
EXTENDS FiniteSetsExt, Sequences

CONSTANTS
  Curve, Snapshot,
  Writer, Reader,     \* connections that insert, connections that list
  Limit,              \* Pagination.limit
  MaxRows             \* bound on the rows of a curve

ASSUME LimitAssumption == Limit \in Nat \ {0} /\ MaxRows \in Nat

VARIABLES
  table,      \* per curve, the snapshot stored under each version
  writer,     \* the insert each writer is in the middle of
  returned,   \* the inserts that returned a version
  reader      \* the walk over the pages each reader is in the middle of

vars == <<table, writer, returned, reader>>

Idle == [at |-> "idle"]

Insert == [at : {"inserting"}, curve : Curve, snapshot : Snapshot, version : Nat]

Walk == [ at : {"counting", "selecting", "done"}, curve : Curve,
          offset : Nat, total : Nat,
          seen : SUBSET Nat,        \* the versions in the pages so far
          since : Nat,              \* the rows there were when the walk began
          torn : BOOLEAN ]          \* a row came between a count and its page

TypeOK ==
  /\ table \in [Curve -> Seq(Snapshot)]
  /\ writer \in [Writer -> Insert \cup {Idle}]
  /\ returned \subseteq [curve : Curve, snapshot : Snapshot, version : Nat]
  /\ reader \in [Reader -> Walk \cup {Idle}]

Versions(c) == DOMAIN table[c]

Rows(c) == Cardinality(Versions(c))

Init ==
  /\ table = [c \in Curve |-> <<>>]
  /\ writer = [w \in Writer |-> Idle]
  /\ returned = {}
  /\ reader = [r \in Reader |-> Idle]

-----------------------------------------------------------------------------
(* insert_curve_snapshot.  The version is COALESCE(MAX(version), 0) + 1 of *)
(* the rows there are now.                                                 *)
ReadVersion(w, c, s) ==
  /\ writer[w] = Idle
  /\ Rows(c) < MaxRows
  /\ writer' = [writer EXCEPT ![w] =
       [at |-> "inserting", curve |-> c, snapshot |-> s,
        version |-> Max(Versions(c) \cup {0}) + 1]]
  /\ UNCHANGED <<table, returned, reader>>

Extended(t, v, s) == [u \in DOMAIN t \cup {v} |-> IF u = v THEN s ELSE t[u]]

(* Mutant: INSERT OR REPLACE, the primary key stops nobody.                *)
KeyFreeOrReplaced(c, v) == v \in Nat

(* PRIMARY KEY (curve_id, version).                                        *)
KeyFree(c, v) == v \notin Versions(c)

WriteRow(w) ==
  /\ writer[w] # Idle
  /\ LET i == writer[w]
     IN  /\ KeyFree(i.curve, i.version)
         /\ table' = [table EXCEPT ![i.curve] = Extended(@, i.version, i.snapshot)]
         /\ returned' = returned \cup
              {[curve |-> i.curve, snapshot |-> i.snapshot, version |-> i.version]}
  /\ writer' = [writer EXCEPT ![w] = Idle]
  /\ UNCHANGED reader

(* The insert raises: another connection took the version (IntegrityError),*)
(* or held the lock for too long, or this process ended.                   *)
InsertFails(w) ==
  /\ writer[w] # Idle
  /\ writer' = [writer EXCEPT ![w] = Idle]
  /\ UNCHANGED <<table, returned, reader>>

-----------------------------------------------------------------------------
(* list_curve_snapshots, called with each next_cursor until there is none. *)
BeginWalk(r, c) ==
  /\ reader[r] = Idle
  /\ reader' = [reader EXCEPT ![r] =
       [at |-> "counting", curve |-> c, offset |-> 0, total |-> 0,
        seen |-> {}, since |-> Rows(c), torn |-> FALSE]]
  /\ UNCHANGED <<table, writer, returned>>

CountRows(r) ==
  /\ reader[r] # Idle /\ reader[r].at = "counting"
  /\ reader' = [reader EXCEPT ![r].at = "selecting", ![r].total = Rows(reader[r].curve)]
  /\ UNCHANGED <<table, writer, returned>>

(* ORDER BY version DESC LIMIT limit OFFSET offset.                        *)
Page(c, offset) ==
  {v \in Versions(c) :
     Cardinality({u \in Versions(c) : u >= v}) \in offset + 1 .. offset + Limit}

NextCursor(offset, page) == offset + Cardinality(page)

SelectPage(r) ==
  /\ reader[r] # Idle /\ reader[r].at = "selecting"
  /\ LET page == Page(reader[r].curve, reader[r].offset)
         next == NextCursor(reader[r].offset, page)
     IN  reader' = [reader EXCEPT
           ![r].seen   = @ \cup page,
           ![r].offset = next,
           ![r].torn   = @ \/ Rows(reader[r].curve) # reader[r].total,
           ![r].at     = IF next < reader[r].total THEN "counting" ELSE "done"]
  /\ UNCHANGED <<table, writer, returned>>

EndWalk(r) ==
  /\ reader[r] # Idle /\ reader[r].at = "done"
  /\ reader' = [reader EXCEPT ![r] = Idle]
  /\ UNCHANGED <<table, writer, returned>>

Inserting ==
  \E w \in Writer :
    \/ \E c \in Curve, s \in Snapshot : ReadVersion(w, c, s)
    \/ WriteRow(w)
    \/ InsertFails(w)

Listing ==
  \E r \in Reader :
    \/ \E c \in Curve : BeginWalk(r, c)
    \/ CountRows(r) \/ SelectPage(r) \/ EndWalk(r)

Next == Inserting \/ Listing

Spec == Init /\ [][Next]_vars

-----------------------------------------------------------------------------
(* Whatever the connections do at the same time, the table is a log per    *)
(* curve: versions without a gap, no snapshot overwritten, and the newest  *)
(* version the last one inserted (get_curve_snapshot's ORDER BY).          *)
VL == INSTANCE VersionedLog WITH log <- table

KeepsLog == VL!LSpec

(* A version that insert_curve_snapshot returned is the caller's: the row  *)
(* stays, holds the caller's snapshot and was given to no other caller.    *)
ReturnedStays ==
  \A i \in returned :
    i.version \in Versions(i.curve) /\ table[i.curve][i.version] = i.snapshot

(* The strengthening: the version a writer has read is at most one past    *)
(* the newest, so that the primary key leaves it only the end of the log.  *)
IInv ==
  /\ TypeOK
  /\ ReturnedStays
  /\ \A w \in Writer : writer[w] # Idle =>
       writer[w].version \in 1 .. Len(table[writer[w].curve]) + 1

(* A walk over the pages delivers every snapshot that was there when it    *)
(* began, while other connections insert between its pages: the insert     *)
(* shifts the rows, so that the next page repeats one, but skips none.  An *)
(* insert between the COUNT and the SELECT of one page breaks it.          *)
WalkSeesAll ==
  \A r \in Reader :
    reader[r] # Idle /\ reader[r].at = "done" /\ ~ reader[r].torn =>
      1 .. reader[r].since \subseteq reader[r].seen

(* The strengthening: a walk has seen the rows above its offset that were  *)
(* there when it began; newer ones push them down and never past it.       *)
Reaches(walk) ==
  LET newest == Len(table[walk.curve])
  IN  IF walk.at = "done"
      THEN 1 .. walk.since \subseteq walk.seen
      ELSE /\ walk.offset <= newest /\ walk.since <= newest
           /\ newest - walk.offset + 1 .. walk.since \subseteq walk.seen

WalksReach ==
  \A r \in Reader : reader[r] # Idle /\ ~ reader[r].torn => Reaches(reader[r])
=============================================================================
