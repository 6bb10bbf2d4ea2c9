------------------------------ MODULE RecordPages ------------------------------
(***************************************************************************)
(* Records that are listed page by page while others are stored and        *)
(* deleted: the portfolios of InMemoryPortfolioStore                       *)
(* (_storage/portfolio_store.py), whose page is read at once, and the      *)
(* bonds of SQLiteBondStore (_storage/sqlite_storage.py), whose rows are   *)
(* counted in one statement and selected in another.  A cursor is an       *)
(* offset into the rows there are when it is used (_storage/storage.py).   *)
(* A record is its key and its label, which stands for what a filter looks *)
(* at besides the key: currency, source, positions and name.               *)
(***************************************************************************)
EXTENDS Integers, FiniteSets

CONSTANTS
  Id,         \* numbers, in the order of the ids
  AsOf,       \* numbers in the order of the dates, NoDate being the least
  NoDate,
  Label,      \* what a filter can tell records with the same key apart by
  Absent,     \* the label of no record
  Limit,      \* Pagination.limit
  MaxChanges  \* bound on what is stored and deleted during a walk

PageConstants ==
  /\ Id \subseteq Nat /\ AsOf \subseteq Nat /\ NoDate \in AsOf
  /\ \A date \in AsOf : NoDate <= date
  /\ Absent \notin Label
  /\ Limit \in Nat \ {0} /\ MaxChanges \in Nat

Key == Id \X AsOf

VARIABLES
  store,      \* "portfolios" or "bonds"
  rows,       \* the records, by key
  walk,       \* the listing: the page it is at, and what it has seen
  removed,    \* history: the rows that left the listing since the walk began
  left,       \* history: how often a row did
  changes     \* how many records were stored and deleted since

history == <<removed, left, changes>>

vars == <<store, rows, walk, history>>

(* The keys a store can hold: a bond has no date.                          *)
KeyOf(s) == IF s = "bonds" THEN {k \in Key : k[2] = NoDate} ELSE Key

Stored == {k \in Key : rows[k] # Absent}

Idle == [at |-> "idle", keys |-> {}, labels |-> {}, offset |-> 0, total |-> 0, late |-> 0,
         seen |-> {}, began |-> {}]

Init ==
  /\ store \in {"portfolios", "bonds"}
  /\ rows \in [Key -> Label \cup {Absent}]
  /\ Stored \subseteq KeyOf(store) /\ IsFiniteSet(Stored)
  /\ walk = Idle
  /\ removed = {} /\ left = 0 /\ changes = 0

-----------------------------------------------------------------------------
(* PortfolioFilter.matches                                                 *)
Matching(records, keys, labels) == {k \in keys : records[k] \in labels}

Listed == Matching(rows, walk.keys, walk.labels)

(* A row leaves the listing when it is deleted, and when it is replaced by *)
(* a record that the filter does not match; it comes to it likewise.  late *)
(* counts those that come while the statement that counts and the one that *)
(* selects are apart.                                                      *)
Change(new) ==
  /\ new # rows /\ changes < MaxChanges
  /\ rows' = new
  /\ LET then == Matching(new, walk.keys, walk.labels) IN
     /\ removed' = removed \cup (Listed \ then)
     /\ left' = left + Cardinality(Listed \ then)
     /\ walk' = [walk EXCEPT
          !.late = IF walk.at = "selecting" THEN @ + Cardinality(then \ Listed) ELSE @]
  /\ changes' = IF walk.at = "idle" THEN changes ELSE changes + 1
  /\ UNCHANGED store

(* upsert_portfolio and upsert_bond_reference; a record that is replaced   *)
(* keeps its place in the order.                                           *)
Upsert(key, label) == key \in KeyOf(store) /\ Change([rows EXCEPT ![key] = label])

(* delete_portfolio of a date, and delete_bond_reference.                  *)
Delete(key) ==
  (store = "bonds" \/ key[2] # NoDate) /\ Change([rows EXCEPT ![key] = Absent])

(* delete_portfolio without a date: every date of the id.                  *)
DeleteAll(id) ==
  store = "portfolios" /\ Change([k \in Key |-> IF k[1] = id THEN Absent ELSE rows[k]])

-----------------------------------------------------------------------------
Before(j, k) == j[1] < k[1] \/ (j[1] = k[1] /\ j[2] < k[2])

(* The keys that a filter lets through, by id or by date.                  *)
KeyFilter == {Key} \cup {{id} \X AsOf : id \in Id} \cup {Id \X {date} : date \in AsOf}

(* A listing of what a filter lets through; bonds have no filter.          *)
BeginWalk(keys, labels) ==
  /\ walk.at = "idle"
  /\ store = "bonds" => keys = Key /\ labels = Label
  /\ walk' = [Idle EXCEPT !.at = "counting", !.keys = keys, !.labels = labels,
                          !.began = Matching(rows, keys, labels)]
  /\ removed' = {} /\ left' = 0 /\ changes' = 0
  /\ UNCHANGED <<store, rows>>

CountRows ==
  /\ walk.at = "counting" /\ store = "bonds"
  /\ walk' = [walk EXCEPT !.at = "selecting", !.total = Cardinality(Listed), !.late = 0]
  /\ UNCHANGED <<store, rows, history>>

(* sorted(...)[offset : offset + limit], ORDER BY ... LIMIT ... OFFSET.    *)
PageFrom(listed, offset) ==
  {k \in listed : Cardinality({j \in listed : Before(j, k)}) \in offset .. offset + Limit - 1}

(* Mutant: the cursor goes past the next row.                              *)
CursorPastNext(offset, page) == offset + Cardinality(page) + 1

NextOffset(offset, page) == offset + Cardinality(page)

SelectPage ==
  LET page  == PageFrom(Listed, walk.offset)
      next  == NextOffset(walk.offset, page)
      total == IF store = "bonds" THEN walk.total ELSE Cardinality(Listed)
  IN  /\ walk.at = IF store = "bonds" THEN "selecting" ELSE "counting"
      /\ walk' = [walk EXCEPT
           !.seen = @ \cup page, !.offset = next,
           !.at = IF next < total THEN "counting" ELSE "done"]
      /\ UNCHANGED <<store, rows, history>>

EndWalk ==
  /\ walk.at = "done"
  /\ walk' = Idle
  /\ removed' = {} /\ left' = 0 /\ changes' = 0
  /\ UNCHANGED <<store, rows>>

Next ==
  \/ \E key \in Key : Delete(key) \/ \E label \in Label : Upsert(key, label)
  \/ \E id \in Id : DeleteAll(id)
  \/ \E keys \in KeyFilter, labels \in SUBSET Label : BeginWalk(keys, labels)
  \/ CountRows \/ SelectPage \/ EndWalk

Spec == Init /\ [][Next]_vars

-----------------------------------------------------------------------------
(* The records that the walk should list, listed ever since it began.      *)
Stayed == walk.began \ removed

(* A walk over the pages may miss records that were listed all the time:   *)
(* the offset goes on while the rows before it move up, when one before    *)
(* them is deleted or replaced by a record that the filter does not match. *)
(* It misses no more of them than rows left the listing so, a row that     *)
(* comes and leaves again counting again, and, of bonds, than rows came    *)
(* between the two statements of its last page, which may end the walk     *)
(* early.  What comes at any other time makes it miss nothing.             *)
MissesOnlyMoved ==
  walk.at = "done" => Cardinality(Stayed \ walk.seen) <= left + walk.late

(* The strengthening: already before the walk is done, it has missed no    *)
(* more of the rows before the offset than left, and there are no more     *)
(* rows than were counted and came since.                                  *)
TypeOK ==
  /\ store \in {"portfolios", "bonds"}
  /\ rows \in [Key -> Label \cup {Absent}] /\ IsFiniteSet(Stored)
  /\ walk \in [at : {"idle", "counting", "selecting", "done"}, keys : SUBSET Key,
               labels : SUBSET Label, offset : Nat, total : Nat, late : Nat,
               seen : SUBSET Key, began : SUBSET Key]
  /\ left \in Nat

Rank(listed, k) == Cardinality({j \in listed : Before(j, k)})

Behind == {k \in Listed : Rank(Listed, k) < walk.offset}

IInv ==
  /\ TypeOK
  /\ Stayed \subseteq Listed
  /\ walk.at = "selecting" => store = "bonds" /\ Cardinality(Listed) <= walk.total + walk.late
  /\ walk.at \in {"counting", "selecting"} =>
       Cardinality((Behind \cap Stayed) \ walk.seen) <= left
  /\ walk.at = "done" => Cardinality(Stayed \ walk.seen) <= left + walk.late
=============================================================================
