--------------------------- MODULE OverrideStore ---------------------------
(***************************************************************************)
(* SQLiteOverrideStore with an audit store attached                        *)
(* (_storage/sqlite_storage.py): the tables overrides and audit_entries,   *)
(* shared by several connections to one database file.                     *)
(*                                                                         *)
(* The table has no unique constraint: save_override keeps one row per key *)
(* by deleting and inserting in one transaction.  The audit entry is       *)
(* appended in a second transaction, which the other connections' calls    *)
(* may come before and which may fail on its own.                          *)
(***************************************************************************)
EXTENDS Naturals, Sequences, FiniteSets

CONSTANTS
  Conn,         \* connections, each running one call at a time
  Place,        \* pairs of a scope_id and a field_name
  Date,         \* effective dates
  NULL,         \* SQL's NULL, the effective date of an override without one
  Value,
  MaxChanges    \* bound on the changes of the overrides

OverrideConstants ==
  /\ NULL \notin Date
  /\ MaxChanges \in Nat

VARIABLES
  overrides,  \* the rows [id, key, value]
  next_id,    \* AUTOINCREMENT
  audit,      \* audit_entries by id
  call,       \* the call each connection is in the middle of
  refused,    \* history: the entries whose append raised
  changed     \* the number of changes so far

vars == <<overrides, next_id, audit, call, refused, changed>>

Key == [place : Place, date : Date \cup {NULL}]

Upsert(p, v) == [action |-> "upsert", place |-> p, value |-> v]

Removal(p) == [action |-> "delete", place |-> p]

Entry == {Upsert(p, v) : p \in Place, v \in Value} \cup {Removal(p) : p \in Place}

(* A save or a delete, as the caller asked for it.                         *)
Request ==
  [action : {"save"}, key : Key, value : Value] \cup [action : {"delete"}, key : Key]

Idle == [at |-> "idle"]

Init ==
  /\ overrides = {} /\ next_id = 1
  /\ audit = <<>> /\ refused = <<>> /\ changed = 0
  /\ call = [c \in Conn |-> Idle]

-----------------------------------------------------------------------------
(* SQL's =, which holds of no NULL.                                        *)
SqlEquals(a, b) == a # NULL /\ b # NULL /\ a = b

(* Mutant: the comparison without its IS NULL.                             *)
MatchesByEquals(r, k) ==
  r.key.place = k.place /\ SqlEquals(r.key.date, k.date)

Matches(r, k) ==
  /\ r.key.place = k.place
  /\ \/ r.key.date = NULL /\ k.date = NULL
     \/ SqlEquals(r.key.date, k.date)

Matching(k) == {r \in overrides : Matches(r, k)}

EntryOf(q) ==
  IF q.action = "save" THEN Upsert(q.key.place, q.value) ELSE Removal(q.key.place)

(* The first transaction of save_override.                                 *)
SaveOverride(c, q) ==
  /\ q.action = "save"
  /\ overrides' = (overrides \ Matching(q.key))
                    \cup {[id |-> next_id, key |-> q.key, value |-> q.value]}
  /\ next_id' = next_id + 1
  /\ changed' = changed + 1
  /\ call' = [call EXCEPT ![c] = [at |-> "auditing", request |-> q]]
  /\ UNCHANGED <<audit, refused>>

(* cursor.rowcount > 0 *)
Deleted(n) == n > 0

(* The first transaction of delete_override, which returns at once when it *)
(* deleted nothing.                                                        *)
DeleteOverride(c, q) ==
  /\ q.action = "delete"
  /\ overrides' = overrides \ Matching(q.key)
  /\ changed' = IF Matching(q.key) = {} THEN changed ELSE changed + 1
  /\ call' = [call EXCEPT ![c] =
                IF Deleted(Cardinality(Matching(q.key)))
                THEN [at |-> "auditing", request |-> q]
                ELSE Idle]
  /\ UNCHANGED <<next_id, audit, refused>>

Run(c, q) == SaveOverride(c, q) \/ DeleteOverride(c, q)

Call(c) ==
  /\ call[c] = Idle
  /\ changed < MaxChanges
  /\ \E q \in Request : Run(c, q)

(* append_audit_entry, the second transaction; the call returns.           *)
AppendAuditEntry(c) ==
  /\ call[c] # Idle /\ call[c].at = "auditing"
  /\ audit' = Append(audit, EntryOf(call[c].request))
  /\ call' = [call EXCEPT ![c] = Idle]
  /\ UNCHANGED <<overrides, next_id, refused, changed>>

(* The append raises out of the call (the database is locked or full).     *)
AuditRaises(c) ==
  /\ call[c] # Idle /\ call[c].at = "auditing"
  /\ call' = [call EXCEPT ![c].at = "raised"]
  /\ refused' = Append(refused, EntryOf(call[c].request))
  /\ UNCHANGED <<overrides, next_id, audit, changed>>

(* The caller, told by the exception that its call failed, repeats it.     *)
Retry(c) ==
  /\ call[c] # Idle /\ call[c].at = "raised"
  /\ changed < MaxChanges
  /\ Run(c, call[c].request)

Next ==
  \E c \in Conn : Call(c) \/ AppendAuditEntry(c) \/ AuditRaises(c) \/ Retry(c)

Spec == Init /\ [][Next]_vars

-----------------------------------------------------------------------------
(* The entries of the calls between their two transactions.                *)
Auditing == {c \in Conn : call[c] # Idle /\ call[c].at = "auditing"}

Pending == [c \in Auditing |-> EntryOf(call[c].request)]

Occurrences(f, e) == Cardinality({i \in DOMAIN f : f[i] = e})

(* The rows are a map, also where the date is NULL: a second row of a key  *)
(* would outlive the value that replaces it.  Each change of the map is    *)
(* answered for by one entry: written, about to be written, or refused     *)
(* with an exception out of the call that made the change; deletes that    *)
(* found nothing bring none.  In what order the entries of two connections *)
(* come is left open.                                                      *)
AM == INSTANCE AuditedMap WITH
        values <- {[key |-> r.key, value |-> r.value] : r \in overrides},
        log    <- [e \in Entry |->
                     Occurrences(audit, e) + Occurrences(Pending, e) + Occurrences(refused, e)]

KeepsAuditedMap == AM!MSpec

(* What that rests on: types, and that the calls that have changed the map *)
(* and not yet written their entry are finitely many.                      *)
IInv ==
  /\ overrides \subseteq [id : Nat, key : Key, value : Value] /\ IsFiniteSet(overrides)
  /\ next_id \in Nat
  /\ audit \in Seq(Entry) /\ refused \in Seq(Entry)
  /\ call \in [Conn -> {Idle} \cup [at : {"auditing", "raised"}, request : Request]]
  /\ IsFiniteSet(Auditing)
=============================================================================
