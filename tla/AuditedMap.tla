----------------------------- MODULE AuditedMap -----------------------------
(***************************************************************************)
(* What an audited store of overrides promises: a map from keys to values  *)
(* and a log, where every change of the map brings one entry, and nothing  *)
(* else does.  An entry names the place of the key, not its date; the log  *)
(* is a bag, which says how often an entry was written but not in what     *)
(* order.                                                                  *)
(***************************************************************************)
EXTENDS Naturals

CONSTANTS Place, Value,
          Key           \* records with a place and a date

VARIABLES
  values,   \* the keys that have a value, each with that value
  log       \* how often each entry was written

Upsert(p, v) == [action |-> "upsert", place |-> p, value |-> v]

Removal(p) == [action |-> "delete", place |-> p]

Entry == {Upsert(p, v) : p \in Place, v \in Value} \cup {Removal(p) : p \in Place}

Logged(e) == log' = [log EXCEPT ![e] = @ + 1]

MInit == values = {} /\ log = [e \in Entry |-> 0]

Save(k, v) ==
  /\ values' = {b \in values : b.key # k} \cup {[key |-> k, value |-> v]}
  /\ Logged(Upsert(k.place, v))

Delete(k) ==
  /\ \E b \in values : b.key = k
  /\ values' = {b \in values : b.key # k}
  /\ Logged(Removal(k.place))

MNext == \E k \in Key : Delete(k) \/ \E v \in Value : Save(k, v)

MSpec == MInit /\ [][MNext]_<<values, log>>
=============================================================================
