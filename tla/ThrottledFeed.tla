--------------------------- MODULE ThrottledFeed ---------------------------
(***************************************************************************)
(* ThrottleManager (_runtime/scheduler.py) in front of MarketDataListener  *)
(* (_runtime/market_data_listener.py): an update is dropped when its       *)
(* timestamp is less than min_interval_seconds after the one last accepted *)
(* for its key.  Timestamps are the producers' and may come out of order;  *)
(* the sides of a quote share the key of their instrument.  What an        *)
(* accepted update does is in ReactiveEngine.                              *)
(***************************************************************************)
EXTENDS Integers, Sequences

CONSTANTS
  Key,            \* graph node ids of the series
  MinInterval,    \* min_interval_seconds
  MaxTime         \* bound on the timestamps

ASSUME ConstantsAssumption == MinInterval \in Nat /\ MaxTime \in Nat

VARIABLES
  last_seen,    \* _last_seen, Unset for a key it does not hold
  offered,      \* history: per key, the timestamps offered since the last reset
  accepted      \* history: per key, those of them that were accepted, in order

vars == <<last_seen, offered, accepted>>

Unset == -1

Time == 0 .. MaxTime

TypeOK ==
  /\ last_seen \in [Key -> Time \cup {Unset}]
  /\ offered \in [Key -> SUBSET Time]
  /\ accepted \in [Key -> Seq(Time)]

Init ==
  /\ last_seen = [k \in Key |-> Unset]
  /\ offered = [k \in Key |-> {}]
  /\ accepted = [k \in Key |-> <<>>]

(* Mutant: an update from before the last one counts as outside its window.*)
AllowsAway(k, t) ==
  last_seen[k] # Unset => t - last_seen[k] >= MinInterval \/ last_seen[k] - t >= MinInterval

(* allow *)
Allows(k, t) == last_seen[k] # Unset => t - last_seen[k] >= MinInterval

(* Mutant: a rejected update moves the window on.                          *)
SlidingWindow(k, t) == last_seen' = [last_seen EXCEPT ![k] = t]

FixedWindow(k, t) == UNCHANGED last_seen

HandleUpdate(k, t) ==
  /\ offered' = [offered EXCEPT ![k] = @ \cup {t}]
  /\ IF Allows(k, t)
     THEN /\ last_seen' = [last_seen EXCEPT ![k] = t]
          /\ accepted' = [accepted EXCEPT ![k] = Append(@, t)]
     ELSE FixedWindow(k, t) /\ UNCHANGED accepted

(* reset, for a key or for all of them.                                    *)
Reset(keys) ==
  /\ last_seen' = [k \in Key |-> IF k \in keys THEN Unset ELSE last_seen[k]]
  /\ offered' = [k \in Key |-> IF k \in keys THEN {} ELSE offered[k]]
  /\ accepted' = [k \in Key |-> IF k \in keys THEN <<>> ELSE accepted[k]]

Next ==
  \/ \E k \in Key, t \in Time : HandleUpdate(k, t)
  \/ Reset(Key)
  \/ \E k \in Key : Reset({k})

Spec == Init /\ [][Next]_vars

-----------------------------------------------------------------------------
(* Between two resets the updates of a key that go through, its sides      *)
(* together, are at least MinInterval apart and in the order of their      *)
(* timestamps, however these come; of two that carry the same timestamp    *)
(* the second is dropped unless MinInterval is 0.                         *)
RateBound ==
  \A k \in Key : \A i, j \in DOMAIN accepted[k] :
    i < j => accepted[k][j] - accepted[k][i] >= MinInterval

(* What is dropped is less than MinInterval newer than what was accepted:  *)
(* a throttled key is never further behind its feed than one window.       *)
WithinOneWindow ==
  \A k \in Key : \A t \in offered[k] : t =< last_seen[k] \/ t - last_seen[k] < MinInterval

(* The strengthening: _last_seen is the newest accepted timestamp, and it  *)
(* is there from the first offer on.                                       *)
LastSeenIsNewest ==
  \A k \in Key :
    /\ last_seen[k] = Unset => offered[k] = {} /\ accepted[k] = <<>>
    /\ \A i \in DOMAIN accepted[k] : accepted[k][i] =< last_seen[k]

IInv == TypeOK /\ LastSeenIsNewest /\ RateBound /\ WithinOneWindow

(* A throttled key never goes back in time: what it accepts is newer than  *)
(* all it accepted since the last reset.                                   *)
NeverBack ==
  [][\A k \in Key : accepted'[k] # <<>> => last_seen'[k] >= last_seen[k]]_vars
=============================================================================
