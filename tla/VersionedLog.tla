---------------------------- MODULE VersionedLog ----------------------------
(***************************************************************************)
(* What a store of versioned curve snapshots promises: for each curve a    *)
(* log that only grows at its end, where a snapshot's version is its       *)
(* position and the latest snapshot is the last one.                       *)
(***************************************************************************)
EXTENDS Naturals, Sequences

CONSTANTS Curve, Snapshot

VARIABLE log

LInit == log = [c \in Curve |-> <<>>]

Record(c, s) == log' = [log EXCEPT ![c] = Append(@, s)]

LNext == \E c \in Curve, s \in Snapshot : Record(c, s)

LSpec == LInit /\ [][LNext]_log
=============================================================================
