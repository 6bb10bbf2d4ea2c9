---------------------------- MODULE FreshPrices ----------------------------
(***************************************************************************)
(* What the reactive engine promises about the prices it caches, without   *)
(* queues, graph or listener: a board of results over a set of market-data *)
(* series that only move forward.  A result remembers the market data it   *)
(* was priced from and the series it hangs on.  When one of those moves,   *)
(* the result is either priced again at once or marked stale, and stays    *)
(* stale until it is priced again.                                         *)
(***************************************************************************)
EXTENDS Naturals

CONSTANTS Series, Item, NoResult

VARIABLES
  latest,    \* the version of each series in force
  board,     \* the last result of each item
  stale      \* the items whose result is known to be out of date

fvars == <<latest, board, stale>>

Result == [read : [Series -> Nat], upstream : SUBSET Series, priced : BOOLEAN]

FInit ==
  /\ latest = [s \in Series |-> 0]
  /\ board = [i \in Item |-> NoResult]
  /\ stale = {}

Moved == {s \in Series : latest'[s] # latest[s]}

Reprice(i) ==
  /\ board'[i] \in Result
  /\ board'[i].read = latest'
  /\ i \notin stale'

Keep(i) ==
  /\ board'[i] = board[i]
  /\ i \in stale => i \in stale'
  /\ board[i] # NoResult /\ board[i].upstream \cap Moved # {} => i \in stale'

FNext ==
  /\ latest' \in [Series -> Nat]
  /\ \A s \in Series : latest'[s] >= latest[s]
  /\ board' \in [Item -> Result \cup {NoResult}]
  /\ stale' \subseteq Item
  /\ \A i \in Item : Reprice(i) \/ Keep(i)

FSpec == FInit /\ [][FNext]_fvars

(* A result that is not stale was priced from the market data in force.    *)
BoardFresh ==
  \A i \in Item :
    board[i] # NoResult /\ i \notin stale =>
      \A s \in board[i].upstream : board[i].read[s] = latest[s]
=============================================================================
