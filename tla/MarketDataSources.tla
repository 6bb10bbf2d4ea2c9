------------------------- MODULE MarketDataSources -------------------------
(***************************************************************************)
(* What pricing reads: the in-memory sources that market-data updates are  *)
(* written to (_runtime/sources.py), each of which keeps one record per    *)
(* key, and the overlay of quotes and fixings over the provider the engine *)
(* was built with (_OverlayMarketDataProvider, _runtime/reactive.py).      *)
(*                                                                         *)
(* An update is its position in the feed and the sides of the market it    *)
(* carries; position 0 stands for the provider's own data.                 *)
(***************************************************************************)
EXTENDS Naturals, Sequences, FiniteSetsExt

CONSTANTS
  Instrument, FixingKey, Pair,
  BaseQuotes,     \* the instruments the provider quotes, on all sides
  BaseFixings,    \* the fixings the provider has
  MaxUpdates      \* bound on the feed

SourceConstants ==
  /\ BaseQuotes \subseteq Instrument /\ BaseFixings \subseteq FixingKey
  /\ MaxUpdates \in Nat

Side == {"BID", "ASK", "MID"}

(* RawQuote fills its mid with its value; FxRate fills the field of its    *)
(* own side, and the mid when both bid and ask are there.                  *)
QuoteSides == {s \in SUBSET Side : "MID" \in s}

FxSides == {s \in SUBSET Side \ {{}} : {"BID", "ASK"} \subseteq s => "MID" \in s}

Missing == [at |-> 0, sides |-> {}]

Update == [at : 1 .. MaxUpdates, sides : SUBSET Side]

Entry ==
  [ kind : {"quote", "fixing", "fx"}, key : Instrument \cup FixingKey \cup Pair,
    sides : SUBSET Side ]

VARIABLES
  feed,       \* history: the updates as Entry has them, in order
  quotes,     \* InMemoryQuoteSource: instrument to update, Missing if none
  fixings,    \* InMemoryFixingSource
  fx_rates    \* InMemoryFxRateSource: pair and side to update

vars == <<feed, quotes, fixings, fx_rates>>

TypeOK ==
  /\ feed \in Seq(Entry) /\ Len(feed) =< MaxUpdates
  /\ quotes \in [Instrument -> Update \cup {Missing}]
  /\ fixings \in [FixingKey -> Update \cup {Missing}]
  /\ fx_rates \in [Pair \X Side -> Update \cup {Missing}]

Init ==
  /\ feed = <<>>
  /\ quotes = [i \in Instrument |-> Missing]
  /\ fixings = [f \in FixingKey |-> Missing]
  /\ fx_rates = [v \in Pair \X Side |-> Missing]

Feed(kind, key, sides) ==
  /\ Len(feed) < MaxUpdates
  /\ feed' = Append(feed, [kind |-> kind, key |-> key, sides |-> sides])

Arriving(sides) == [at |-> Len(feed) + 1, sides |-> sides]

AddQuote(i, sides) ==
  /\ Feed("quote", i, sides)
  /\ quotes' = [quotes EXCEPT ![i] = Arriving(sides)]
  /\ UNCHANGED <<fixings, fx_rates>>

AddFixing(f) ==
  /\ Feed("fixing", f, {})
  /\ fixings' = [fixings EXCEPT ![f] = Arriving({})]
  /\ UNCHANGED <<quotes, fx_rates>>

(* Mutant: a record clears the views it has no side for.                   *)
ReplacesView(v, p, sides) == v[1] = p

(* The views that a record is stored under: those it can answer.           *)
StoresView(v, p, sides) == v[1] = p /\ v[2] \in sides

AddFxRate(p, sides) ==
  /\ Feed("fx", p, sides)
  /\ fx_rates' = [v \in Pair \X Side |->
       IF StoresView(v, p, sides) THEN Arriving(sides) ELSE fx_rates[v]]
  /\ UNCHANGED <<quotes, fixings>>

Next ==
  \/ \E i \in Instrument, s \in QuoteSides : AddQuote(i, s)
  \/ \E f \in FixingKey : AddFixing(f)
  \/ \E p \in Pair, s \in FxSides : AddFxRate(p, s)

Spec == Init /\ [][Next]_vars

-----------------------------------------------------------------------------
(* The reads.  An answer is the update it comes from and the side of it.   *)
Absent == <<>>

(* InMemoryQuoteSource.get_quote falls back to the mid of the same record; *)
(* the overlay asks the provider when there is no record at all.           *)
GetQuote(i, side) ==
  IF quotes[i] # Missing
  THEN <<quotes[i].at, IF side \in quotes[i].sides THEN side ELSE "MID">>
  ELSE IF i \in BaseQuotes THEN <<0, side>> ELSE Absent

GetFixing(f) ==
  IF fixings[f] # Missing THEN <<fixings[f].at>> ELSE IF f \in BaseFixings THEN <<0>> ELSE Absent

(* InMemoryFxRateSource.get_fx_rate falls back to the stored mid view.     *)
GetFxRate(p, side) ==
  IF fx_rates[<<p, side>>] # Missing THEN <<fx_rates[<<p, side>>].at, side>>
  ELSE IF fx_rates[<<p, "MID">>] # Missing THEN <<fx_rates[<<p, "MID">>].at, "MID">>
  ELSE Absent

(* to_fixing_store, the fixings a floating-rate note is priced with: the   *)
(* overlay's, or the provider's when the overlay has none.                 *)
FixingStore ==
  LET overlaid == {f \in FixingKey : fixings[f] # Missing}
  IN  IF overlaid # {} THEN [f \in overlaid |-> fixings[f].at] ELSE [f \in BaseFixings |-> 0]

-----------------------------------------------------------------------------
(* The newest update in the feed among those at the given positions.       *)
Newest(positions) == Max(positions)

About(kind, key) == {n \in DOMAIN feed : feed[n].kind = kind /\ feed[n].key = key}

(* A quote comes from the newest update of its instrument, from the side   *)
(* asked for or else the mid of that same update, and from the provider    *)
(* only while there is no update: sides of two updates are never mixed.    *)
QuoteIsNewest ==
  \A i \in Instrument, side \in Side :
    GetQuote(i, side) =
      IF About("quote", i) # {}
      THEN LET n == Newest(About("quote", i))
           IN  <<n, IF side \in feed[n].sides THEN side ELSE "MID">>
      ELSE IF i \in BaseQuotes THEN <<0, side>> ELSE Absent

(* An FX rate on a side comes from the newest update that carries the      *)
(* side, however many updates without it came since, and from the newest   *)
(* mid if there was none: only the fallback ever changes the side.         *)
Carrying(p, side) == {n \in About("fx", p) : side \in feed[n].sides}

FxIsNewestForSide ==
  \A p \in Pair, side \in Side :
    GetFxRate(p, side) =
      IF Carrying(p, side) # {} THEN <<Newest(Carrying(p, side)), side>>
      ELSE IF Carrying(p, "MID") # {} THEN <<Newest(Carrying(p, "MID")), "MID">>
      ELSE Absent

(* A fixing is the newest published, or else the provider's.               *)
Merged(f) ==
  IF About("fixing", f) # {} THEN <<Newest(About("fixing", f))>>
  ELSE IF f \in BaseFixings THEN <<0>> ELSE Absent

FixingIsMerged == \A f \in FixingKey : GetFixing(f) = Merged(f)

(* "The overlay lets the reactive engine merge fresh in-memory updates     *)
(* with the caller's provider instead of replacing it outright": the store *)
(* holds what the look-ups find.                                           *)
StoreIsMerged ==
  \A f \in FixingKey : (IF f \in DOMAIN FixingStore THEN <<FixingStore[f]>> ELSE Absent) = Merged(f)

-----------------------------------------------------------------------------
(* What is stored under a key is the newest of the updates about it, with  *)
(* its sides: what the reads above follow from.                            *)
StoredFrom(q, positions) ==
  IF positions = {} THEN q = Missing
  ELSE /\ q.at \in positions /\ q.sides = feed[q.at].sides
       /\ \A n \in positions : n =< q.at

IInv ==
  /\ TypeOK
  /\ \A i \in Instrument : StoredFrom(quotes[i], About("quote", i))
  /\ \A f \in FixingKey : StoredFrom(fixings[f], About("fixing", f))
  /\ \A p \in Pair, s \in Side : StoredFrom(fx_rates[<<p, s>>], Carrying(p, s))
=============================================================================
