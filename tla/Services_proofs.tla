--------------------------- MODULE Services_proofs ---------------------------
(***************************************************************************)
(* The services about the engine: leader election and versions, for any    *)
(* number of nodes and partitions; the reads of the market-data sources,   *)
(* for any feed; and the answers of the pricing router, for any batches.   *)
(***************************************************************************)
EXTENDS MCServices, TLAPS

-----------------------------------------------------------------------------
(* Coordination.                                                           *)
LEMMA InitInvariant == Init => IInv
BY ConstantsAssumption DEF Init, IInv, TypeOK, VersionsTell

(* assign: the new version is beyond those of its term.                    *)
LEMMA AssignInvariant ==
  ASSUME IInv, NEW p \in Partition, NEW o \in Node, Assign(p, o)
  PROVE  IInv'
<1> DEFINE v   == NextVersion(p, o)
           new == [partition |-> p, owner |-> o, version |-> v, term |-> term[p]]
<1>1. v \in Nat
  BY ConstantsAssumption DEF IInv, TypeOK, NextVersion, Assignment
<1>2. /\ assignments' = [assignments EXCEPT ![p] = [owner |-> o, version |-> v]]
      /\ held' = held \cup {new}
      /\ UNCHANGED <<leader, leads, term>>
  BY DEF Assign
<1>3. \A h \in held : h.partition = p /\ h.term = term[p] => h.version < v
  BY <1>1 DEF IInv, TypeOK, VersionsTell, NextVersion, Assignment
<1>4. assignments'[p] = [owner |-> o, version |-> v] /\ assignments'[p] # None
  BY <1>1, <1>2, ConstantsAssumption DEF IInv, TypeOK, Assignment
<1>5. TypeOK'
  BY <1>1, <1>2 DEF IInv, TypeOK, Assignment, Assign
<1>6. (\A m \in leads : leader = m)'
  BY <1>2 DEF IInv
<1>7. (\A h \in held : h.term =< term[h.partition])'
  BY <1>1, <1>2 DEF IInv, TypeOK
<1>8. VersionsTell'
  <2> HIDE DEF v
  <2> SUFFICES ASSUME NEW h \in held'
               PROVE  /\ \A g \in held' : g.partition = h.partition /\ g.term = h.term
                                           /\ g.version = h.version => g = h
                      /\ h.term = term[h.partition] =>
                           /\ assignments'[h.partition] # None
                           /\ h.version =< assignments'[h.partition].version
    BY <1>2 DEF VersionsTell
  <2>1. ASSUME NEW g \in held',
               g.partition = h.partition, g.term = h.term, g.version = h.version
        PROVE  g = h
    BY <1>1, <1>2, <1>3, <2>1 DEF IInv, TypeOK, VersionsTell
  <2>2. ASSUME h.term = term[h.partition]
        PROVE  /\ assignments'[h.partition] # None
               /\ h.version =< assignments'[h.partition].version
    <3>1. CASE h.partition = p
      BY <1>1, <1>2, <1>3, <1>4, <2>2, <3>1 DEF IInv, TypeOK
    <3>2. CASE h.partition # p
      BY <1>1, <1>2, <2>2, <3>2 DEF IInv, TypeOK, VersionsTell
    <3> QED
      BY <3>1, <3>2
  <2> QED
    BY <2>1, <2>2
<1> QED
  BY <1>5, <1>6, <1>7, <1>8 DEF IInv

LEMMA NextInvariant == IInv /\ [Next]_vars => IInv'
<1> SUFFICES ASSUME IInv, [Next]_vars
             PROVE  IInv'
  OBVIOUS
<1>1. ASSUME NEW n \in Node, Acquire(n)
      PROVE  IInv'
  BY <1>1, ConstantsAssumption DEF IInv, TypeOK, VersionsTell, Acquire
<1>2. ASSUME NEW n \in Node, ReleaseLeadership(n)
      PROVE  IInv'
  BY <1>2 DEF IInv, TypeOK, VersionsTell, ReleaseLeadership
<1>3. ASSUME NEW p \in Partition, ReleasePartition(p)
      PROVE  IInv'
  BY <1>3 DEF IInv, TypeOK, VersionsTell, ReleasePartition
<1>4. CASE UNCHANGED vars
  BY <1>4 DEF IInv, TypeOK, VersionsTell, vars
<1> QED
  BY <1>1, <1>2, <1>3, <1>4, AssignInvariant DEF Next

(* The inductive invariant of leader election and partition registry.      *)
THEOREM InvariantHolds == Spec => []IInv
<1>1. Init => IInv
  BY InitInvariant
<1>2. IInv /\ [Next]_vars => IInv'
  BY NextInvariant
<1> QED
  BY <1>1, <1>2, PTL DEF Spec

(* acquire and release: no two nodes take themselves for the leader.       *)
THEOREM OneLeaderHolds == Spec => []OneLeader
<1>1. IInv => OneLeader
  BY DEF IInv, OneLeader
<1> QED
  BY <1>1, InvariantHolds, PTL

(* assign: between two releases of a partition, versions tell the newer    *)
(* assignment, for any number of nodes, partitions and releases.           *)
THEOREM VersionsTellHolds == Spec => []VersionsTell
<1>1. IInv => VersionsTell
  BY DEF IInv
<1> QED
  BY <1>1, InvariantHolds, PTL

-----------------------------------------------------------------------------
(* MarketDataSources.  Max chooses the largest, where there is one.        *)
LEMMA NewestIs ==
  ASSUME NEW S \in SUBSET Nat, NEW m \in S, \A n \in S : n =< m
  PROVE  Sources!Newest(S) = m
<1> DEFINE Largest(x) == x \in S /\ \A y \in S : x >= y
<1>1. Largest(m)
  OBVIOUS
<1>2. \A x : Largest(x) => x = m
  OBVIOUS
<1>3. Sources!Max(S) = CHOOSE x : Largest(x)
  BY Zenon DEF Sources!Max
<1> HIDE DEF Largest
<1>4. (CHOOSE x : Largest(x)) = m
  BY <1>1, <1>2
<1> QED
  BY <1>3, <1>4 DEF Sources!Newest

LEMMA SourcesInit == ASSUME Sources!SourceConstants, Sources!Init PROVE Sources!IInv
<1>1. Sources!TypeOK
  BY DEF Sources!Init, Sources!TypeOK, Sources!SourceConstants
<1>2. \A kind, key : Sources!About(kind, key) = {}
  BY DEF Sources!Init, Sources!About
<1>3. \A p, s : Sources!Carrying(p, s) = {}
  BY <1>2 DEF Sources!Carrying
<1> QED
  BY <1>1, <1>2, <1>3 DEF Sources!Init, Sources!IInv, Sources!StoredFrom

(* A step of the feed adds one position, about its own key.                *)
LEMMA FeedGrows ==
  ASSUME Sources!SourceConstants, Sources!TypeOK,
         NEW kind \in {"quote", "fixing", "fx"}, NEW key \in Instrument \cup FixingKey \cup Pair,
         NEW sides \in SUBSET Sources!Side, Sources!Feed(kind, key, sides)
  PROVE  LET N == Len(feed) + 1 IN
         /\ N \in 1 .. MaxUpdates
         /\ feed' \in Seq(Sources!Entry) /\ Len(feed') =< MaxUpdates
         /\ feed'[N] = [kind |-> kind, key |-> key, sides |-> sides]
         /\ DOMAIN feed = 1 .. Len(feed)
         /\ \A n \in DOMAIN feed : feed'[n] = feed[n] /\ n < N
         /\ \A k, x : Sources!About(k, x)' =
              Sources!About(k, x) \cup (IF k = kind /\ x = key THEN {N} ELSE {})
         /\ \A p, s : Sources!Carrying(p, s)' =
              Sources!Carrying(p, s) \cup
                (IF kind = "fx" /\ p = key /\ s \in sides THEN {N} ELSE {})
<1> DEFINE N == Len(feed) + 1
           e == [kind |-> kind, key |-> key, sides |-> sides]
<1>1. feed \in Seq(Sources!Entry) /\ Len(feed) \in Nat /\ Len(feed) < MaxUpdates /\ MaxUpdates \in Nat
  BY DEF Sources!TypeOK, Sources!Feed, Sources!SourceConstants
<1>2. e \in Sources!Entry
  BY DEF Sources!Entry
<1>3. feed' = Append(feed, e)
  BY DEF Sources!Feed
<1> HIDE DEF e
<1>4. /\ feed' \in Seq(Sources!Entry) /\ Len(feed') = N /\ DOMAIN feed' = 1 .. N
      /\ feed'[N] = e /\ DOMAIN feed = 1 .. Len(feed)
      /\ \A n \in DOMAIN feed : feed'[n] = feed[n] /\ n < N
  BY <1>1, <1>2, <1>3
<1>5. DOMAIN feed' = DOMAIN feed \cup {N}
  BY <1>1, <1>4
<1>6. e.kind = kind /\ e.key = key /\ e.sides = sides
  BY DEF e
<1> HIDE DEF N
<1>7. ASSUME NEW k, NEW x
      PROVE  Sources!About(k, x)' =
               Sources!About(k, x) \cup (IF k = kind /\ x = key THEN {N} ELSE {})
  <2>1. Sources!About(k, x)' = {n \in DOMAIN feed' : feed'[n].kind = k /\ feed'[n].key = x}
    BY DEF Sources!About
  <2>2. ASSUME NEW n
        PROVE  n \in Sources!About(k, x)' <=>
                 n \in Sources!About(k, x) \/ (n = N /\ k = kind /\ x = key)
    BY <1>4, <1>5, <1>6, <2>1, Zenon DEF Sources!About
  <2> QED
    BY <2>2
<1>8. ASSUME NEW p, NEW s
      PROVE  Sources!Carrying(p, s)' =
               Sources!Carrying(p, s) \cup
                 (IF kind = "fx" /\ p = key /\ s \in sides THEN {N} ELSE {})
  <2>1. Sources!About("fx", p) \subseteq DOMAIN feed
    BY DEF Sources!About
  <2> QED
    BY <1>4, <1>6, <1>7, <2>1, SMT DEF Sources!Carrying
<1> QED
  BY <1>1, <1>4, <1>7, <1>8 DEF N, e

LEMMA PositionsInFeed ==
  /\ \A k, x : Sources!About(k, x) \subseteq DOMAIN feed
  /\ \A p, s : Sources!Carrying(p, s) \subseteq DOMAIN feed
BY DEF Sources!About, Sources!Carrying

(* An update leaves what is stored under the keys it is not about.         *)
LEMMA OthersStay ==
  ASSUME Sources!IInv, \A n \in DOMAIN feed : feed'[n] = feed[n]
  PROVE  /\ \A x \in Instrument :
              quotes'[x] = quotes[x] /\ Sources!About("quote", x)' = Sources!About("quote", x) =>
                Sources!StoredFrom(quotes[x], Sources!About("quote", x))'
         /\ \A x \in FixingKey :
              fixings'[x] = fixings[x] /\ Sources!About("fixing", x)' = Sources!About("fixing", x) =>
                Sources!StoredFrom(fixings[x], Sources!About("fixing", x))'
         /\ \A p \in Pair, v \in Sources!Side :
              /\ fx_rates'[<<p, v>>] = fx_rates[<<p, v>>]
              /\ Sources!Carrying(p, v)' = Sources!Carrying(p, v)
              => Sources!StoredFrom(fx_rates[<<p, v>>], Sources!Carrying(p, v))'
<1>1. \A x \in Instrument : Sources!StoredFrom(quotes[x], Sources!About("quote", x))
  BY DEF Sources!IInv
<1>2. \A x \in FixingKey : Sources!StoredFrom(fixings[x], Sources!About("fixing", x))
  BY DEF Sources!IInv
<1>3. \A p \in Pair, v \in Sources!Side :
        Sources!StoredFrom(fx_rates[<<p, v>>], Sources!Carrying(p, v))
  BY DEF Sources!IInv
<1> QED
  BY <1>1, <1>2, <1>3, PositionsInFeed DEF Sources!StoredFrom

LEMMA SourcesStep ==
  ASSUME Sources!SourceConstants, Sources!IInv, [Sources!Next]_(Sources!vars)
  PROVE  Sources!IInv'
<1> DEFINE N == Len(feed) + 1
<1>1. ASSUME NEW i \in Instrument, NEW s \in Sources!QuoteSides, Sources!AddQuote(i, s)
      PROVE  Sources!IInv'
  <2>1. Sources!Feed("quote", i, s) /\ s \in SUBSET Sources!Side /\ Sources!TypeOK
    BY <1>1 DEF Sources!AddQuote, Sources!QuoteSides, Sources!IInv
  <2>2. /\ quotes' = [quotes EXCEPT ![i] = [at |-> N, sides |-> s]]
        /\ UNCHANGED <<fixings, fx_rates>>
    BY <1>1 DEF Sources!AddQuote, Sources!Arriving
  <2>a. /\ "quote" \in {"quote", "fixing", "fx"} /\ i \in Instrument \cup FixingKey \cup Pair
        /\ s \in SUBSET Sources!Side
    BY <2>1
  <2>3. /\ N \in 1 .. MaxUpdates
        /\ feed' \in Seq(Sources!Entry) /\ Len(feed') =< MaxUpdates
        /\ feed'[N] = [kind |-> "quote", key |-> i, sides |-> s]
        /\ \A n \in DOMAIN feed : feed'[n] = feed[n] /\ n < N
        /\ \A x : Sources!About("quote", x)' =
             Sources!About("quote", x) \cup (IF x = i THEN {N} ELSE {})
        /\ \A x : Sources!About("fixing", x)' = Sources!About("fixing", x)
        /\ \A p, v : Sources!Carrying(p, v)' = Sources!Carrying(p, v)
    <3>1. /\ N \in 1 .. MaxUpdates
          /\ feed' \in Seq(Sources!Entry) /\ Len(feed') =< MaxUpdates
          /\ feed'[N] = [kind |-> "quote", key |-> i, sides |-> s]
          /\ \A n \in DOMAIN feed : feed'[n] = feed[n] /\ n < N
          /\ \A k, x : Sources!About(k, x)' =
               Sources!About(k, x) \cup (IF k = "quote" /\ x = i THEN {N} ELSE {})
          /\ \A q, v : Sources!Carrying(q, v)' =
               Sources!Carrying(q, v) \cup
                 (IF "quote" = "fx" /\ q = i /\ v \in s THEN {N} ELSE {})
      BY <2>1, <2>a, FeedGrows
    <3> QED
      BY <3>1
  <2> HIDE DEF N
  <2>4. Sources!TypeOK'
    BY <2>1, <2>2, <2>3 DEF Sources!TypeOK, Sources!Update
  <2>5. Sources!StoredFrom(quotes[i], Sources!About("quote", i))'
    <3>1. quotes'[i] = [at |-> N, sides |-> s]
      BY <2>1, <2>2 DEF Sources!TypeOK
    <3> QED
      BY <2>1, <2>3, <3>1, PositionsInFeed DEF Sources!StoredFrom, Sources!TypeOK
  <2>6. \A x \in Instrument : x # i => /\ quotes'[x] = quotes[x]
                                       /\ Sources!About("quote", x)' = Sources!About("quote", x)
    BY <2>1, <2>2, <2>3 DEF Sources!TypeOK
  <2> QED
    BY <2>2, <2>3, <2>4, <2>5, <2>6, OthersStay DEF Sources!IInv
<1>2. ASSUME NEW f \in FixingKey, Sources!AddFixing(f)
      PROVE  Sources!IInv'
  <2>1. Sources!Feed("fixing", f, {}) /\ Sources!TypeOK
    BY <1>2 DEF Sources!AddFixing, Sources!IInv
  <2>2. /\ fixings' = [fixings EXCEPT ![f] = [at |-> N, sides |-> {}]]
        /\ UNCHANGED <<quotes, fx_rates>>
    BY <1>2 DEF Sources!AddFixing, Sources!Arriving
  <2>a. /\ "fixing" \in {"quote", "fixing", "fx"} /\ f \in Instrument \cup FixingKey \cup Pair
        /\ {} \in SUBSET Sources!Side
    BY <2>1
  <2>3. /\ N \in 1 .. MaxUpdates
        /\ feed' \in Seq(Sources!Entry) /\ Len(feed') =< MaxUpdates
        /\ feed'[N] = [kind |-> "fixing", key |-> f, sides |-> {}]
        /\ \A n \in DOMAIN feed : feed'[n] = feed[n] /\ n < N
        /\ \A x : Sources!About("fixing", x)' =
             Sources!About("fixing", x) \cup (IF x = f THEN {N} ELSE {})
        /\ \A x : Sources!About("quote", x)' = Sources!About("quote", x)
        /\ \A p, v : Sources!Carrying(p, v)' = Sources!Carrying(p, v)
    <3>1. /\ N \in 1 .. MaxUpdates
          /\ feed' \in Seq(Sources!Entry) /\ Len(feed') =< MaxUpdates
          /\ feed'[N] = [kind |-> "fixing", key |-> f, sides |-> {}]
          /\ \A n \in DOMAIN feed : feed'[n] = feed[n] /\ n < N
          /\ \A k, x : Sources!About(k, x)' =
               Sources!About(k, x) \cup (IF k = "fixing" /\ x = f THEN {N} ELSE {})
          /\ \A q, v : Sources!Carrying(q, v)' =
               Sources!Carrying(q, v) \cup
                 (IF "fixing" = "fx" /\ q = f /\ v \in {} THEN {N} ELSE {})
      BY <2>1, <2>a, FeedGrows, ZenonT(60)
    <3> QED
      BY <3>1
  <2> HIDE DEF N
  <2>4. Sources!TypeOK'
    BY <2>1, <2>2, <2>3 DEF Sources!TypeOK, Sources!Update
  <2>5. Sources!StoredFrom(fixings[f], Sources!About("fixing", f))'
    <3>1. fixings'[f] = [at |-> N, sides |-> {}]
      BY <2>1, <2>2 DEF Sources!TypeOK
    <3> QED
      BY <2>1, <2>3, <3>1, PositionsInFeed DEF Sources!StoredFrom, Sources!TypeOK
  <2>6. \A x \in FixingKey : x # f => /\ fixings'[x] = fixings[x]
                                      /\ Sources!About("fixing", x)' = Sources!About("fixing", x)
    BY <2>1, <2>2, <2>3 DEF Sources!TypeOK
  <2> QED
    BY <2>2, <2>3, <2>4, <2>5, <2>6, OthersStay DEF Sources!IInv
<1>3. ASSUME NEW p \in Pair, NEW s \in Sources!FxSides, Sources!AddFxRate(p, s)
      PROVE  Sources!IInv'
  <2>1. Sources!Feed("fx", p, s) /\ s \in SUBSET Sources!Side /\ Sources!TypeOK
    BY <1>3 DEF Sources!AddFxRate, Sources!FxSides, Sources!IInv
  <2>2. /\ fx_rates' = [v \in Pair \X Sources!Side |->
             IF v[1] = p /\ v[2] \in s THEN [at |-> N, sides |-> s] ELSE fx_rates[v]]
        /\ UNCHANGED <<quotes, fixings>>
    BY <1>3 DEF Sources!AddFxRate, Sources!Arriving, Sources!StoresView
  <2>a. /\ "fx" \in {"quote", "fixing", "fx"} /\ p \in Instrument \cup FixingKey \cup Pair
        /\ s \in SUBSET Sources!Side
    BY <2>1
  <2>3. /\ N \in 1 .. MaxUpdates
        /\ feed' \in Seq(Sources!Entry) /\ Len(feed') =< MaxUpdates
        /\ feed'[N] = [kind |-> "fx", key |-> p, sides |-> s]
        /\ \A n \in DOMAIN feed : feed'[n] = feed[n] /\ n < N
        /\ \A x : Sources!About("fixing", x)' = Sources!About("fixing", x)
        /\ \A x : Sources!About("quote", x)' = Sources!About("quote", x)
        /\ \A q, v : Sources!Carrying(q, v)' =
             Sources!Carrying(q, v) \cup (IF q = p /\ v \in s THEN {N} ELSE {})
    <3>1. /\ N \in 1 .. MaxUpdates
          /\ feed' \in Seq(Sources!Entry) /\ Len(feed') =< MaxUpdates
          /\ feed'[N] = [kind |-> "fx", key |-> p, sides |-> s]
          /\ \A n \in DOMAIN feed : feed'[n] = feed[n] /\ n < N
          /\ \A k, x : Sources!About(k, x)' =
               Sources!About(k, x) \cup (IF k = "fx" /\ x = p THEN {N} ELSE {})
          /\ \A q, v : Sources!Carrying(q, v)' =
               Sources!Carrying(q, v) \cup
                 (IF "fx" = "fx" /\ q = p /\ v \in s THEN {N} ELSE {})
      BY <2>1, <2>a, FeedGrows
    <3> QED
      BY <3>1
  <2> HIDE DEF N
  <2>4. Sources!TypeOK'
    BY <2>1, <2>2, <2>3 DEF Sources!TypeOK, Sources!Update
  <2>5. \A v \in s : Sources!StoredFrom(fx_rates[<<p, v>>], Sources!Carrying(p, v))'
    <3> SUFFICES ASSUME NEW v \in s
                 PROVE  Sources!StoredFrom(fx_rates[<<p, v>>], Sources!Carrying(p, v))'
      OBVIOUS
    <3>1. fx_rates'[<<p, v>>] = [at |-> N, sides |-> s]
      BY <2>1, <2>2
    <3> QED
      BY <2>1, <2>3, <3>1, PositionsInFeed DEF Sources!StoredFrom, Sources!TypeOK
  <2>6. \A q \in Pair, v \in Sources!Side :
          ~ (q = p /\ v \in s) => /\ fx_rates'[<<q, v>>] = fx_rates[<<q, v>>]
                                  /\ Sources!Carrying(q, v)' = Sources!Carrying(q, v)
    BY <2>1, <2>2, <2>3
  <2> QED
    BY <2>2, <2>3, <2>4, <2>5, <2>6, OthersStay DEF Sources!IInv
<1>4. CASE UNCHANGED Sources!vars
  BY <1>4 DEF Sources!vars, Sources!IInv, Sources!TypeOK, Sources!StoredFrom, Sources!About,
              Sources!Carrying
<1> QED
  BY <1>1, <1>2, <1>3, <1>4 DEF Sources!Next

(* What is stored is what the newest update says, or nothing.              *)
LEMMA StoredIsNewest ==
  ASSUME Sources!TypeOK, NEW q, NEW S \in SUBSET DOMAIN feed, Sources!StoredFrom(q, S)
  PROVE  /\ S = {} => q = Sources!Missing
         /\ S # {} => /\ q # Sources!Missing /\ q.at = Sources!Newest(S)
                      /\ q.sides = feed[Sources!Newest(S)].sides
<1>1. S \subseteq Nat \ {0}
  BY DEF Sources!TypeOK
<1>2. ASSUME S # {}
      PROVE  q.at \in S /\ \A n \in S : n =< q.at
  BY <1>2 DEF Sources!StoredFrom
<1>3. ASSUME S # {}
      PROVE  Sources!Newest(S) = q.at
  BY <1>1, <1>2, <1>3, NewestIs
<1> QED
  BY <1>1, <1>2, <1>3 DEF Sources!StoredFrom, Sources!Missing

LEMMA SourcesAnswer ==
  ASSUME Sources!IInv
  PROVE  Sources!QuoteIsNewest /\ Sources!FxIsNewestForSide /\ Sources!FixingIsMerged
<1>0. Sources!TypeOK
  BY DEF Sources!IInv
<1>1. ASSUME NEW i \in Instrument, NEW side \in Sources!Side
      PROVE  Sources!GetQuote(i, side) =
               IF Sources!About("quote", i) # {}
               THEN LET n == Sources!Newest(Sources!About("quote", i))
                    IN  <<n, IF side \in feed[n].sides THEN side ELSE "MID">>
               ELSE IF i \in BaseQuotes THEN <<0, side>> ELSE Sources!Absent
  <2>1. Sources!StoredFrom(quotes[i], Sources!About("quote", i))
    BY DEF Sources!IInv
  <2> QED
    BY <1>0, <2>1, PositionsInFeed, StoredIsNewest DEF Sources!GetQuote
<1>2. ASSUME NEW p \in Pair, NEW side \in Sources!Side
      PROVE  Sources!GetFxRate(p, side) =
               IF Sources!Carrying(p, side) # {} THEN <<Sources!Newest(Sources!Carrying(p, side)), side>>
               ELSE IF Sources!Carrying(p, "MID") # {}
               THEN <<Sources!Newest(Sources!Carrying(p, "MID")), "MID">>
               ELSE Sources!Absent
  <2>1. /\ Sources!StoredFrom(fx_rates[<<p, side>>], Sources!Carrying(p, side))
        /\ Sources!StoredFrom(fx_rates[<<p, "MID">>], Sources!Carrying(p, "MID"))
    BY DEF Sources!IInv, Sources!Side
  <2> QED
    BY <1>0, <2>1, PositionsInFeed, StoredIsNewest DEF Sources!GetFxRate
<1>3. ASSUME NEW f \in FixingKey
      PROVE  Sources!GetFixing(f) = Sources!Merged(f)
  <2>1. Sources!StoredFrom(fixings[f], Sources!About("fixing", f))
    BY DEF Sources!IInv
  <2> QED
    BY <1>0, <2>1, PositionsInFeed, StoredIsNewest DEF Sources!GetFixing, Sources!Merged
<1> QED
  BY <1>1, <1>2, <1>3
     DEF Sources!QuoteIsNewest, Sources!FxIsNewestForSide, Sources!FixingIsMerged

-----------------------------------------------------------------------------
(* PricingBatch.  d[key] = value replaces the value of its key, or adds it *)
(* at the end, and keeps all others.                                       *)
LEMMA PutKeeps ==
  ASSUME NEW T, NEW d \in Seq(T), NEW e \in T, Batch!OneEach(d)
  PROVE  /\ Batch!Put(d, e) \in Seq(T) /\ Batch!OneEach(Batch!Put(d, e))
         /\ e.from \in Batch!From(Batch!Put(d, e))
         /\ \A j \in DOMAIN d : d[j].key # e.key => d[j].from \in Batch!From(Batch!Put(d, e))
         /\ (\A j \in DOMAIN d : d[j].key # e.key) => Batch!Put(d, e) = Append(d, e)
<1> DEFINE D == Batch!Put(d, e)
<1>1. CASE e.key \in Batch!Keys(d)
  <2>1. D = [j \in DOMAIN d |-> IF d[j].key = e.key THEN e ELSE d[j]]
    BY <1>1 DEF Batch!Put
  <2>2. PICK m \in DOMAIN d : d[m].key = e.key
    BY <1>1 DEF Batch!Keys
  <2>3. /\ DOMAIN D = DOMAIN d /\ \A j \in DOMAIN d : D[j].key = d[j].key
        /\ D[m] = e /\ \A j \in DOMAIN d : d[j].key # e.key => D[j] = d[j]
    BY <2>1, <2>2
  <2>4. D \in Seq(T)
    BY <2>1
  <2> HIDE DEF D
  <2>5. Batch!OneEach(D) /\ e.from \in Batch!From(D)
    BY <2>2, <2>3 DEF Batch!OneEach, Batch!From
  <2>6. \A j \in DOMAIN d : d[j].key # e.key => d[j].from \in Batch!From(D)
    BY <2>3 DEF Batch!From
  <2> QED
    BY <2>2, <2>4, <2>5, <2>6 DEF D
<1>2. CASE e.key \notin Batch!Keys(d)
  <2>1. D = Append(d, e)
    BY <1>2 DEF Batch!Put
  <2>2. \A j \in DOMAIN d : d[j].key # e.key
    BY <1>2 DEF Batch!Keys
  <2>3. /\ D \in Seq(T) /\ Len(d) \in Nat /\ DOMAIN d = 1 .. Len(d)
        /\ DOMAIN D = 1 .. Len(d) + 1 /\ D[Len(d) + 1] = e
        /\ \A j \in DOMAIN d : D[j] = d[j]
    BY <2>1
  <2> HIDE DEF D
  <2>4. DOMAIN D = DOMAIN d \cup {Len(d) + 1}
    BY <2>3
  <2>5. Batch!OneEach(D)
    BY <2>2, <2>3, <2>4 DEF Batch!OneEach
  <2>6. e.from \in Batch!From(D) /\ \A j \in DOMAIN d : d[j].from \in Batch!From(D)
    BY <2>3, <2>4 DEF Batch!From
  <2> QED
    BY <2>1, <2>3, <2>5, <2>6 DEF D
<1> QED
  BY <1>1, <1>2

(* Appending the answer to a later request keeps the order.                *)
LEMMA AppendAscends ==
  ASSUME NEW T, NEW d \in Seq(T), NEW e \in T, Batch!Ascending(d),
         \A j \in DOMAIN d : d[j].from < e.from
  PROVE  Batch!Ascending(Append(d, e)) /\ Len(Append(d, e)) = Len(d) + 1
<1>1. /\ Len(d) \in Nat /\ DOMAIN d = 1 .. Len(d) /\ Len(Append(d, e)) = Len(d) + 1
      /\ DOMAIN Append(d, e) = 1 .. Len(d) + 1 /\ Append(d, e)[Len(d) + 1] = e
      /\ \A j \in DOMAIN d : Append(d, e)[j] = d[j]
  OBVIOUS
<1> DEFINE D == Append(d, e)
<1> HIDE DEF D
<1>2. Batch!Ascending(D)
  <2> SUFFICES ASSUME NEW i \in DOMAIN D, NEW j \in DOMAIN D, i < j
               PROVE  D[i].from < D[j].from
    BY DEF Batch!Ascending
  <2>1. i \in DOMAIN d /\ (j \in DOMAIN d \/ j = Len(d) + 1)
    BY <1>1 DEF D
  <2> QED
    BY <1>1, <2>1 DEF Batch!Ascending, D
<1> QED
  BY <1>1, <1>2 DEF D

LEMMA BatchInit == ASSUME Batch!BatchConstants, Batch!Init PROVE Batch!IInv
<1>1. inputs \in Seq({inputs[i] : i \in DOMAIN inputs}) /\ index = 1
  BY DEF Batch!BatchConstants, Batch!Init
<1>2. Len(inputs) \in Nat
  BY <1>1
<1>3. \A fails \in BOOLEAN : Batch!Answered(fails) = {}
  BY <1>1 DEF Batch!Answered
<1>4. /\ DOMAIN outputs = {} /\ DOMAIN errors = {} /\ Len(outputs) = 0 /\ Len(errors) = 0
      /\ inputs \in Batches /\ \A S : outputs \in Seq(S) /\ errors \in Seq(S)
  BY DEF Batch!Init
<1>5. /\ Batch!OneEach(outputs) /\ Batch!OneEach(errors)
      /\ Batch!Ascending(outputs) /\ Batch!Ascending(errors)
  BY <1>4, Zenon DEF Batch!OneEach, Batch!Ascending
<1>6. \A d, fails : fails \in BOOLEAN => Batch!HasNewest(d, Batch!Answered(fails))
  BY <1>3, Zenon DEF Batch!HasNewest
<1>7. index \in 1 .. Len(inputs) + 1 /\ Len(outputs) + Len(errors) = index - 1
  BY <1>1, <1>2, <1>4
<1> QED
  BY <1>4, <1>5, <1>6, <1>7 DEF Batch!IInv

(* A request that is priced is put into the dict of outputs.               *)
LEMMA PriceSucceedsKeeps ==
  ASSUME Batch!BatchConstants, Batch!IInv, Batch!PriceSucceeds
  PROVE  Batch!IInv'
<1> DEFINE e == Batch!OutputOf(index)
           S == {Batch!OutputOf(i) : i \in Batch!Answered(FALSE)}
           T == S \cup {e}
<1>1. /\ inputs \in Batches /\ Len(inputs) \in Nat /\ DOMAIN inputs = 1 .. Len(inputs)
      /\ index \in 1 .. Len(inputs) /\ index' = index + 1
  <2>1. inputs \in Batches /\ index \in 1 .. Len(inputs) + 1
    BY DEF Batch!IInv
  <2>2. inputs \in Seq({inputs[i] : i \in DOMAIN inputs})
    BY <2>1 DEF Batch!BatchConstants
  <2>3. Len(inputs) \in Nat /\ DOMAIN inputs = 1 .. Len(inputs)
    BY <2>2
  <2> QED
    BY <2>1, <2>3 DEF Batch!PriceSucceeds, Batch!More, Batch!AfterFailure
<1>2. /\ outputs' = Batch!Put(outputs, e) /\ UNCHANGED <<inputs, errors>>
      /\ Batch!Raises(inputs[index]) = FALSE
  BY DEF Batch!PriceSucceeds
<1>3. \A i : /\ Batch!Key(i)' = Batch!Key(i) /\ Batch!OutputOf(i)' = Batch!OutputOf(i)
             /\ Batch!ErrorOf(i)' = Batch!ErrorOf(i) /\ Batch!LastWithKey(i)' = Batch!LastWithKey(i)
  BY <1>2 DEF Batch!Key, Batch!OutputOf, Batch!ErrorOf, Batch!LastWithKey
<1>4. /\ Batch!Answered(FALSE)' = Batch!Answered(FALSE) \cup {index}
      /\ Batch!Answered(TRUE)' = Batch!Answered(TRUE)
      /\ Batch!Answered(FALSE) \subseteq 1 .. index - 1 /\ Batch!Answered(TRUE) \subseteq 1 .. index - 1
  BY <1>1, <1>2 DEF Batch!Answered
<1>5. /\ T = {Batch!OutputOf(i) : i \in Batch!Answered(FALSE)}'
      /\ {Batch!ErrorOf(i) : i \in Batch!Answered(TRUE)}' = {Batch!ErrorOf(i) : i \in Batch!Answered(TRUE)}
  BY <1>3, <1>4
<1>6. /\ e.key = Batch!Key(index) /\ e.from = index
      /\ \A x \in S : x.from \in 1 .. index - 1 /\ x.key = Batch!Key(x.from)
  <2>1. \A i : Batch!OutputOf(i).key = Batch!Key(i) /\ Batch!OutputOf(i).from = i
    BY DEF Batch!OutputOf
  <2>2. \A x \in S : \E i \in 1 .. index - 1 : x = Batch!OutputOf(i)
    BY <1>4
  <2>3. e.key = Batch!Key(index) /\ e.from = index
    BY <2>1
  <2> HIDE DEF e, S
  <2>4. \A x \in S : x.from \in 1 .. index - 1 /\ x.key = Batch!Key(x.from)
    <3> SUFFICES ASSUME NEW x \in S
                 PROVE  x.from \in 1 .. index - 1 /\ x.key = Batch!Key(x.from)
      OBVIOUS
    <3>1. PICK i \in 1 .. index - 1 : x = Batch!OutputOf(i)
      BY <2>2
    <3>2. x.key = Batch!Key(i) /\ x.from = i
      BY <2>1, <3>1, Zenon
    <3> QED
      BY <3>2
  <2> QED
    BY <2>3, <2>4
<1>7. outputs \in Seq(S) /\ Batch!OneEach(outputs) /\ Batch!HasNewest(outputs, Batch!Answered(FALSE))
  BY DEF Batch!IInv
<1> HIDE DEF e, S
<1>8. outputs \in Seq(T) /\ e \in T
  BY <1>7
<1>9. \A j \in DOMAIN outputs : outputs[j].from \in 1 .. index - 1 /\ outputs[j].key = Batch!Key(outputs[j].from)
  BY <1>6, <1>7
<1> HIDE DEF T
<1>10. /\ outputs' \in Seq(T) /\ Batch!OneEach(outputs')
       /\ index \in Batch!From(outputs')
       /\ \A j \in DOMAIN outputs : outputs[j].key # e.key => outputs[j].from \in Batch!From(outputs')
       /\ (\A j \in DOMAIN outputs : outputs[j].key # e.key) => outputs' = Append(outputs, e)
  BY <1>2, <1>6, <1>7, <1>8, PutKeeps
<1>11. Batch!HasNewest(outputs, Batch!Answered(FALSE))'
  <2> SUFFICES ASSUME NEW i \in Batch!Answered(FALSE) \cup {index},
                      \A j \in i + 1 .. index : Batch!Key(j) # Batch!Key(i)
               PROVE  i \in Batch!From(outputs')
    <3>1. index' - 1 = index
      BY <1>1
    <3> QED
      BY <1>3, <1>4, <3>1, Zenon DEF Batch!HasNewest, Batch!From
  <2>1. CASE i = index
    BY <1>10, <2>1
  <2>2. CASE i \in Batch!Answered(FALSE)
    <3>1. i \in 1 .. index - 1 /\ Batch!Key(i) # Batch!Key(index)
      <4>1. i \in 1 .. index - 1
        BY <1>4, <2>2
      <4>2. index \in i + 1 .. index
        BY <1>1, <4>1
      <4> QED
        BY <4>1, <4>2
    <3>2. i \in Batch!From(outputs)
      <4>1. \A j \in i + 1 .. index - 1 : j \in i + 1 .. index
        BY <1>1, <3>1
      <4> QED
        BY <1>7, <2>2, <4>1, Zenon DEF Batch!HasNewest
    <3>3. PICK j \in DOMAIN outputs : outputs[j].from = i
      BY <3>2 DEF Batch!From
    <3> QED
      BY <1>6, <1>9, <1>10, <3>1, <3>3
  <2> QED
    BY <2>1, <2>2
<1>12. Batch!HasNewest(errors, Batch!Answered(TRUE))'
  <2>1. Batch!HasNewest(errors, Batch!Answered(TRUE))
    BY DEF Batch!IInv
  <2>2. SUFFICES ASSUME NEW i \in Batch!Answered(TRUE),
                        \A j \in i + 1 .. index : Batch!Key(j) # Batch!Key(i)
                 PROVE  i \in Batch!From(errors)
    <3>1. index' - 1 = index
      BY <1>1
    <3> QED
      BY <1>2, <1>3, <1>4, <3>1, Zenon DEF Batch!HasNewest, Batch!From
  <2>3. \A j \in i + 1 .. index - 1 : j \in i + 1 .. index
    BY <1>1, <1>4
  <2> QED
    BY <2>1, <2>2, <2>3, Zenon DEF Batch!HasNewest
<1>13. ASSUME (\A i \in DOMAIN inputs : Batch!LastWithKey(i))'
       PROVE  /\ Len(outputs') + Len(errors') = index
              /\ Batch!Ascending(outputs') /\ Batch!Ascending(errors')
  <2>1. \A i \in DOMAIN inputs : Batch!LastWithKey(i)
    BY <1>2, <1>3, <1>13
  <2>2. /\ Len(outputs) + Len(errors) = index - 1
        /\ Batch!Ascending(outputs) /\ Batch!Ascending(errors)
    BY <2>1 DEF Batch!IInv
  <2>3. \A i \in 1 .. index - 1 : Batch!Key(i) # Batch!Key(index)
    BY <1>1, <2>1 DEF Batch!LastWithKey
  <2>4. \A j \in DOMAIN outputs : outputs[j].key # e.key /\ outputs[j].from < e.from
    BY <1>1, <1>6, <1>9, <2>3
  <2>5. outputs' = Append(outputs, e)
    BY <1>10, <2>4
  <2>6. Batch!Ascending(outputs') /\ Len(outputs') = Len(outputs) + 1
    BY <1>8, <2>2, <2>4, <2>5, AppendAscends
  <2>7. Len(outputs) \in Nat /\ Len(errors) \in Nat
    BY DEF Batch!IInv
  <2> QED
    BY <1>1, <1>2, <2>2, <2>6, <2>7
<1>14. Batch!OneEach(errors') /\ errors' \in Seq({Batch!ErrorOf(i) : i \in Batch!Answered(TRUE)}')
  BY <1>2, <1>5 DEF Batch!IInv
<1>15. inputs' \in Batches /\ index' \in 1 .. Len(inputs') + 1 /\ index' - 1 = index
  BY <1>1, <1>2
<1>16. outputs' \in Seq({Batch!OutputOf(i) : i \in Batch!Answered(FALSE)}')
  BY <1>5, <1>10
<1> QED
  BY <1>10, <1>11, <1>12, <1>13, <1>14, <1>15, <1>16 DEF Batch!IInv, Batch!OneEach, Batch!Ascending

(* A request that raises is put into the dict of errors.                   *)
LEMMA PriceFailsKeeps ==
  ASSUME Batch!BatchConstants, Batch!IInv, Batch!PriceFails
  PROVE  Batch!IInv'
<1> DEFINE e == Batch!ErrorOf(index)
           S == {Batch!ErrorOf(i) : i \in Batch!Answered(TRUE)}
           T == S \cup {e}
<1>1. /\ inputs \in Batches /\ Len(inputs) \in Nat /\ DOMAIN inputs = 1 .. Len(inputs)
      /\ index \in 1 .. Len(inputs) /\ index' = index + 1
  <2>1. inputs \in Batches /\ index \in 1 .. Len(inputs) + 1
    BY DEF Batch!IInv
  <2>2. inputs \in Seq({inputs[i] : i \in DOMAIN inputs})
    BY <2>1 DEF Batch!BatchConstants
  <2>3. Len(inputs) \in Nat /\ DOMAIN inputs = 1 .. Len(inputs)
    BY <2>2
  <2> QED
    BY <2>1, <2>3 DEF Batch!PriceFails, Batch!More, Batch!AfterFailure
<1>2. /\ errors' = Batch!Put(errors, e) /\ UNCHANGED <<inputs, outputs>>
      /\ Batch!Raises(inputs[index]) = TRUE
  BY DEF Batch!PriceFails
<1>3. \A i : /\ Batch!Key(i)' = Batch!Key(i) /\ Batch!OutputOf(i)' = Batch!OutputOf(i)
             /\ Batch!ErrorOf(i)' = Batch!ErrorOf(i) /\ Batch!LastWithKey(i)' = Batch!LastWithKey(i)
  BY <1>2 DEF Batch!Key, Batch!OutputOf, Batch!ErrorOf, Batch!LastWithKey
<1>4. /\ Batch!Answered(TRUE)' = Batch!Answered(TRUE) \cup {index}
      /\ Batch!Answered(FALSE)' = Batch!Answered(FALSE)
      /\ Batch!Answered(TRUE) \subseteq 1 .. index - 1 /\ Batch!Answered(FALSE) \subseteq 1 .. index - 1
  BY <1>1, <1>2 DEF Batch!Answered
<1>5. /\ T = {Batch!ErrorOf(i) : i \in Batch!Answered(TRUE)}'
      /\ {Batch!OutputOf(i) : i \in Batch!Answered(FALSE)}' = {Batch!OutputOf(i) : i \in Batch!Answered(FALSE)}
  BY <1>3, <1>4
<1>6. /\ e.key = Batch!Key(index) /\ e.from = index
      /\ \A x \in S : x.from \in 1 .. index - 1 /\ x.key = Batch!Key(x.from)
  <2>1. \A i : Batch!ErrorOf(i).key = Batch!Key(i) /\ Batch!ErrorOf(i).from = i
    BY DEF Batch!ErrorOf
  <2>2. \A x \in S : \E i \in 1 .. index - 1 : x = Batch!ErrorOf(i)
    BY <1>4
  <2>3. e.key = Batch!Key(index) /\ e.from = index
    BY <2>1
  <2> HIDE DEF e, S
  <2>4. \A x \in S : x.from \in 1 .. index - 1 /\ x.key = Batch!Key(x.from)
    <3> SUFFICES ASSUME NEW x \in S
                 PROVE  x.from \in 1 .. index - 1 /\ x.key = Batch!Key(x.from)
      OBVIOUS
    <3>1. PICK i \in 1 .. index - 1 : x = Batch!ErrorOf(i)
      BY <2>2
    <3>2. x.key = Batch!Key(i) /\ x.from = i
      BY <2>1, <3>1, Zenon
    <3> QED
      BY <3>2
  <2> QED
    BY <2>3, <2>4
<1>7. errors \in Seq(S) /\ Batch!OneEach(errors) /\ Batch!HasNewest(errors, Batch!Answered(TRUE))
  BY DEF Batch!IInv
<1> HIDE DEF e, S
<1>8. errors \in Seq(T) /\ e \in T
  BY <1>7
<1>9. \A j \in DOMAIN errors : errors[j].from \in 1 .. index - 1 /\ errors[j].key = Batch!Key(errors[j].from)
  BY <1>6, <1>7
<1> HIDE DEF T
<1>10. /\ errors' \in Seq(T) /\ Batch!OneEach(errors')
       /\ index \in Batch!From(errors')
       /\ \A j \in DOMAIN errors : errors[j].key # e.key => errors[j].from \in Batch!From(errors')
       /\ (\A j \in DOMAIN errors : errors[j].key # e.key) => errors' = Append(errors, e)
  BY <1>2, <1>6, <1>7, <1>8, PutKeeps
<1>11. Batch!HasNewest(errors, Batch!Answered(TRUE))'
  <2> SUFFICES ASSUME NEW i \in Batch!Answered(TRUE) \cup {index},
                      \A j \in i + 1 .. index : Batch!Key(j) # Batch!Key(i)
               PROVE  i \in Batch!From(errors')
    <3>1. index' - 1 = index
      BY <1>1
    <3> QED
      BY <1>3, <1>4, <3>1, Zenon DEF Batch!HasNewest, Batch!From
  <2>1. CASE i = index
    BY <1>10, <2>1
  <2>2. CASE i \in Batch!Answered(TRUE)
    <3>1. i \in 1 .. index - 1 /\ Batch!Key(i) # Batch!Key(index)
      <4>1. i \in 1 .. index - 1
        BY <1>4, <2>2
      <4>2. index \in i + 1 .. index
        BY <1>1, <4>1
      <4> QED
        BY <4>1, <4>2
    <3>2. i \in Batch!From(errors)
      <4>1. \A j \in i + 1 .. index - 1 : j \in i + 1 .. index
        BY <1>1, <3>1
      <4> QED
        BY <1>7, <2>2, <4>1, Zenon DEF Batch!HasNewest
    <3>3. PICK j \in DOMAIN errors : errors[j].from = i
      BY <3>2 DEF Batch!From
    <3> QED
      BY <1>6, <1>9, <1>10, <3>1, <3>3
  <2> QED
    BY <2>1, <2>2
<1>12. Batch!HasNewest(outputs, Batch!Answered(FALSE))'
  <2>1. Batch!HasNewest(outputs, Batch!Answered(FALSE))
    BY DEF Batch!IInv
  <2>2. SUFFICES ASSUME NEW i \in Batch!Answered(FALSE),
                        \A j \in i + 1 .. index : Batch!Key(j) # Batch!Key(i)
                 PROVE  i \in Batch!From(outputs)
    <3>1. index' - 1 = index
      BY <1>1
    <3> QED
      BY <1>2, <1>3, <1>4, <3>1, Zenon DEF Batch!HasNewest, Batch!From
  <2>3. \A j \in i + 1 .. index - 1 : j \in i + 1 .. index
    BY <1>1, <1>4
  <2> QED
    BY <2>1, <2>2, <2>3, Zenon DEF Batch!HasNewest
<1>13. ASSUME (\A i \in DOMAIN inputs : Batch!LastWithKey(i))'
       PROVE  /\ Len(outputs') + Len(errors') = index
              /\ Batch!Ascending(outputs') /\ Batch!Ascending(errors')
  <2>1. \A i \in DOMAIN inputs : Batch!LastWithKey(i)
    BY <1>2, <1>3, <1>13
  <2>2. /\ Len(outputs) + Len(errors) = index - 1
        /\ Batch!Ascending(outputs) /\ Batch!Ascending(errors)
    BY <2>1 DEF Batch!IInv
  <2>3. \A i \in 1 .. index - 1 : Batch!Key(i) # Batch!Key(index)
    BY <1>1, <2>1 DEF Batch!LastWithKey
  <2>4. \A j \in DOMAIN errors : errors[j].key # e.key /\ errors[j].from < e.from
    BY <1>1, <1>6, <1>9, <2>3
  <2>5. errors' = Append(errors, e)
    BY <1>10, <2>4
  <2>6. Batch!Ascending(errors') /\ Len(errors') = Len(errors) + 1
    BY <1>8, <2>2, <2>4, <2>5, AppendAscends
  <2>7. Len(outputs) \in Nat /\ Len(errors) \in Nat
    BY DEF Batch!IInv
  <2> QED
    BY <1>1, <1>2, <2>2, <2>6, <2>7
<1>14. Batch!OneEach(outputs') /\ outputs' \in Seq({Batch!OutputOf(i) : i \in Batch!Answered(FALSE)}')
  BY <1>2, <1>5 DEF Batch!IInv
<1>15. inputs' \in Batches /\ index' \in 1 .. Len(inputs') + 1 /\ index' - 1 = index
  BY <1>1, <1>2
<1>16. errors' \in Seq({Batch!ErrorOf(i) : i \in Batch!Answered(TRUE)}')
  BY <1>5, <1>10
<1> QED
  BY <1>10, <1>11, <1>12, <1>13, <1>14, <1>15, <1>16 DEF Batch!IInv, Batch!OneEach, Batch!Ascending

LEMMA BatchStep ==
  ASSUME Batch!BatchConstants, Batch!IInv, [Batch!Next]_(Batch!vars)
  PROVE  Batch!IInv'
<1>1. CASE Batch!KeyRaises \/ UNCHANGED Batch!vars
  <2>1. UNCHANGED <<inputs, index, outputs, errors>>
    BY <1>1 DEF Batch!KeyRaises, Batch!vars
  <2>2. \A i : /\ Batch!Key(i)' = Batch!Key(i) /\ Batch!OutputOf(i)' = Batch!OutputOf(i)
               /\ Batch!ErrorOf(i)' = Batch!ErrorOf(i)
               /\ Batch!LastWithKey(i)' = Batch!LastWithKey(i)
    BY <2>1 DEF Batch!Key, Batch!OutputOf, Batch!ErrorOf, Batch!LastWithKey
  <2>3. \A fails : Batch!Answered(fails)' = Batch!Answered(fails)
    BY <2>1 DEF Batch!Answered
  <2>4. /\ Batch!OneEach(outputs)' = Batch!OneEach(outputs)
        /\ Batch!OneEach(errors)' = Batch!OneEach(errors)
        /\ Batch!Ascending(outputs)' = Batch!Ascending(outputs)
        /\ Batch!Ascending(errors)' = Batch!Ascending(errors)
    BY <2>1 DEF Batch!OneEach, Batch!Ascending
  <2>5. /\ Batch!HasNewest(outputs, Batch!Answered(FALSE))'
        /\ Batch!HasNewest(errors, Batch!Answered(TRUE))'
    BY <2>1, <2>2, <2>3 DEF Batch!IInv, Batch!HasNewest, Batch!From
  <2> QED
    BY <2>1, <2>2, <2>3, <2>4, <2>5 DEF Batch!IInv
<1> QED
  BY <1>1, PriceSucceedsKeeps, PriceFailsKeeps DEF Batch!Next

(* Both rules for the id take the one id that the request names.           *)
LEMMA IdsAgree ==
  ASSUME NEW r, Batch!IsRequest(r), Batch!NamesOne(r)
  PROVE  Batch!RoutedId(r) = Batch!KeyId(r)
<1>1. Batch!RequestedId(r) = Batch!KeyId(r)
  BY DEF Batch!IsRequest, Batch!NamesOne, Batch!RequestedId, Batch!KeyId
<1> QED
  BY <1>1 DEF Batch!NamesOne, Batch!RoutedId

LEMMA BatchAnswered ==
  ASSUME Batch!BatchConstants, Batch!IInv
  PROVE  Batch!BatchAnswers
<1> SUFFICES ASSUME Batch!Returned
             PROVE  Batch!BatchAnswers
  BY DEF Batch!BatchAnswers
<1>1. /\ inputs \in Batches /\ Len(inputs) \in Nat /\ DOMAIN inputs = 1 .. Len(inputs)
      /\ index = Len(inputs) + 1
  <2>1. inputs \in Batches /\ index \in 1 .. Len(inputs) + 1
    BY DEF Batch!IInv
  <2>2. inputs \in Seq({inputs[i] : i \in DOMAIN inputs})
    BY <2>1 DEF Batch!BatchConstants
  <2> QED
    BY <2>1, <2>2 DEF Batch!Returned
<1>2. ASSUME NEW i \in DOMAIN inputs, Batch!LastWithKey(i)
      PROVE  i \in Batch!From(IF Batch!Raises(inputs[i]) THEN errors ELSE outputs)
  <2>1. i \in 1 .. index - 1 /\ \A j \in i + 1 .. index - 1 : Batch!Key(j) # Batch!Key(i)
    BY <1>1, <1>2 DEF Batch!LastWithKey
  <2>2. CASE Batch!Raises(inputs[i])
    <3>1. i \in Batch!Answered(TRUE)
      BY <2>1, <2>2 DEF Batch!Answered
    <3> QED
      BY <2>1, <2>2, <3>1 DEF Batch!IInv, Batch!HasNewest
  <2>3. CASE ~ Batch!Raises(inputs[i])
    <3>1. i \in Batch!Answered(FALSE)
      BY <2>1, <2>3 DEF Batch!Answered
    <3> QED
      BY <2>1, <2>3, <3>1 DEF Batch!IInv, Batch!HasNewest
  <2> QED
    BY <2>2, <2>3
<1>3. ASSUME \A i \in DOMAIN inputs : Batch!LastWithKey(i)
      PROVE  /\ Len(outputs) + Len(errors) = Len(inputs)
             /\ Batch!Ascending(outputs) /\ Batch!Ascending(errors)
  <2>1. /\ Len(outputs) + Len(errors) = index - 1
        /\ Batch!Ascending(outputs) /\ Batch!Ascending(errors)
    BY <1>3, Zenon DEF Batch!IInv
  <2>2. index - 1 = Len(inputs)
    BY <1>1
  <2> QED
    BY <2>1, <2>2, Zenon
<1>4. ASSUME NEW j \in DOMAIN outputs, NEW r, r = inputs[outputs[j].from],
             Batch!NamesOne(r), outputs[j].key[1] = "id"
      PROVE  outputs[j].value.id = outputs[j].key[2]
  <2>1. PICK i \in Batch!Answered(FALSE) : outputs[j] = Batch!OutputOf(i)
    <3> DEFINE S == {Batch!OutputOf(i) : i \in Batch!Answered(FALSE)}
    <3>1. outputs \in Seq(S)
      BY DEF Batch!IInv
    <3> HIDE DEF S
    <3>2. outputs[j] \in S
      BY <1>4, <3>1
    <3> QED
      BY <3>2 DEF S
  <2>2. i \in DOMAIN inputs /\ r = inputs[i]
    BY <1>1, <1>4, <2>1 DEF Batch!Answered, Batch!OutputOf
  <2>3. Batch!IsRequest(r)
    BY <1>1, <2>2 DEF Batch!BatchConstants
  <2>4. outputs[j].value.id = Batch!RoutedId(r)
    BY <2>1, <2>2 DEF Batch!OutputOf, Batch!Priced
  <2>5. outputs[j].key = Batch!Key(i)
    BY <2>1 DEF Batch!OutputOf
  <2>6. outputs[j].key[2] = Batch!KeyId(r)
    BY <1>4, <2>2, <2>5 DEF Batch!Key
  <2> QED
    BY <1>4, <2>3, <2>4, <2>6, IdsAgree
<1> QED
  BY <1>2, <1>3, <1>4 DEF Batch!BatchAnswers

-----------------------------------------------------------------------------
(* The services together: a behaviour is one of a single service, in which *)
(* the others rest, so that it is a behaviour of each of them.             *)
LEMMA PartsStart == PartInit => Init /\ Sources!Init /\ Batch!Init
BY PartsAssumption DEF PartInit, NoBatch, Batch!Init

LEMMA PartsStep ==
  [PartNext]_all => [Next]_vars /\ [Sources!Next]_(Sources!vars) /\ [Batch!Next]_(Batch!vars)
<1>1. UNCHANGED sourcing => UNCHANGED Sources!vars
  BY DEF sourcing, Sources!vars
<1>2. UNCHANGED pricing => UNCHANGED Batch!vars
  BY DEF pricing, Batch!vars
<1>3. UNCHANGED all => UNCHANGED vars /\ UNCHANGED sourcing /\ UNCHANGED pricing
  BY DEF all
<1> QED
  BY <1>1, <1>2, <1>3 DEF PartNext

LEMMA PartsImplement == PartSpec => Spec /\ Sources!Spec /\ Batch!Spec
BY PartsStart, PartsStep, PTL DEF PartSpec, Spec, Sources!Spec, Batch!Spec

(* Each read of a source answers with the newest update that has what is   *)
(* asked for, for any feed over any instruments, fixings and pairs.        *)
THEOREM ReadsAreNewestHolds == PartSpec => []ReadsAreNewest
<1>1. Sources!SourceConstants
  BY PartsAssumption
<1>2. Sources!Init => Sources!IInv
  BY <1>1, SourcesInit
<1>3. Sources!IInv /\ [Sources!Next]_(Sources!vars) => Sources!IInv'
  BY <1>1, SourcesStep
<1>4. Sources!IInv => ReadsAreNewest
  BY SourcesAnswer DEF Sources!IInv, ReadsAreNewest
<1> QED
  BY <1>2, <1>3, <1>4, PartsImplement, PTL DEF Sources!Spec

(* price_batch: every request of a batch that returns is answered, for any *)
(* batches.                                                                *)
THEOREM BatchAnswersHolds == PartSpec => []BatchAnswers
<1>1. Batch!BatchConstants
  BY PartsAssumption
<1>2. Batch!Init => Batch!IInv
  BY <1>1, BatchInit
<1>3. Batch!IInv /\ [Batch!Next]_(Batch!vars) => Batch!IInv'
  BY <1>1, BatchStep
<1>4. Batch!IInv => BatchAnswers
  BY <1>1, BatchAnswered DEF BatchAnswers
<1> QED
  BY <1>2, <1>3, <1>4, PartsImplement, PTL DEF Batch!Spec
=============================================================================
