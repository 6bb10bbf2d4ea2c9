----------------------------- MODULE Store_proofs -----------------------------
(***************************************************************************)
(* For any number of connections, curves, snapshots, keys and records: the *)
(* table of curve snapshots is the log that VersionedLog describes, the    *)
(* overrides are the map with a log that AuditedMap describes, and a walk  *)
(* over pages misses nothing while others insert and no more than was      *)
(* deleted meanwhile.                                                      *)
(***************************************************************************)
EXTENDS MCStore, FiniteSetTheorems, SequenceTheorems, TLAPS

-----------------------------------------------------------------------------
(* Curve snapshots                                                         *)

(* COALESCE(MAX(version), 0) is the length of a gapless log.               *)
LEMMA MaxVersion ==
  ASSUME NEW n \in Nat
  PROVE  Max(1 .. n \cup {0}) = n
<1> DEFINE IsMax(x) == x \in 1 .. n \cup {0} /\ \A y \in 1 .. n \cup {0} : x >= y
<1>1. IsMax(n)
  OBVIOUS
<1>2. \A x : IsMax(x) => x = n
  <2> SUFFICES ASSUME NEW x, IsMax(x) PROVE x = n
    OBVIOUS
  <2>1. n \in 1 .. n \cup {0} /\ x \in 0 .. n
    OBVIOUS
  <2>2. x >= n
    BY <2>1
  <2> QED
    BY <2>1, <2>2
<1>3. Max(1 .. n \cup {0}) = CHOOSE x : IsMax(x)
  BY DEF Max
<1> HIDE DEF IsMax
<1>4. IsMax(CHOOSE x : IsMax(x))
  BY <1>1
<1> QED
  BY <1>2, <1>3, <1>4

LEMMA VersionsAre ==
  ASSUME TypeOK, NEW c \in Curve
  PROVE  Versions(c) = 1 .. Len(table[c]) /\ Len(table[c]) \in Nat
<1>1. table[c] \in Seq(Snapshot)
  BY DEF TypeOK
<1> QED
  BY <1>1 DEF Versions

(* A new row under the version after the newest is appended.               *)
LEMMA ExtendedIsAppend ==
  ASSUME NEW t \in Seq(Snapshot), NEW s \in Snapshot
  PROVE  Extended(t, Len(t) + 1, s) = Append(t, s)
<1>1. DOMAIN t = 1 .. Len(t) /\ Len(t) \in Nat
  OBVIOUS
<1>2. DOMAIN t \cup {Len(t) + 1} = 1 .. Len(t) + 1
  BY <1>1
<1>3. Append(t, s) \in [1 .. Len(t) + 1 -> Snapshot]
  <2>1. Append(t, s) \in Seq(Snapshot) /\ Len(Append(t, s)) = Len(t) + 1
    OBVIOUS
  <2> QED
    BY <2>1, LenProperties
<1>4. \A i \in 1 .. Len(t) + 1 :
        Append(t, s)[i] = IF i = Len(t) + 1 THEN s ELSE t[i]
  BY <1>1
<1>5. Extended(t, Len(t) + 1, s) = [i \in 1 .. Len(t) + 1 |-> IF i = Len(t) + 1 THEN s ELSE t[i]]
  BY <1>2 DEF Extended
<1> QED
  BY <1>3, <1>4, <1>5

-----------------------------------------------------------------------------
LEMMA RowsType ==
  ASSUME TypeOK, NEW c \in Curve
  PROVE  Rows(c) \in Nat
<1>1. IsFiniteSet(1 .. Len(table[c]))
  BY VersionsAre, FS_Interval
<1> QED
  BY <1>1, VersionsAre, FS_CardinalityType DEF Rows

LEMMA PageType ==
  ASSUME TypeOK, NEW c \in Curve, NEW o \in Nat
  PROVE  Page(c, o) \subseteq Nat /\ NextCursor(o, Page(c, o)) \in Nat
<1>1. IsFiniteSet(1 .. Len(table[c]))
  BY VersionsAre, FS_Interval
<1>2. Page(c, o) \subseteq 1 .. Len(table[c])
  BY VersionsAre DEF Page
<1>3. Cardinality(Page(c, o)) \in Nat
  BY <1>1, <1>2, FS_Subset, FS_CardinalityType
<1> QED
  BY <1>2, <1>3, VersionsAre DEF NextCursor

(* Starting an insert: the version read is one past the newest.            *)
LEMMA ReadStep ==
  ASSUME IInv, NEW w \in Writer, NEW c \in Curve, NEW s \in Snapshot,
         ReadVersion(w, c, s)
  PROVE  IInv'
<1> DEFINE n == Len(table[c])
<1>0. TypeOK
  BY DEF IInv
<1>1. n \in Nat /\ Max(Versions(c) \cup {0}) + 1 = n + 1
  BY <1>0, VersionsAre, MaxVersion
<1>2. writer' = [writer EXCEPT ![w] =
        [at |-> "inserting", curve |-> c, snapshot |-> s, version |-> n + 1]]
  BY <1>1 DEF ReadVersion
<1>3. UNCHANGED <<table, returned, reader>>
  BY DEF ReadVersion
<1> DEFINE i == [at |-> "inserting", curve |-> c, snapshot |-> s, version |-> n + 1]
<1>4. i \in Insert /\ i.version = n + 1 /\ i.curve = c
  BY <1>1 DEF Insert
<1> HIDE DEF i, n
<1>5. writer' \in [Writer -> Insert \cup {Idle}]
  BY <1>0, <1>2, <1>4 DEF TypeOK, i
<1>6. TypeOK'
  BY <1>0, <1>3, <1>5 DEF TypeOK
<1>7. ReturnedStays'
  BY <1>3 DEF IInv, ReturnedStays, Versions
<1>8. ASSUME NEW v \in Writer, writer'[v] # Idle
      PROVE  writer'[v].version \in 1 .. Len(table'[writer'[v].curve]) + 1
  <2>1. CASE v = w
    <3>1. writer'[v] = i
      BY <1>0, <1>2, <2>1 DEF TypeOK, i
    <3> QED
      BY <3>1, <1>1, <1>3, <1>4 DEF n
  <2>2. CASE v # w
    <3>1. writer'[v] = writer[v]
      BY <1>0, <1>2, <2>2 DEF TypeOK
    <3> QED
      BY <3>1, <1>3, <1>8 DEF IInv
  <2> QED
    BY <2>1, <2>2
<1> QED
  BY <1>6, <1>7, <1>8 DEF IInv

(* The row a writer writes goes to the end of the curve's log: the version *)
(* is at most one past the newest, and the key must be free.               *)
LEMMA WriteAppends ==
  ASSUME IInv, NEW w \in Writer, WriteRow(w)
  PROVE  /\ writer[w] \in Insert
         /\ writer[w].version = Len(table[writer[w].curve]) + 1
         /\ table' = [table EXCEPT ![writer[w].curve] = Append(@, writer[w].snapshot)]
<1> DEFINE i == writer[w]
<1>0. TypeOK
  BY DEF IInv
<1>1. i \in Insert /\ i.curve \in Curve /\ i.snapshot \in Snapshot /\ i.version \in Nat
  BY <1>0 DEF TypeOK, WriteRow, Insert
<1>2. i.version \in 1 .. Len(table[i.curve]) + 1
  BY DEF IInv, WriteRow
<1>3. i.version \notin 1 .. Len(table[i.curve]) /\ Len(table[i.curve]) \in Nat
  BY <1>0, <1>1, VersionsAre DEF WriteRow, KeyFree
<1>4. i.version = Len(table[i.curve]) + 1
  BY <1>2, <1>3
<1>5. table' = [table EXCEPT ![i.curve] = Extended(@, i.version, i.snapshot)]
  BY DEF WriteRow
<1>6. table[i.curve] \in Seq(Snapshot)
  BY <1>0, <1>1 DEF TypeOK
<1>7. Extended(table[i.curve], i.version, i.snapshot) = Append(table[i.curve], i.snapshot)
  BY <1>1, <1>4, <1>6, ExtendedIsAppend
<1> QED
  BY <1>1, <1>4, <1>5, <1>7

LEMMA WriteStep ==
  ASSUME IInv, NEW w \in Writer, WriteRow(w)
  PROVE  IInv'
<1> DEFINE c == writer[w].curve
           s == writer[w].snapshot
           n == Len(table[c])
<1>0. TypeOK
  BY DEF IInv
<1>1. /\ c \in Curve /\ s \in Snapshot
      /\ writer[w].version = n + 1
      /\ table' = [table EXCEPT ![c] = Append(@, s)]
  BY WriteAppends DEF Insert
<1>2. /\ returned' = returned \cup {[curve |-> c, snapshot |-> s, version |-> n + 1]}
      /\ writer' = [writer EXCEPT ![w] = Idle]
      /\ reader' = reader
  BY <1>1 DEF WriteRow
<1> HIDE DEF c, s, n
<1>3. table[c] \in Seq(Snapshot) /\ n = Len(table[c]) /\ n \in Nat
  BY <1>0, <1>1, VersionsAre DEF TypeOK, n
<1>4. /\ Append(table[c], s) \in Seq(Snapshot)
      /\ Len(Append(table[c], s)) = n + 1
      /\ Append(table[c], s)[n + 1] = s
      /\ \A k \in 1 .. n : Append(table[c], s)[k] = table[c][k]
  BY <1>1, <1>3
<1>5. table' \in [Curve -> Seq(Snapshot)] /\ table'[c] = Append(table[c], s)
  BY <1>0, <1>1, <1>4 DEF TypeOK
<1>6. \A d \in Curve \ {c} : table'[d] = table[d]
  BY <1>0, <1>1 DEF TypeOK
<1>7. TypeOK'
  <2>1. [curve |-> c, snapshot |-> s, version |-> n + 1]
          \in [curve : Curve, snapshot : Snapshot, version : Nat]
    BY <1>1, <1>3
  <2> QED
    BY <1>0, <1>2, <1>5, <2>1 DEF TypeOK
<1>8. \A d \in Curve : /\ Len(table'[d]) \in Nat /\ Len(table[d]) \in Nat
                       /\ Len(table[d]) =< Len(table'[d])
                       /\ \A k \in 1 .. Len(table[d]) : table'[d][k] = table[d][k]
  <2> TAKE d \in Curve
  <2>1. CASE d = c
    BY <1>3, <1>4, <1>5, <2>1
  <2>2. CASE d # c
    BY <1>0, <1>6, <2>2, VersionsAre
  <2> QED
    BY <2>1, <2>2
<1>9. ReturnedStays'
  <2> SUFFICES ASSUME NEW i \in returned'
               PROVE  i.version \in 1 .. Len(table'[i.curve])
                        /\ table'[i.curve][i.version] = i.snapshot
    <3>1. \A d \in Curve : DOMAIN table'[d] = 1 .. Len(table'[d])
      BY <1>5
    <3>2. \A i \in returned' : i.curve \in Curve
      BY <1>7 DEF TypeOK
    <3> QED
      BY <3>1, <3>2 DEF ReturnedStays, Versions
  <2>1. CASE i \in returned
    <3>1. i.curve \in Curve
      BY <1>0, <2>1 DEF TypeOK
    <3>2. i.version \in 1 .. Len(table[i.curve]) /\ table[i.curve][i.version] = i.snapshot
      BY <1>0, <2>1, <3>1, VersionsAre DEF IInv, ReturnedStays
    <3> QED
      BY <1>8, <3>1, <3>2
  <2>2. CASE i = [curve |-> c, snapshot |-> s, version |-> n + 1]
    BY <1>3, <1>4, <1>5, <2>2
  <2> QED
    BY <1>2, <2>1, <2>2
<1>10. ASSUME NEW v \in Writer, writer'[v] # Idle
       PROVE  writer'[v].version \in 1 .. Len(table'[writer'[v].curve]) + 1
  <2>1. v # w /\ writer'[v] = writer[v]
    BY <1>0, <1>2, <1>10 DEF TypeOK
  <2>2. writer[v].version \in 1 .. Len(table[writer[v].curve]) + 1
    BY <1>10, <2>1 DEF IInv
  <2>3. writer[v].curve \in Curve
    BY <1>0, <1>10, <2>1 DEF TypeOK, Insert
  <2> QED
    BY <1>8, <2>1, <2>2, <2>3
<1> QED
  BY <1>7, <1>9, <1>10 DEF IInv

LEMMA FailStep ==
  ASSUME IInv, NEW w \in Writer, InsertFails(w)
  PROVE  IInv'
<1>1. TypeOK'
  BY DEF IInv, TypeOK, InsertFails
<1>2. ReturnedStays'
  BY DEF IInv, ReturnedStays, InsertFails, Versions
<1>3. ASSUME NEW v \in Writer, writer'[v] # Idle
      PROVE  writer'[v].version \in 1 .. Len(table'[writer'[v].curve]) + 1
  <2>1. writer'[v] = writer[v]
    BY <1>3 DEF IInv, TypeOK, InsertFails
  <2> QED
    BY <1>3, <2>1 DEF IInv, InsertFails
<1> QED
  BY <1>1, <1>2, <1>3 DEF IInv

(* The pages a reader walks over only change what the reader knows.        *)
LEMMA ListingTypes ==
  ASSUME TypeOK, Listing
  PROVE  reader' \in [Reader -> Walk \cup {Idle}] /\ UNCHANGED <<table, writer, returned>>
<1>1. PICK r \in Reader : \/ \E c \in Curve : BeginWalk(r, c)
                          \/ CountRows(r) \/ SelectPage(r) \/ EndWalk(r)
  BY DEF Listing
<1>2. ASSUME NEW c \in Curve, BeginWalk(r, c)
      PROVE  reader' \in [Reader -> Walk \cup {Idle}]
  <2>1. [at |-> "counting", curve |-> c, offset |-> 0, total |-> 0,
         seen |-> {}, since |-> Rows(c), torn |-> FALSE] \in Walk
    BY RowsType DEF Walk
  <2> QED
    BY <1>2, <2>1 DEF BeginWalk, TypeOK
<1>3. ASSUME CountRows(r)
      PROVE  reader' \in [Reader -> Walk \cup {Idle}]
  <2>1. reader[r] \in Walk /\ reader[r].curve \in Curve
    BY <1>3 DEF CountRows, TypeOK, Walk
  <2>2. Rows(reader[r].curve) \in Nat
    BY <2>1, RowsType
  <2>3. [reader[r] EXCEPT !.at = "selecting", !.total = Rows(reader[r].curve)] \in Walk
    BY <2>1, <2>2 DEF Walk
  <2>4. reader' = [reader EXCEPT ![r] =
          [reader[r] EXCEPT !.at = "selecting", !.total = Rows(reader[r].curve)]]
    BY <1>3 DEF CountRows, TypeOK
  <2> QED
    BY <2>3, <2>4 DEF TypeOK
<1>4. ASSUME SelectPage(r)
      PROVE  reader' \in [Reader -> Walk \cup {Idle}]
  <2> DEFINE page == Page(reader[r].curve, reader[r].offset)
             next == NextCursor(reader[r].offset, page)
             torn == reader[r].torn \/ Rows(reader[r].curve) # reader[r].total
             at   == IF next < reader[r].total THEN "counting" ELSE "done"
             new  == [reader[r] EXCEPT !.seen = reader[r].seen \cup page, !.offset = next,
                                       !.torn = torn, !.at = at]
  <2>1. reader[r] \in Walk
    BY <1>4 DEF SelectPage, TypeOK
  <2>2. page \subseteq Nat /\ next \in Nat
    BY <2>1, PageType DEF Walk
  <2>3. torn \in BOOLEAN /\ at \in {"counting", "selecting", "done"}
    BY <2>1 DEF Walk
  <2>4. reader' = [reader EXCEPT ![r] = new]
    BY <1>4 DEF SelectPage, TypeOK
  <2> HIDE DEF page, next, torn, at
  <2>5. new \in Walk
    BY <2>1, <2>2, <2>3 DEF Walk
  <2> QED
    BY <2>4, <2>5 DEF TypeOK
<1>5. ASSUME EndWalk(r)
      PROVE  reader' \in [Reader -> Walk \cup {Idle}]
  BY <1>5 DEF EndWalk, TypeOK
<1> QED
  BY <1>1, <1>2, <1>3, <1>4, <1>5 DEF BeginWalk, CountRows, SelectPage, EndWalk

-----------------------------------------------------------------------------
LEMMA InitStep == Init => IInv
  BY DEF Init, IInv, TypeOK, ReturnedStays

LEMMA NextStep == IInv /\ [Next]_vars => IInv'
<1> SUFFICES ASSUME IInv, [Next]_vars PROVE IInv'
  OBVIOUS
<1>1. CASE Inserting
  BY <1>1, ReadStep, WriteStep, FailStep DEF Inserting
<1>2. CASE Listing
  <2>1. reader' \in [Reader -> Walk \cup {Idle}] /\ UNCHANGED <<table, writer, returned>>
    BY <1>2, ListingTypes DEF IInv
  <2>2. TypeOK'
    BY <2>1 DEF IInv, TypeOK
  <2> QED
    BY <2>1, <2>2 DEF IInv, ReturnedStays, Versions
<1>3. CASE UNCHANGED vars
  BY <1>3 DEF IInv, TypeOK, ReturnedStays, Versions, vars
<1> QED
  BY <1>1, <1>2, <1>3 DEF Next

(* The inductive invariant: what a writer has read is at most one past the *)
(* newest version, and every version returned is still its caller's.       *)
THEOREM InvariantHolds == Spec => []IInv
  BY InitStep, NextStep, PTL DEF Spec

(* A version that insert_curve_snapshot returned stays the caller's.       *)
THEOREM ReturnedStaysHolds == Spec => []ReturnedStays
<1>1. IInv => ReturnedStays
  BY DEF IInv
<1> QED
  BY <1>1, InvariantHolds, PTL

(* The table is a gapless, append-only log per curve: two connections that *)
(* read the same version cannot both insert, and none fills a gap.         *)
THEOREM ImplementsVersionedLog == Spec => KeepsLog
<1>1. Init => VL!LInit
  BY DEF Init, VL!LInit
<1>2. IInv /\ [Next]_vars => [VL!LNext]_table
  <2> SUFFICES ASSUME IInv, Next PROVE [VL!LNext]_table
    BY DEF vars
  <2>1. ASSUME NEW w \in Writer, WriteRow(w) PROVE VL!LNext
    <3>1. writer[w].curve \in Curve /\ writer[w].snapshot \in Snapshot
      BY <2>1, WriteAppends DEF Insert
    <3> QED
      BY <2>1, <3>1, WriteAppends DEF VL!LNext, VL!Record
  <2>2. CASE Listing
    BY <2>2, ListingTypes DEF IInv
  <2> QED
    BY <2>1, <2>2 DEF Next, Inserting, ReadVersion, InsertFails
<1> QED
  BY <1>1, <1>2, InvariantHolds, PTL DEF Spec, KeepsLog, VL!LSpec

-----------------------------------------------------------------------------
(* A page from an offset: the next rows down from it.                      *)
LEMMA PageIs ==
  ASSUME TypeOK, NEW c \in Curve, NEW o \in Nat, o <= Len(table[c])
  PROVE  /\ NextCursor(o, Page(c, o)) \in Nat
         /\ NextCursor(o, Page(c, o)) <= Len(table[c])
         /\ Len(table[c]) - NextCursor(o, Page(c, o)) + 1 .. Len(table[c]) - o \subseteq Page(c, o)
<1> DEFINE n == Len(table[c])
           lo == IF n - o - Limit + 1 >= 1 THEN n - o - Limit + 1 ELSE 1
<1>1. Versions(c) = 1 .. n /\ n \in Nat /\ Limit \in Nat /\ Limit > 0 /\ o <= n
  BY VersionsAre, LimitAssumption
<1> HIDE DEF n
<1>2. lo \in Nat /\ lo >= 1 /\ lo <= n - o + 1
  BY <1>1
<1>3. ASSUME NEW v \in 1 .. n
      PROVE  v \in Page(c, o) <=> v \in lo .. n - o
  <2>1. {u \in 1 .. n : u >= v} = v .. n
    BY <1>1
  <2>2. Cardinality(v .. n) = n - v + 1
    BY <1>1, FS_Interval
  <2>3. v \in Page(c, o) <=> n - v + 1 \in o + 1 .. o + Limit
    BY <1>1, <2>1, <2>2 DEF Page
  <2> QED
    BY <1>1, <2>3
<1>4. Page(c, o) = lo .. n - o
  <2>1. Page(c, o) \subseteq 1 .. n
    BY <1>1 DEF Page
  <2>2. lo .. n - o \subseteq 1 .. n
    BY <1>1, <1>2
  <2> HIDE DEF lo
  <2> QED
    BY <1>3, <2>1, <2>2
<1> HIDE DEF lo
<1>5. Cardinality(Page(c, o)) = n - o - lo + 1
  <2>1. Cardinality(lo .. n - o) = IF lo > n - o THEN 0 ELSE n - o - lo + 1
    BY <1>1, <1>2, FS_Interval
  <2> QED
    BY <1>1, <1>2, <1>4, <2>1
<1>6. NextCursor(o, Page(c, o)) = n - lo + 1
  BY <1>1, <1>2, <1>5 DEF NextCursor
<1>7. n - (n - lo + 1) + 1 = lo
  BY <1>1, <1>2
<1> QED
  BY <1>1, <1>2, <1>4, <1>6, <1>7 DEF n

(* The log of a curve never gets shorter.                                  *)
LEMMA LogGrows ==
  ASSUME IInv, [Next]_vars, NEW c \in Curve
  PROVE  Len(table[c]) \in Nat /\ Len(table'[c]) \in Nat /\ Len(table[c]) <= Len(table'[c])
<1>0. TypeOK /\ table[c] \in Seq(Snapshot) /\ Len(table[c]) \in Nat
  BY VersionsAre DEF IInv, TypeOK
<1>1. ASSUME NEW w \in Writer, WriteRow(w)
      PROVE  Len(table'[c]) \in Nat /\ Len(table[c]) <= Len(table'[c])
  <2> DEFINE d == writer[w].curve
             s == writer[w].snapshot
  <2>1. /\ d \in Curve /\ s \in Snapshot
        /\ table' = [table EXCEPT ![d] = Append(@, s)]
    BY <1>1, WriteAppends DEF Insert
  <2>2. CASE d = c
    <3>1. table'[c] = Append(table[c], s)
      BY <1>0, <2>1, <2>2 DEF TypeOK
    <3>2. Len(Append(table[c], s)) = Len(table[c]) + 1
      BY <1>0, <2>1
    <3> QED
      BY <1>0, <3>1, <3>2
  <2>3. CASE d # c
    BY <1>0, <2>1, <2>3 DEF TypeOK
  <2> QED
    BY <2>2, <2>3
<1>2. CASE table' = table
  BY <1>0, <1>2
<1>3. table' = table \/ \E w \in Writer : WriteRow(w)
  BY DEF Next, Inserting, Listing, ReadVersion, InsertFails, BeginWalk, CountRows, SelectPage,
         EndWalk, vars
<1> QED
  BY <1>0, <1>1, <1>2, <1>3

(* A reader that does not move: what is inserted pushes its rows down.     *)
LEMMA ReachesStill ==
  ASSUME IInv, [Next]_vars, NEW r \in Reader, reader'[r] = reader[r],
         reader[r] # Idle, ~ reader[r].torn, Reaches(reader[r])
  PROVE  Reaches(reader[r])'
<1>1. reader[r] \in Walk
  BY DEF IInv, TypeOK
<1> DEFINE q == reader[r]
           n == Len(table[q.curve])
           m == Len(table'[q.curve])
<1>2. q.curve \in Curve /\ q.offset \in Nat /\ q.since \in Nat
  BY <1>1 DEF Walk
<1>3. n \in Nat /\ m \in Nat /\ n <= m
  BY <1>2, LogGrows
<1>4. CASE q.at = "done"
  BY <1>4 DEF Reaches
<1>5. CASE q.at # "done"
  <2>1. q.offset <= n /\ q.since <= n /\ n - q.offset + 1 .. q.since \subseteq q.seen
    BY <1>5 DEF Reaches
  <2> HIDE DEF n, m
  <2>2. q.offset <= m /\ q.since <= m /\ m - q.offset + 1 .. q.since \subseteq n - q.offset + 1 .. q.since
    BY <1>2, <1>3, <2>1
  <2>3. q.offset <= m /\ q.since <= m /\ m - q.offset + 1 .. q.since \subseteq q.seen
    BY <2>1, <2>2
  <2> QED
    BY <1>5, <2>3 DEF Reaches, m
<1> QED
  BY <1>4, <1>5

LEMMA WalksStep ==
  ASSUME IInv, WalksReach, [Next]_vars
  PROVE  WalksReach'
<1> SUFFICES ASSUME NEW r \in Reader, reader'[r] # Idle, ~ reader'[r].torn
             PROVE  Reaches(reader[r])'
  BY DEF WalksReach, Reaches
<1>0. TypeOK
  BY DEF IInv
<1>1. CASE reader'[r] = reader[r]
  BY <1>1, ReachesStill DEF WalksReach
<1>2. ASSUME NEW c \in Curve, BeginWalk(r, c)
      PROVE  Reaches(reader[r])'
  <2>1. /\ reader'[r] = [at |-> "counting", curve |-> c, offset |-> 0, total |-> 0,
                         seen |-> {}, since |-> Rows(c), torn |-> FALSE]
        /\ table' = table
    BY <1>0, <1>2 DEF BeginWalk, TypeOK
  <2>2. Len(table[c]) \in Nat /\ Rows(c) = Len(table[c])
    <3>1. Versions(c) = 1 .. Len(table[c]) /\ Len(table[c]) \in Nat
      BY <1>0, VersionsAre
    <3> QED
      BY <3>1, FS_Interval DEF Rows
  <2>3. Len(table[c]) - 0 + 1 .. Len(table[c]) \subseteq {}
    BY <2>2
  <2> QED
    BY <2>1, <2>2, <2>3 DEF Reaches
<1>3. ASSUME reader[r] # Idle, reader[r] \in Walk, CountRows(r)
      PROVE  Reaches(reader[r])'
  <2>1. /\ reader[r].at = "counting" /\ reader'[r].at = "selecting" /\ table' = table
        /\ reader'[r].curve = reader[r].curve /\ reader'[r].offset = reader[r].offset
        /\ reader'[r].seen = reader[r].seen /\ reader'[r].since = reader[r].since
        /\ reader'[r].torn = reader[r].torn
    BY <1>0, <1>3 DEF CountRows, TypeOK, Walk
  <2> QED
    BY <1>3, <2>1 DEF WalksReach, Reaches
<1>4. ASSUME reader[r] # Idle, reader[r] \in Walk, SelectPage(r)
      PROVE  Reaches(reader[r])'
  <2> DEFINE q == reader[r]
             n == Len(table[q.curve])
             page == Page(q.curve, q.offset)
             next == NextCursor(q.offset, page)
  <2>1. /\ q.at = "selecting" /\ table' = table
        /\ reader'[r].at = IF next < q.total THEN "counting" ELSE "done"
        /\ reader'[r].curve = q.curve /\ reader'[r].offset = next
        /\ reader'[r].seen = q.seen \cup page /\ reader'[r].since = q.since
        /\ reader'[r].torn = (q.torn \/ Rows(q.curve) # q.total)
    BY <1>0, <1>4 DEF SelectPage, TypeOK, Walk
  <2>2. q.curve \in Curve /\ q.offset \in Nat /\ q.since \in Nat
    BY <1>4 DEF Walk
  <2>3. n \in Nat /\ Rows(q.curve) = n
    <3>1. Versions(q.curve) = 1 .. n /\ n \in Nat
      BY <1>0, <2>2, VersionsAre
    <3> QED
      BY <3>1, FS_Interval DEF Rows
  <2>4. ~ q.torn /\ q.total = n
    BY <2>1, <2>3
  <2>5. q.offset <= n /\ q.since <= n /\ n - q.offset + 1 .. q.since \subseteq q.seen
    BY <1>4, <2>1, <2>4 DEF WalksReach, Reaches
  <2>6. next \in Nat /\ next <= n /\ n - next + 1 .. n - q.offset \subseteq page
    BY <1>0, <2>2, <2>5, PageIs
  <2> HIDE DEF n, page, next
  <2>7. n - next + 1 .. q.since \subseteq q.seen \cup page
    <3> SUFFICES ASSUME NEW v \in n - next + 1 .. q.since PROVE v \in q.seen \cup page
      OBVIOUS
    <3>1. v \in n - next + 1 .. n - q.offset \/ v \in n - q.offset + 1 .. q.since
      BY <2>2, <2>3, <2>6
    <3> QED
      BY <2>5, <2>6, <3>1
  <2>8. CASE next < q.total
    BY <2>1, <2>5, <2>6, <2>7, <2>8 DEF Reaches, n
  <2>9. CASE ~ (next < q.total)
    <3>1. next = n
      BY <2>3, <2>4, <2>6, <2>9
    <3>2. 1 .. q.since \subseteq q.seen \cup page
      BY <2>3, <2>7, <3>1
    <3> QED
      BY <2>1, <2>9, <3>2 DEF Reaches
  <2> QED
    BY <2>8, <2>9
<1>5. reader'[r] = reader[r] \/ (\E c \in Curve : BeginWalk(r, c)) \/ CountRows(r) \/ SelectPage(r)
  <2>1. ASSUME NEW p \in Reader, p # r,
               (\E c \in Curve : BeginWalk(p, c)) \/ CountRows(p) \/ SelectPage(p) \/ EndWalk(p)
        PROVE  reader'[r] = reader[r]
    BY <1>0, <2>1 DEF TypeOK, BeginWalk, CountRows, SelectPage, EndWalk
  <2>2. ~ EndWalk(r)
    BY <1>0 DEF EndWalk, TypeOK
  <2>3. Inserting \/ UNCHANGED vars => reader' = reader
    BY DEF Inserting, ReadVersion, WriteRow, InsertFails, vars
  <2> QED
    BY <2>1, <2>2, <2>3 DEF Next, Listing
<1>6. CountRows(r) \/ SelectPage(r) => reader[r] # Idle /\ reader[r] \in Walk
  BY <1>0 DEF CountRows, SelectPage, TypeOK
<1> QED
  BY <1>1, <1>2, <1>3, <1>4, <1>5, <1>6

(* No snapshot that was there when a walk began is left out, whatever is    *)
(* inserted between its pages.                                             *)
THEOREM WalkSeesAllHolds == Spec => []WalkSeesAll
<1>1. Init => WalksReach
  BY DEF Init, WalksReach
<1>2. WalksReach => WalkSeesAll
  BY DEF WalksReach, WalkSeesAll, Reaches
<1>3. IInv /\ WalksReach /\ [Next]_vars => WalksReach'
  BY WalksStep
<1> QED
  BY <1>1, <1>2, <1>3, InvariantHolds, PTL DEF Spec

-----------------------------------------------------------------------------
(* Overrides                                                               *)

(* The instance has the cardinality of the library's theorems.             *)
LEMMA SameInOverrides ==
  ASSUME NEW S
  PROVE  Overrides!Cardinality(S) = Cardinality(S) /\ (Overrides!IsFiniteSet(S) <=> IsFiniteSet(S))
<1>1. Overrides!Cardinality(S) = Cardinality(S)
  BY Zenon DEF Overrides!Cardinality, Cardinality
<1>2. Overrides!IsFiniteSet(S) <=> IsFiniteSet(S)
  BY Zenon DEF Overrides!IsFiniteSet, IsFiniteSet
<1> QED
  BY <1>1, <1>2

(* SQL's comparison with its IS NULL is equality of the keys.              *)
LEMMA MatchesIsEqual ==
  ASSUME Overrides!OverrideConstants, NEW r \in [id : Nat, key : Overrides!Key, value : Value],
         NEW k \in Overrides!Key
  PROVE  Overrides!Matches(r, k) <=> r.key = k
<1>1. /\ r.key \in [place : Place, date : Date \cup {NULL}]
      /\ k \in [place : Place, date : Date \cup {NULL}]
  BY DEF Overrides!Key
<1>2. r.key = k <=> r.key.place = k.place /\ r.key.date = k.date
  BY <1>1
<1> QED
  BY <1>1, <1>2 DEF Overrides!Matches, Overrides!SqlEquals

(* An entry that is appended is there once more.                           *)
LEMMA OccurrencesAppended ==
  ASSUME NEW E, NEW s \in Seq(E), NEW e \in E, NEW x
  PROVE  /\ Overrides!Occurrences(s, x) \in Nat
         /\ Overrides!Occurrences(Append(s, e), x) =
              Overrides!Occurrences(s, x) + (IF x = e THEN 1 ELSE 0)
<1> DEFINE S == {i \in DOMAIN s : s[i] = x}
           T == {i \in DOMAIN Append(s, e) : Append(s, e)[i] = x}
           new == Len(s) + 1
<1>1. Overrides!Occurrences(s, x) = Cardinality(S) /\ Overrides!Occurrences(Append(s, e), x) = Cardinality(T)
  BY SameInOverrides DEF Overrides!Occurrences
<1>2. /\ DOMAIN s = 1 .. Len(s) /\ Len(s) \in Nat
      /\ DOMAIN Append(s, e) = 1 .. Len(s) + 1
      /\ Append(s, e)[Len(s) + 1] = e /\ \A i \in 1 .. Len(s) : Append(s, e)[i] = s[i]
  OBVIOUS
<1>3. IsFiniteSet(S) /\ new \notin S
  <2>1. IsFiniteSet(DOMAIN s)
    BY <1>2, FS_Interval
  <2> QED
    BY <1>2, <2>1, FS_Subset
<1>4. T = IF x = e THEN S \cup {new} ELSE S
  <2>1. DOMAIN Append(s, e) = DOMAIN s \cup {new}
    BY <1>2
  <2>2. \A i \in DOMAIN s : Append(s, e)[i] = s[i]
    BY <1>2
  <2> QED
    BY <1>2, <2>1, <2>2
<1>5. Cardinality(S) \in Nat
  BY <1>3, FS_CardinalityType
<1> HIDE DEF S, T, new
<1>6. x = e => Cardinality(T) = Cardinality(S) + 1
  BY <1>3, <1>4, FS_AddElement
<1> QED
  BY <1>1, <1>4, <1>5, <1>6

(* The connections that are about to write an entry.                       *)
PendingFor(x) == {c \in Overrides!Auditing : Overrides!EntryOf(call[c].request) = x}

LEMMA PendingIs ==
  ASSUME NEW x
  PROVE  /\ Overrides!Occurrences(Overrides!Pending, x) = Cardinality(PendingFor(x))
         /\ (Overrides!Occurrences(Overrides!Pending, x))' = Cardinality(PendingFor(x)')
<1>1. {i \in DOMAIN Overrides!Pending : Overrides!Pending[i] = x} = PendingFor(x)
  BY DEF Overrides!Pending, PendingFor
<1>2. {i \in DOMAIN Overrides!Pending' : Overrides!Pending'[i] = x} = PendingFor(x)'
  BY DEF Overrides!Pending, PendingFor, Overrides!EntryOf, Overrides!Upsert, Overrides!Removal
<1> QED
  BY <1>1, <1>2, SameInOverrides DEF Overrides!Occurrences

LEMMA RequestEntry ==
  ASSUME NEW q \in Overrides!Request
  PROVE  q.key \in Overrides!Key /\ Overrides!EntryOf(q) \in Overrides!Entry
BY DEF Overrides!Request, Overrides!Key, Overrides!EntryOf, Overrides!Entry, Overrides!Upsert,
       Overrides!Removal

Calls == {Overrides!Idle} \cup [at : {"auditing", "raised"}, request : Overrides!Request]

(* A call that has changed the map brings its entry among the pending ones *)
LEMMA PendingJoins ==
  ASSUME Overrides!IInv, NEW c \in Conn, c \notin Overrides!Auditing, NEW q \in Overrides!Request,
         call' = [call EXCEPT ![c] = [at |-> "auditing", request |-> q]], NEW x
  PROVE  /\ call' \in [Conn -> Calls] /\ Overrides!IsFiniteSet(Overrides!Auditing')
         /\ Cardinality(PendingFor(x)) \in Nat
         /\ Cardinality(PendingFor(x)') =
              Cardinality(PendingFor(x)) + (IF x = Overrides!EntryOf(q) THEN 1 ELSE 0)
<1> DEFINE new == [at |-> "auditing", request |-> q]
<1>1. new \in Calls /\ new.at = "auditing" /\ new.request = q /\ new # Overrides!Idle
  BY DEF Calls, Overrides!Idle
<1>2. call \in [Conn -> Calls] /\ IsFiniteSet(Overrides!Auditing)
  BY SameInOverrides DEF Overrides!IInv, Calls
<1> HIDE DEF new
<1>3. call' \in [Conn -> Calls] /\ call'[c] = new /\ \A d \in Conn \ {c} : call'[d] = call[d]
  BY <1>1, <1>2 DEF new
<1>4. Overrides!Auditing' = Overrides!Auditing \cup {c}
  BY <1>1, <1>3 DEF Overrides!Auditing, Overrides!Idle
<1>5. PendingFor(x)' = IF x = Overrides!EntryOf(q) THEN PendingFor(x) \cup {c} ELSE PendingFor(x)
  <2>1. c \in PendingFor(x)' <=> x = Overrides!EntryOf(q)
    BY <1>1, <1>3, <1>4
       DEF PendingFor, Overrides!EntryOf, Overrides!Upsert, Overrides!Removal
  <2>2. \A d \in Overrides!Auditing : d \in PendingFor(x)' <=> d \in PendingFor(x)
    <3>1. \A d \in Overrides!Auditing : d \in Conn /\ d # c
      BY DEF Overrides!Auditing
    <3> QED
      BY <1>3, <1>4, <3>1
         DEF PendingFor, Overrides!EntryOf, Overrides!Upsert, Overrides!Removal
  <2>3. PendingFor(x) \subseteq Overrides!Auditing /\ PendingFor(x)' \subseteq Overrides!Auditing \cup {c}
    BY <1>4 DEF PendingFor
  <2> QED
    BY <2>1, <2>2, <2>3
<1>6. IsFiniteSet(PendingFor(x)) /\ c \notin PendingFor(x)
  BY <1>2, FS_Subset DEF PendingFor
<1>7. Cardinality(PendingFor(x)) \in Nat
  BY <1>6, FS_CardinalityType
<1>8. IsFiniteSet(Overrides!Auditing')
  BY <1>2, <1>4, FS_AddElement
<1>9. x = Overrides!EntryOf(q) => Cardinality(PendingFor(x)') = Cardinality(PendingFor(x)) + 1
  BY <1>5, <1>6, FS_AddElement
<1> QED
  BY <1>3, <1>5, <1>7, <1>8, <1>9, SameInOverrides

(* ... and takes it away when it returns or raises.                        *)
LEMMA PendingLeaves ==
  ASSUME Overrides!IInv, NEW c \in Conn, NEW new \in Calls,
         new # Overrides!Idle => new.at # "auditing",
         call' = [call EXCEPT ![c] = new], NEW x
  PROVE  /\ call' \in [Conn -> Calls] /\ Overrides!IsFiniteSet(Overrides!Auditing')
         /\ Cardinality(PendingFor(x)) \in Nat
         /\ Cardinality(PendingFor(x)') =
              Cardinality(PendingFor(x)) - (IF c \in PendingFor(x) THEN 1 ELSE 0)
<1>2. call \in [Conn -> Calls] /\ IsFiniteSet(Overrides!Auditing)
  BY SameInOverrides DEF Overrides!IInv, Calls
<1>3. call' \in [Conn -> Calls] /\ call'[c] = new /\ \A d \in Conn \ {c} : call'[d] = call[d]
  BY <1>2
<1>4. Overrides!Auditing' = Overrides!Auditing \ {c}
  BY <1>3 DEF Overrides!Auditing, Overrides!Idle
<1>5. PendingFor(x)' = PendingFor(x) \ {c}
  <2>1. \A d \in Overrides!Auditing \ {c} : d \in PendingFor(x)' <=> d \in PendingFor(x)
    <3>1. \A d \in Overrides!Auditing : d \in Conn
      BY DEF Overrides!Auditing
    <3> QED
      BY <1>3, <1>4, <3>1
         DEF PendingFor, Overrides!EntryOf, Overrides!Upsert, Overrides!Removal
  <2>2. PendingFor(x) \subseteq Overrides!Auditing /\ PendingFor(x)' \subseteq Overrides!Auditing \ {c}
    BY <1>4 DEF PendingFor
  <2> QED
    BY <2>1, <2>2
<1>6. IsFiniteSet(PendingFor(x))
  BY <1>2, FS_Subset DEF PendingFor
<1>7. Cardinality(PendingFor(x)) \in Nat
  BY <1>6, FS_CardinalityType
<1>8. IsFiniteSet(Overrides!Auditing')
  BY <1>2, <1>4, FS_Difference
<1>9. Cardinality(PendingFor(x) \ {c}) =
        IF c \in PendingFor(x) THEN Cardinality(PendingFor(x)) - 1 ELSE Cardinality(PendingFor(x))
  BY <1>6, FS_RemoveElement
<1> QED
  BY <1>3, <1>5, <1>7, <1>8, <1>9, SameInOverrides

-----------------------------------------------------------------------------
Values == {[key |-> r.key, value |-> r.value] : r \in overrides}

Log ==
  [e \in Overrides!Entry |->
     Overrides!Occurrences(audit, e) + Overrides!Occurrences(Overrides!Pending, e)
       + Overrides!Occurrences(refused, e)]

LEMMA SameEntries == Overrides!AM!Entry = Overrides!Entry
BY DEF Overrides!AM!Entry, Overrides!AM!Upsert, Overrides!AM!Removal, Overrides!Entry,
       Overrides!Upsert, Overrides!Removal

(* The rows without those of a key.                                        *)
LEMMA WithoutKey ==
  ASSUME Overrides!OverrideConstants, Overrides!IInv, NEW k \in Overrides!Key
  PROVE  /\ {[key |-> r.key, value |-> r.value] : r \in overrides \ Overrides!Matching(k)}
               = {b \in Values : b.key # k}
         /\ Overrides!Matching(k) = {} <=> \A b \in Values : b.key # k
         /\ IsFiniteSet(Overrides!Matching(k)) /\ IsFiniteSet(overrides \ Overrides!Matching(k))
<1>1. Overrides!Matching(k) = {r \in overrides : r.key = k}
  <2>1. \A r \in overrides : r \in [id : Nat, key : Overrides!Key, value : Value]
    BY DEF Overrides!IInv
  <2> QED
    BY <2>1, MatchesIsEqual DEF Overrides!Matching
<1>2. IsFiniteSet(overrides)
  BY SameInOverrides DEF Overrides!IInv
<1>3. IsFiniteSet(Overrides!Matching(k)) /\ IsFiniteSet(overrides \ Overrides!Matching(k))
  BY <1>1, <1>2, FS_Subset, FS_Difference
<1> DEFINE b(r) == [key |-> r.key, value |-> r.value]
<1>4. \A r : b(r).key = r.key
  OBVIOUS
<1>5. overrides \ Overrides!Matching(k) = {r \in overrides : r.key # k}
  BY <1>1
<1>6. Values = {b(r) : r \in overrides}
  BY DEF Values
<1> HIDE DEF b
<1>7. {b(r) : r \in overrides \ Overrides!Matching(k)} = {v \in Values : v.key # k}
  BY <1>4, <1>5, <1>6
<1>8. Overrides!Matching(k) = {} <=> \A v \in Values : v.key # k
  BY <1>1, <1>4, <1>6
<1> QED
  BY <1>3, <1>7, <1>8 DEF b

LEMMA OverridesInit ==
  ASSUME Overrides!Init
  PROVE  Overrides!IInv /\ Overrides!AM!MInit
<1>1. /\ overrides = {} /\ next_id = 1 /\ audit = <<>> /\ refused = <<>>
      /\ call = [c \in Conn |-> Overrides!Idle]
  BY DEF Overrides!Init
<1>2. Overrides!Auditing = {}
  BY <1>1 DEF Overrides!Auditing
<1>3. IsFiniteSet({}) /\ Cardinality({}) = 0
  BY FS_EmptySet
<1>4. Overrides!IInv
  BY <1>1, <1>2, <1>3, SameInOverrides DEF Overrides!IInv
<1>5. ASSUME NEW e
      PROVE  /\ Overrides!Occurrences(<<>>, e) = 0
             /\ Overrides!Occurrences(Overrides!Pending, e) = 0
  <2>1. {i \in DOMAIN <<>> : <<>>[i] = e} = {}
    OBVIOUS
  <2>2. Overrides!Occurrences(<<>>, e) = 0
    BY <1>3, <2>1, SameInOverrides DEF Overrides!Occurrences
  <2>3. PendingFor(e) = {}
    BY <1>2 DEF PendingFor
  <2> QED
    BY <1>3, <2>2, <2>3, PendingIs
<1>6. Log = [e \in Overrides!Entry |-> 0]
  BY <1>1, <1>5 DEF Log
<1>7. Values = {}
  BY <1>1 DEF Values
<1> QED
  BY <1>4, <1>6, <1>7, SameEntries DEF Overrides!AM!MInit, Log, Values


(* How often an entry was written, is about to be, or was refused.         *)
LEMMA LogCounts ==
  ASSUME Overrides!IInv, NEW x \in Overrides!Entry
  PROVE  /\ Overrides!Occurrences(audit, x) \in Nat /\ Overrides!Occurrences(refused, x) \in Nat
         /\ Cardinality(PendingFor(x)) \in Nat
         /\ Log[x] = Overrides!Occurrences(audit, x) + Cardinality(PendingFor(x))
                       + Overrides!Occurrences(refused, x)
<1>1. Overrides!Occurrences(audit, x) \in Nat /\ Overrides!Occurrences(refused, x) \in Nat
  BY OccurrencesAppended DEF Overrides!IInv
<1>2. PendingFor(x) \subseteq Overrides!Auditing /\ IsFiniteSet(Overrides!Auditing)
  BY SameInOverrides DEF Overrides!IInv, PendingFor
<1>3. Cardinality(PendingFor(x)) \in Nat
  BY <1>2, FS_Subset, FS_CardinalityType
<1> QED
  BY <1>1, <1>3, PendingIs DEF Log

LEMMA OverridesTyped ==
  ASSUME overrides' \subseteq [id : Nat, key : Overrides!Key, value : Value],
         IsFiniteSet(overrides'), next_id' \in Nat,
         audit' \in Seq(Overrides!Entry), refused' \in Seq(Overrides!Entry),
         call' \in [Conn -> Calls], Overrides!IsFiniteSet(Overrides!Auditing')
  PROVE  Overrides!IInv'
BY SameInOverrides
   DEF Overrides!IInv, Calls, Overrides!Idle, Overrides!Request, Overrides!Key, Overrides!Entry,
       Overrides!Upsert, Overrides!Removal

(* The first transaction of a save or a delete.                            *)
LEMMA RunStep ==
  ASSUME Overrides!OverrideConstants, Overrides!IInv, NEW c \in Conn, c \notin Overrides!Auditing,
         NEW q \in Overrides!Request, Overrides!Run(c, q)
  PROVE  Overrides!IInv' /\ (Overrides!AM!MNext \/ UNCHANGED <<Values, Log>>)
<1> DEFINE k == q.key
           e == Overrides!EntryOf(q)
<1>1. k \in Overrides!Key /\ e \in Overrides!Entry
  BY RequestEntry
<1>2. /\ overrides \subseteq [id : Nat, key : Overrides!Key, value : Value]
      /\ next_id \in Nat /\ IsFiniteSet(overrides)
      /\ audit \in Seq(Overrides!Entry) /\ refused \in Seq(Overrides!Entry)
  BY SameInOverrides DEF Overrides!IInv
<1>3. UNCHANGED <<audit, refused>>
  BY DEF Overrides!Run, Overrides!SaveOverride, Overrides!DeleteOverride
<1>4. ASSUME call' = [call EXCEPT ![c] = [at |-> "auditing", request |-> q]]
      PROVE  /\ call' \in [Conn -> Calls] /\ Overrides!IsFiniteSet(Overrides!Auditing')
             /\ Log' = [Log EXCEPT ![e] = @ + 1]
  <2>1. call' \in [Conn -> Calls] /\ Overrides!IsFiniteSet(Overrides!Auditing')
    BY <1>4, PendingJoins
  <2>2. ASSUME NEW x \in Overrides!Entry
        PROVE  Log'[x] = IF x = e THEN Log[x] + 1 ELSE Log[x]
    <3>1. Log'[x] = Overrides!Occurrences(audit, x) + Cardinality(PendingFor(x)')
                       + Overrides!Occurrences(refused, x)
      <4>1. Log'[x] = Overrides!Occurrences(audit, x) + (Overrides!Occurrences(Overrides!Pending, x))'
                       + Overrides!Occurrences(refused, x)
        BY <1>3 DEF Log, Overrides!Entry, Overrides!Upsert, Overrides!Removal,
                    Overrides!Occurrences
      <4> QED
        BY <4>1, PendingIs
    <3>2. Cardinality(PendingFor(x)') = Cardinality(PendingFor(x)) + (IF x = e THEN 1 ELSE 0)
      BY <1>4, PendingJoins
    <3> HIDE DEF e
    <3> QED
      BY <3>1, <3>2, LogCounts
  <2> HIDE DEF e
  <2> QED
    BY <2>1, <2>2 DEF Log
<1>5. CASE q.action = "save"
  <2> DEFINE new == [id |-> next_id, key |-> k, value |-> q.value]
  <2>1. q.value \in Value /\ e = Overrides!Upsert(k.place, q.value)
    BY <1>5 DEF Overrides!Request, Overrides!EntryOf
  <2>2. /\ overrides' = (overrides \ Overrides!Matching(k)) \cup {new}
        /\ next_id' = next_id + 1
        /\ call' = [call EXCEPT ![c] = [at |-> "auditing", request |-> q]]
    BY <1>5 DEF Overrides!Run, Overrides!SaveOverride, Overrides!DeleteOverride
  <2>3. new \in [id : Nat, key : Overrides!Key, value : Value]
    BY <1>1, <1>2, <2>1
  <2>4. overrides' \subseteq [id : Nat, key : Overrides!Key, value : Value] /\ IsFiniteSet(overrides')
    <3>1. IsFiniteSet(overrides \ Overrides!Matching(k))
      BY <1>1, WithoutKey
    <3> QED
      BY <1>2, <2>2, <2>3, <3>1, FS_AddElement
  <2>5. Overrides!IInv'
    BY <1>2, <1>3, <1>4, <2>2, <2>4, OverridesTyped
  <2>6. Values' = {b \in Values : b.key # k} \cup {[key |-> k, value |-> q.value]}
    <3> DEFINE b(r) == [key |-> r.key, value |-> r.value]
    <3>1. Values' = {b(r) : r \in overrides'} /\ b(new) = [key |-> k, value |-> q.value]
      BY DEF Values
    <3>2. {b(r) : r \in overrides \ Overrides!Matching(k)} = {v \in Values : v.key # k}
      BY <1>1, WithoutKey
    <3> HIDE DEF b, new
    <3>3. Values' = {b(r) : r \in overrides \ Overrides!Matching(k)} \cup {b(new)}
      BY <2>2, <3>1
    <3> QED
      BY <3>1, <3>2, <3>3
  <2>7. Overrides!AM!Save(k, q.value)
    BY <1>4, <2>1, <2>2, <2>6, SameEntries
       DEF Overrides!AM!Save, Overrides!AM!Logged, Overrides!AM!Upsert, Overrides!Upsert, Log, Values
  <2> QED
    BY <1>1, <2>1, <2>5, <2>7 DEF Overrides!AM!MNext
<1>6. CASE q.action = "delete"
  <2>1. e = Overrides!Removal(k.place)
    BY <1>6 DEF Overrides!EntryOf
  <2>2. /\ overrides' = overrides \ Overrides!Matching(k)
        /\ next_id' = next_id
        /\ call' = [call EXCEPT ![c] =
                      IF Cardinality(Overrides!Matching(k)) > 0
                      THEN [at |-> "auditing", request |-> q] ELSE Overrides!Idle]
    BY <1>6, SameInOverrides
       DEF Overrides!Run, Overrides!SaveOverride, Overrides!DeleteOverride, Overrides!Deleted
  <2>3. overrides' \subseteq [id : Nat, key : Overrides!Key, value : Value] /\ IsFiniteSet(overrides')
    BY <1>1, <1>2, <2>2, WithoutKey
  <2>4. Values' = {b \in Values : b.key # k}
    <3>1. Values' = {[key |-> r.key, value |-> r.value] : r \in overrides \ Overrides!Matching(k)}
      BY <2>2 DEF Values
    <3> QED
      BY <1>1, <3>1, WithoutKey
  <2>5. /\ Cardinality(Overrides!Matching(k)) \in Nat
        /\ Cardinality(Overrides!Matching(k)) = 0 <=> Overrides!Matching(k) = {}
    BY <1>1, WithoutKey, FS_EmptySet, FS_CardinalityType
  <2>8. Cardinality(Overrides!Matching(k)) > 0 <=> Overrides!Matching(k) # {}
    BY <2>5
  <2>6. CASE Overrides!Matching(k) # {}
    <3>1. call' = [call EXCEPT ![c] = [at |-> "auditing", request |-> q]]
      BY ONLY <2>2, <2>8, <2>6
    <3>2. Overrides!IInv'
      BY <1>2, <1>3, <1>4, <2>2, <2>3, <3>1, OverridesTyped
    <3>3. \E b \in Values : b.key = k
      BY <1>1, <2>6, WithoutKey
    <3>4. Overrides!AM!Delete(k)
      BY <1>4, <2>1, <2>4, <3>1, <3>3, SameEntries
         DEF Overrides!AM!Delete, Overrides!AM!Logged, Overrides!AM!Removal, Overrides!Removal,
             Log, Values
    <3> QED
      BY <1>1, <3>2, <3>4 DEF Overrides!AM!MNext
  <2>7. CASE Overrides!Matching(k) = {}
    <3>0. Overrides!Idle \in Calls
      BY DEF Calls
    <3>1. call' = [call EXCEPT ![c] = Overrides!Idle]
      BY ONLY <2>2, <2>8, <2>7
    <3>2. ASSUME NEW x
          PROVE  /\ call' \in [Conn -> Calls] /\ Overrides!IsFiniteSet(Overrides!Auditing')
                 /\ Cardinality(PendingFor(x)') = Cardinality(PendingFor(x))
      <4>1. c \notin PendingFor(x)
        BY DEF PendingFor
      <4>2. /\ call' \in [Conn -> Calls] /\ Overrides!IsFiniteSet(Overrides!Auditing')
            /\ Cardinality(PendingFor(x)) \in Nat
            /\ Cardinality(PendingFor(x)') =
                 Cardinality(PendingFor(x)) - (IF c \in PendingFor(x) THEN 1 ELSE 0)
        BY ONLY Overrides!IInv, c \in Conn, <3>0, <3>1, PendingLeaves
      <4> QED
        BY <4>1, <4>2
    <3>3. Overrides!IInv'
      BY <1>2, <1>3, <2>2, <2>3, <3>2, OverridesTyped
    <3>4. \A x : (Overrides!Occurrences(Overrides!Pending, x))' = Overrides!Occurrences(Overrides!Pending, x)
      BY <3>2, PendingIs
    <3>5. Log' = Log
      <4>1. Log' = [x \in Overrides!Entry |->
                      Overrides!Occurrences(audit, x) + (Overrides!Occurrences(Overrides!Pending, x))'
                        + Overrides!Occurrences(refused, x)]
        BY <1>3 DEF Log, Overrides!Entry, Overrides!Upsert, Overrides!Removal,
                    Overrides!Occurrences
      <4> QED
        BY <3>4, <4>1 DEF Log
    <3>6. Values' = Values
      BY <1>1, <2>4, <2>7, WithoutKey
    <3> QED
      BY <3>3, <3>5, <3>6
  <2> QED
    BY <2>6, <2>7
<1>7. q.action = "save" \/ q.action = "delete"
  BY DEF Overrides!Request
<1> QED
  BY <1>5, <1>6, <1>7

(* The second transaction: the entry moves from the pending ones to the    *)
(* audit log, or to the refused.                                           *)
LEMMA AuditStep ==
  ASSUME Overrides!OverrideConstants, Overrides!IInv, NEW c \in Conn,
         Overrides!AppendAuditEntry(c) \/ Overrides!AuditRaises(c)
  PROVE  Overrides!IInv' /\ UNCHANGED <<Values, Log>>
<1> DEFINE q == call[c].request
           e == Overrides!EntryOf(q)
           new == IF Overrides!AppendAuditEntry(c) THEN Overrides!Idle
                  ELSE [at |-> "raised", request |-> q]
<1>1. /\ call \in [Conn -> Calls] /\ c \in Overrides!Auditing
      /\ overrides \subseteq [id : Nat, key : Overrides!Key, value : Value]
      /\ next_id \in Nat /\ IsFiniteSet(overrides)
      /\ audit \in Seq(Overrides!Entry) /\ refused \in Seq(Overrides!Entry)
  BY SameInOverrides DEF Overrides!IInv, Calls, Overrides!AppendAuditEntry, Overrides!AuditRaises,
       Overrides!Auditing
<1>2. q \in Overrides!Request /\ e \in Overrides!Entry /\ call[c] = [at |-> "auditing", request |-> q]
  <2>1. call[c] \in [at : {"auditing", "raised"}, request : Overrides!Request] /\ call[c].at = "auditing"
    BY <1>1 DEF Overrides!Auditing, Calls
  <2> QED
    BY <2>1, RequestEntry
<1>3. /\ call' = [call EXCEPT ![c] = new] /\ UNCHANGED <<overrides, next_id>>
      /\ \/ audit' = Append(audit, e) /\ refused' = refused
         \/ refused' = Append(refused, e) /\ audit' = audit
  <2>1. CASE Overrides!AppendAuditEntry(c)
    BY <2>1 DEF Overrides!AppendAuditEntry
  <2>2. CASE ~ Overrides!AppendAuditEntry(c)
    <3>1. [call[c] EXCEPT !.at = "raised"] = [at |-> "raised", request |-> q]
      BY <1>2
    <3>2. call' = [call EXCEPT ![c] = [call[c] EXCEPT !.at = "raised"]]
      BY <1>1, <2>2 DEF Overrides!AuditRaises
    <3> QED
      BY <2>2, <3>1, <3>2 DEF Overrides!AuditRaises
  <2> QED
    BY <2>1, <2>2
<1>4. new \in Calls /\ (new # Overrides!Idle => new.at # "auditing")
  BY <1>2 DEF Calls
<1> HIDE DEF new, e, q
<1>5. ASSUME NEW x
      PROVE  /\ call' \in [Conn -> Calls] /\ Overrides!IsFiniteSet(Overrides!Auditing')
             /\ Cardinality(PendingFor(x)') = Cardinality(PendingFor(x)) - (IF x = e THEN 1 ELSE 0)
  <2>1. c \in PendingFor(x) <=> x = e
    BY <1>1 DEF PendingFor, e, q
  <2>2. /\ call' \in [Conn -> Calls] /\ Overrides!IsFiniteSet(Overrides!Auditing')
        /\ Cardinality(PendingFor(x)) \in Nat
        /\ Cardinality(PendingFor(x)') =
             Cardinality(PendingFor(x)) - (IF c \in PendingFor(x) THEN 1 ELSE 0)
    BY ONLY Overrides!IInv, c \in Conn, <1>3, <1>4, PendingLeaves
  <2> QED
    BY <2>1, <2>2
<1>6. audit' \in Seq(Overrides!Entry) /\ refused' \in Seq(Overrides!Entry)
  <2>1. Append(audit, e) \in Seq(Overrides!Entry) /\ Append(refused, e) \in Seq(Overrides!Entry)
    BY <1>1, <1>2
  <2> QED
    BY <1>1, <1>3, <2>1
<1>7. Overrides!IInv'
  BY <1>1, <1>3, <1>5, <1>6, OverridesTyped
<1>8. ASSUME NEW x \in Overrides!Entry
      PROVE  Overrides!Occurrences(audit', x) + Cardinality(PendingFor(x)')
               + Overrides!Occurrences(refused', x) = Log[x]
  <2>1. Cardinality(PendingFor(x)') = Cardinality(PendingFor(x)) - (IF x = e THEN 1 ELSE 0)
    BY <1>5
  <2>2. /\ Overrides!Occurrences(audit, x) \in Nat /\ Overrides!Occurrences(refused, x) \in Nat
        /\ Cardinality(PendingFor(x)) \in Nat
        /\ Log[x] = Overrides!Occurrences(audit, x) + Cardinality(PendingFor(x))
                      + Overrides!Occurrences(refused, x)
    BY LogCounts
  <2>3. CASE audit' = Append(audit, e) /\ refused' = refused
    <3>1. Overrides!Occurrences(audit', x) = Overrides!Occurrences(audit, x) + (IF x = e THEN 1 ELSE 0)
      BY <1>1, <1>2, <2>3, OccurrencesAppended
    <3>2. Overrides!Occurrences(refused', x) = Overrides!Occurrences(refused, x)
      BY <2>3
    <3> QED
      BY <2>1, <2>2, <3>1, <3>2
  <2>4. CASE refused' = Append(refused, e) /\ audit' = audit
    <3>1. Overrides!Occurrences(refused', x) = Overrides!Occurrences(refused, x) + (IF x = e THEN 1 ELSE 0)
      BY <1>1, <1>2, <2>4, OccurrencesAppended
    <3>2. Overrides!Occurrences(audit', x) = Overrides!Occurrences(audit, x)
      BY <2>4
    <3> QED
      BY <2>1, <2>2, <3>1, <3>2
  <2> QED
    BY <1>3, <2>3, <2>4
<1>9. Log' = Log
  <2>1. Log' = [x \in Overrides!Entry |->
                  Overrides!Occurrences(audit', x) + (Overrides!Occurrences(Overrides!Pending, x))'
                    + Overrides!Occurrences(refused', x)]
    BY DEF Log, Overrides!Entry, Overrides!Upsert, Overrides!Removal, Overrides!Occurrences
  <2>2. \A x \in Overrides!Entry : (Overrides!Occurrences(Overrides!Pending, x))' = Cardinality(PendingFor(x)')
    BY PendingIs
  <2>3. Log = [x \in Overrides!Entry |-> Log[x]]
    BY DEF Log
  <2> QED
    BY <1>8, <2>1, <2>2, <2>3
<1>10. Values' = Values
  BY <1>3 DEF Values
<1> QED
  BY <1>7, <1>9, <1>10

LEMMA OverridesStep ==
  ASSUME Overrides!OverrideConstants, Overrides!IInv, [Overrides!Next]_(Overrides!vars)
  PROVE  Overrides!IInv' /\ (Overrides!AM!MNext \/ UNCHANGED <<Values, Log>>)
<1>1. ASSUME NEW c \in Conn, Overrides!Call(c) \/ Overrides!Retry(c)
      PROVE  \E q \in Overrides!Request : c \notin Overrides!Auditing /\ Overrides!Run(c, q)
  <2>1. call[c] \in Calls
    BY DEF Overrides!IInv, Calls
  <2>2. CASE Overrides!Call(c)
    BY <2>2 DEF Overrides!Call, Overrides!Auditing
  <2>3. CASE Overrides!Retry(c)
    <3>1. call[c].request \in Overrides!Request
      BY <2>1, <2>3 DEF Overrides!Retry, Calls
    <3> QED
      BY <2>3, <3>1 DEF Overrides!Retry, Overrides!Auditing
  <2> QED
    BY <1>1, <2>2, <2>3
<1>2. CASE \E c \in Conn : Overrides!Call(c) \/ Overrides!Retry(c)
  BY <1>1, <1>2, RunStep
<1>3. CASE \E c \in Conn : Overrides!AppendAuditEntry(c) \/ Overrides!AuditRaises(c)
  BY <1>3, AuditStep
<1>4. CASE UNCHANGED Overrides!vars
  <2>1. UNCHANGED <<overrides, next_id, audit, call, refused>>
    BY <1>4 DEF Overrides!vars
  <2>2. Overrides!IInv' /\ Values' = Values
    BY <2>1 DEF Overrides!IInv, Values, Overrides!Auditing
  <2>3. Log' = Log
    BY <2>1 DEF Log, Overrides!Pending, Overrides!Auditing
  <2> QED
    BY <2>2, <2>3
<1> QED
  BY <1>2, <1>3, <1>4 DEF Overrides!Next

-----------------------------------------------------------------------------
(* Records in pages                                                        *)

LEMMA SameInRecords ==
  ASSUME NEW S
  PROVE  Records!Cardinality(S) = Cardinality(S) /\ (Records!IsFiniteSet(S) <=> IsFiniteSet(S))
<1>1. Records!Cardinality(S) = Cardinality(S)
  BY Zenon DEF Records!Cardinality, Cardinality
<1>2. Records!IsFiniteSet(S) <=> IsFiniteSet(S)
  BY Zenon DEF Records!IsFiniteSet, IsFiniteSet
<1> QED
  BY <1>1, <1>2

(* Keys are ordered.                                                       *)
LEMMA KeyOrder ==
  ASSUME Records!PageConstants, NEW i \in Records!Key, NEW j \in Records!Key, NEW k \in Records!Key
  PROVE  /\ ~ Records!Before(k, k)
         /\ j # k => Records!Before(j, k) \/ Records!Before(k, j)
         /\ Records!Before(i, j) /\ Records!Before(j, k) => Records!Before(i, k)
<1>1. ASSUME NEW x \in Records!Key
      PROVE  x[1] \in Nat /\ x[2] \in Nat /\ x = <<x[1], x[2]>>
  <2>1. PICK a \in Id, b \in AsOf : x = <<a, b>>
    BY DEF Records!Key
  <2>2. a \in Nat /\ b \in Nat
    BY DEF Records!PageConstants
  <2> QED
    BY <2>1, <2>2
<1>2. ~ Records!Before(k, k)
  BY <1>1 DEF Records!Before
<1>3. j # k => Records!Before(j, k) \/ Records!Before(k, j)
  <2>1. j = <<j[1], j[2]>> /\ k = <<k[1], k[2]>>
    BY <1>1
  <2>2. j # k => j[1] # k[1] \/ j[2] # k[2]
    BY <2>1
  <2> QED
    BY <1>1, <2>2 DEF Records!Before
<1>4. Records!Before(i, j) /\ Records!Before(j, k) => Records!Before(i, k)
  BY <1>1 DEF Records!Before
<1> QED
  BY <1>2, <1>3, <1>4

(* The rows before a key, as the library counts them.                      *)
LEMMA RankIs ==
  ASSUME NEW L, IsFiniteSet(L), NEW k
  PROVE  /\ Records!Rank(L, k) = Cardinality({j \in L : Records!Before(j, k)})
         /\ IsFiniteSet({j \in L : Records!Before(j, k)})
         /\ Records!Rank(L, k) \in Nat
<1> DEFINE B == {j \in L : Records!Before(j, k)}
<1>1. Records!Rank(L, k) = Cardinality(B)
  BY SameInRecords DEF Records!Rank
<1>2. IsFiniteSet(B)
  BY FS_Subset
<1> QED
  BY <1>1, <1>2, FS_CardinalityType

LEMMA RankOrder ==
  ASSUME Records!PageConstants, NEW L \in SUBSET Records!Key, IsFiniteSet(L),
         NEW j \in L, NEW k \in L, Records!Before(j, k)
  PROVE  Records!Rank(L, j) < Records!Rank(L, k)
<1> DEFINE A == {x \in L : Records!Before(x, j)}
           B == {x \in L : Records!Before(x, k)}
<1>1. j \notin A /\ A \cup {j} \subseteq B
  BY KeyOrder
<1>2. Records!Rank(L, j) = Cardinality(A) /\ Records!Rank(L, k) = Cardinality(B)
  BY RankIs
<1>3. IsFiniteSet(A) /\ IsFiniteSet(B)
  BY RankIs
<1>4. Cardinality(A) \in Nat /\ Cardinality(B) \in Nat
  BY <1>3, FS_CardinalityType
<1> HIDE DEF A, B
<1>5. Cardinality(A \cup {j}) = Cardinality(A) + 1
  BY <1>1, <1>3, FS_AddElement
<1>6. Cardinality(A \cup {j}) <= Cardinality(B)
  BY <1>1, <1>3, FS_Subset
<1> QED
  BY <1>2, <1>4, <1>5, <1>6

LEMMA RankInjective ==
  ASSUME Records!PageConstants, NEW L \in SUBSET Records!Key, IsFiniteSet(L),
         NEW j \in L, NEW k \in L, j # k
  PROVE  Records!Rank(L, j) # Records!Rank(L, k)
<1>1. Records!Before(j, k) \/ Records!Before(k, j)
  BY KeyOrder
<1>2. Records!Rank(L, j) \in Nat /\ Records!Rank(L, k) \in Nat
  BY RankIs
<1> QED
  BY <1>1, <1>2, RankOrder

(* No more rows than there are come before one.                            *)
LEMMA RankBelow ==
  ASSUME Records!PageConstants, NEW L \in SUBSET Records!Key, IsFiniteSet(L), NEW k \in L
  PROVE  Records!Rank(L, k) < Cardinality(L)
<1> DEFINE B == {x \in L : Records!Before(x, k)}
<1>1. k \notin B /\ B \cup {k} \subseteq L
  BY KeyOrder
<1>2. Records!Rank(L, k) = Cardinality(B) /\ IsFiniteSet(B)
  BY RankIs
<1>3. Cardinality(B) \in Nat /\ Cardinality(L) \in Nat
  BY <1>2, FS_CardinalityType
<1> HIDE DEF B
<1>4. Cardinality(B \cup {k}) = Cardinality(B) + 1
  BY <1>1, <1>2, FS_AddElement
<1>5. Cardinality(B \cup {k}) <= Cardinality(L)
  BY <1>1, FS_Subset
<1> QED
  BY <1>2, <1>3, <1>4, <1>5

(* No more rows have their rank between two numbers than there are numbers.*)
LEMMA RankedBetween ==
  ASSUME Records!PageConstants, NEW L \in SUBSET Records!Key, IsFiniteSet(L),
         NEW a \in Int, NEW b \in Int, a <= b + 1
  PROVE  Cardinality({k \in L : Records!Rank(L, k) \in a .. b}) <= b - a + 1
<1> DEFINE S == {k \in L : Records!Rank(L, k) \in a .. b}
           f == [k \in S |-> Records!Rank(L, k)]
<1>1. f \in [S -> a .. b]
  OBVIOUS
<1>2. \A j, k \in S : j # k => f[j] # f[k]
  BY RankInjective
<1>3. f \in Injection(S, a .. b)
  BY <1>1, <1>2 DEF Injection, IsInjective
<1>4. IsFiniteSet(a .. b) /\ Cardinality(a .. b) = b - a + 1
  BY FS_Interval
<1> HIDE DEF f, S
<1>5. Cardinality(S) <= Cardinality(a .. b)
  BY <1>3, <1>4, FS_Injection
<1> QED
  BY <1>4, <1>5 DEF S

(* When rows are replaced by others, a row goes up by no more than the     *)
(* rows that went.                                                         *)
LEMMA RankShift ==
  ASSUME NEW L, IsFiniteSet(L), NEW M, IsFiniteSet(M), NEW k
  PROVE  Records!Rank(L, k) <= Records!Rank(M, k) + Cardinality(L \ M)
<1> DEFINE A == {j \in L : Records!Before(j, k)}
           B == {j \in M : Records!Before(j, k)}
<1>1. Records!Rank(L, k) = Cardinality(A) /\ Records!Rank(M, k) = Cardinality(B)
  BY RankIs
<1>2. IsFiniteSet(A) /\ IsFiniteSet(B) /\ IsFiniteSet(L \ M)
  BY RankIs, FS_Difference
<1>3. A \subseteq B \cup (L \ M)
  OBVIOUS
<1> HIDE DEF A, B
<1>4. /\ IsFiniteSet(B \cup (L \ M))
      /\ Cardinality(B \cup (L \ M)) = Cardinality(B) + Cardinality(L \ M) - Cardinality(B \cap (L \ M))
  BY <1>2, FS_Union
<1>5. Cardinality(A) <= Cardinality(B \cup (L \ M))
  BY <1>3, <1>4, FS_Subset
<1>6. IsFiniteSet(B \cap (L \ M))
  BY <1>2, FS_Intersection
<1>7. /\ Cardinality(A) \in Nat /\ Cardinality(B) \in Nat /\ Cardinality(L \ M) \in Nat
      /\ Cardinality(B \cap (L \ M)) \in Nat
  BY <1>2, <1>6, FS_CardinalityType
<1> QED
  BY <1>1, <1>4, <1>5, <1>7

(* No more rows come to be before an offset than went.                     *)
LEMMA MovedUp ==
  ASSUME Records!PageConstants, NEW L \in SUBSET Records!Key, IsFiniteSet(L),
         NEW M \in SUBSET Records!Key, IsFiniteSet(M), NEW n \in Nat
  PROVE  /\ IsFiniteSet({k \in L \cap M : Records!Rank(M, k) < n /\ ~ (Records!Rank(L, k) < n)})
         /\ Cardinality({k \in L \cap M : Records!Rank(M, k) < n /\ ~ (Records!Rank(L, k) < n)})
              <= Cardinality(L \ M)
<1> DEFINE d == Cardinality(L \ M)
           U == {k \in L \cap M : Records!Rank(M, k) < n /\ ~ (Records!Rank(L, k) < n)}
           V == {k \in M : Records!Rank(M, k) \in n - d .. n - 1}
<1>1. d \in Nat
  BY FS_Difference, FS_CardinalityType
<1>2. U \subseteq V
  <2> SUFFICES ASSUME NEW k \in U PROVE k \in V
    OBVIOUS
  <2>1. Records!Rank(L, k) \in Nat /\ Records!Rank(M, k) \in Nat
    BY RankIs
  <2>2. Records!Rank(L, k) <= Records!Rank(M, k) + d
    BY RankShift
  <2> HIDE DEF d
  <2> QED
    BY <1>1, <2>1, <2>2
<1>3. IsFiniteSet(V) /\ V \subseteq M
  BY FS_Subset
<1> HIDE DEF d
<1>4. Cardinality(V) <= (n - 1) - (n - d) + 1
  <2>1. n - d \in Int /\ n - 1 \in Int /\ n - d <= (n - 1) + 1
    BY <1>1
  <2> QED
    BY <2>1, RankedBetween
<1> HIDE DEF U, V
<1>5. IsFiniteSet(U) /\ Cardinality(U) <= Cardinality(V)
  BY <1>2, <1>3, FS_Subset
<1>6. Cardinality(U) \in Nat /\ Cardinality(V) \in Nat
  BY <1>3, <1>5, FS_CardinalityType
<1>7. Cardinality(U) <= d
  BY <1>1, <1>4, <1>5, <1>6
<1> QED
  BY <1>5, <1>7 DEF U, d

(* The page is no larger than the limit, and rows before the next offset   *)
(* are before the offset or in the page.                                   *)
LEMMA PageAndOffset ==
  ASSUME Records!PageConstants, NEW L \in SUBSET Records!Key, IsFiniteSet(L), NEW n \in Nat
  PROVE  /\ Records!PageFrom(L, n) \subseteq L
         /\ Records!NextOffset(n, Records!PageFrom(L, n)) \in Nat
         /\ \A k \in L : Records!Rank(L, k) < Records!NextOffset(n, Records!PageFrom(L, n)) =>
              Records!Rank(L, k) < n \/ k \in Records!PageFrom(L, n)
<1> DEFINE page == {k \in L : Records!Rank(L, k) \in n .. n + PageSize - 1}
<1>0. PageSize \in Nat /\ PageSize > 0
  BY DEF Records!PageConstants
<1>1. Records!PageFrom(L, n) = page
  BY DEF Records!PageFrom, Records!Rank
<1>2. IsFiniteSet(page) /\ Cardinality(page) \in Nat
  BY FS_Subset, FS_CardinalityType
<1>3. Cardinality(page) <= (n + PageSize - 1) - n + 1
  <2>1. n \in Int /\ n + PageSize - 1 \in Int /\ n <= (n + PageSize - 1) + 1
    BY <1>0
  <2> QED
    BY <2>1, RankedBetween
<1>4. Records!NextOffset(n, page) = n + Cardinality(page)
  BY SameInRecords DEF Records!NextOffset
<1>5. ASSUME NEW k \in L, Records!Rank(L, k) < n + Cardinality(page)
      PROVE  Records!Rank(L, k) < n \/ k \in page
  <2>1. Records!Rank(L, k) \in Nat
    BY RankIs
  <2>2. Records!Rank(L, k) < n \/ Records!Rank(L, k) \in n .. n + PageSize - 1
    BY <1>0, <1>2, <1>3, <1>5, <2>1
  <2> QED
    BY <2>2
<1> HIDE DEF page
<1>6. page \subseteq L
  BY DEF page
<1> QED
  BY <1>1, <1>2, <1>4, <1>5, <1>6

LEMMA RecordsInit ==
  ASSUME Records!PageConstants, Records!Init
  PROVE  Records!IInv
<1>1. IsFiniteSet({}) /\ Cardinality({}) = 0
  BY FS_EmptySet
<1>2. /\ store \in {"portfolios", "bonds"} /\ Records!IsFiniteSet(Records!Stored)
      /\ rows \in [Records!Key -> Label \cup {Absent}]
      /\ left = 0 /\ removed = {} /\ walk = Records!Idle
  BY DEF Records!Init
<1>3. Records!TypeOK
  BY <1>2 DEF Records!TypeOK, Records!Idle
<1>4. walk.at = "idle" /\ walk.began = {}
  BY <1>2 DEF Records!Idle
<1> QED
  BY <1>3, <1>4 DEF Records!IInv, Records!Stayed

(* Records that are listed are stored.                                     *)
LEMMA MatchingRows ==
  ASSUME Records!PageConstants, NEW r, NEW keys \in SUBSET Records!Key,
         NEW labels \in SUBSET Label, IsFiniteSet({k \in Records!Key : r[k] # Absent})
  PROVE  /\ Records!Matching(r, keys, labels) \in SUBSET Records!Key
         /\ IsFiniteSet(Records!Matching(r, keys, labels))
<1>1. Records!Matching(r, keys, labels) \subseteq {k \in Records!Key : r[k] # Absent}
  BY DEF Records!Matching, Records!PageConstants
<1> QED
  BY <1>1, FS_Subset

(* What the types say of the rows that are listed.                         *)
LEMMA ListedRows ==
  ASSUME Records!PageConstants, Records!TypeOK
  PROVE  /\ Records!Listed \in SUBSET Records!Key /\ IsFiniteSet(Records!Listed)
         /\ Cardinality(Records!Listed) \in Nat
         /\ IsFiniteSet({k \in Records!Key : rows[k] # Absent})
         /\ walk.keys \in SUBSET Records!Key /\ walk.labels \in SUBSET Label
         /\ left \in Nat /\ walk.offset \in Nat /\ walk.late \in Nat /\ walk.total \in Nat
<1>1. IsFiniteSet({k \in Records!Key : rows[k] # Absent})
  BY SameInRecords DEF Records!TypeOK, Records!Stored
<1>2. /\ left \in Nat /\ walk.offset \in Nat /\ walk.late \in Nat /\ walk.total \in Nat
      /\ walk.keys \in SUBSET Records!Key /\ walk.labels \in SUBSET Label
  BY DEF Records!TypeOK
<1>3. Records!Listed \in SUBSET Records!Key /\ IsFiniteSet(Records!Listed)
  BY <1>1, <1>2, MatchingRows DEF Records!Listed
<1> QED
  BY <1>1, <1>2, <1>3, FS_CardinalityType

(* Of two finite sets, the second is larger by no more than what came.     *)
LEMMA GrowsByWhatCame ==
  ASSUME NEW L, IsFiniteSet(L), NEW M, IsFiniteSet(M)
  PROVE  Cardinality(M) <= Cardinality(L) + Cardinality(M \ L)
<1>1. IsFiniteSet(M \ L) /\ IsFiniteSet(L \cap (M \ L))
  BY FS_Difference, FS_Intersection
<1>2. /\ IsFiniteSet(L \cup (M \ L))
      /\ Cardinality(L \cup (M \ L)) = Cardinality(L) + Cardinality(M \ L) - Cardinality(L \cap (M \ L))
  BY <1>1, FS_Union
<1>3. Cardinality(M) <= Cardinality(L \cup (M \ L))
  BY <1>2, FS_Subset
<1>4. /\ Cardinality(L) \in Nat /\ Cardinality(M) \in Nat /\ Cardinality(M \ L) \in Nat
      /\ Cardinality(L \cap (M \ L)) \in Nat
  BY <1>1, FS_CardinalityType
<1> QED
  BY <1>2, <1>3, <1>4

(* A store or a delete while a walk is on.                                 *)
LEMMA ChangeKeeps ==
  ASSUME Records!PageConstants, Records!IInv,
         NEW new \in [Records!Key -> Label \cup {Absent}],
         IsFiniteSet({k \in Records!Key : new[k] # Absent}), Records!Change(new)
  PROVE  Records!IInv'
<1> DEFINE L == Records!Listed
           M == Records!Matching(new, walk.keys, walk.labels)
           gone == L \ M
           came == M \ L
<1>0. Records!TypeOK
  BY DEF Records!IInv
<1>1. /\ rows' = new /\ removed' = removed \cup gone
      /\ left' = left + Cardinality(gone)
      /\ walk' = [walk EXCEPT
           !.late = IF walk.at = "selecting" THEN @ + Cardinality(came) ELSE @]
      /\ store' = store
  BY SameInRecords DEF Records!Change
<1>2. /\ L \in SUBSET Records!Key /\ IsFiniteSet(L) /\ M \in SUBSET Records!Key
      /\ IsFiniteSet(M) /\ walk.offset \in Nat /\ left \in Nat /\ walk.late \in Nat
      /\ Cardinality(L) \in Nat /\ walk.total \in Nat
  BY <1>0, ListedRows, MatchingRows
<1> HIDE DEF L, M
<1>3. /\ IsFiniteSet(gone) /\ Cardinality(gone) \in Nat
      /\ IsFiniteSet(came) /\ Cardinality(came) \in Nat /\ Cardinality(M) \in Nat
  <2>1. IsFiniteSet(gone) /\ IsFiniteSet(came)
    BY <1>2, FS_Difference
  <2> HIDE DEF gone, came
  <2> QED
    BY <1>2, <2>1, FS_CardinalityType
<1>12. Cardinality(M) <= Cardinality(L) + Cardinality(came)
  BY <1>2, GrowsByWhatCame
<1>13. gone = L \ M
  OBVIOUS
<1> HIDE DEF gone, came
<1>4. /\ walk'.at = walk.at /\ walk'.keys = walk.keys /\ walk'.labels = walk.labels
      /\ walk'.offset = walk.offset /\ walk'.total = walk.total
      /\ walk'.seen = walk.seen /\ walk'.began = walk.began
      /\ walk'.late = IF walk.at = "selecting" THEN walk.late + Cardinality(came) ELSE walk.late
  BY <1>0, <1>1 DEF Records!TypeOK
<1>5. left' \in Nat /\ left <= left' /\ walk'.late \in Nat
  BY <1>1, <1>2, <1>3, <1>4
<1>6. Records!TypeOK'
  <2>1. (IF walk.at = "selecting" THEN walk.late + Cardinality(came) ELSE walk.late) \in Nat
    BY <1>2, <1>3
  <2>2. walk' \in [at : {"idle", "counting", "selecting", "done"}, keys : SUBSET Records!Key,
               labels : SUBSET Label, offset : Nat, total : Nat, late : Nat,
               seen : SUBSET Records!Key, began : SUBSET Records!Key]
    BY <1>0, <1>1, <2>1 DEF Records!TypeOK
  <2>3. Records!IsFiniteSet(Records!Stored')
    <3>1. Records!Stored' = {k \in Records!Key : new[k] # Absent}
      BY <1>1 DEF Records!Stored, Records!Key
    <3> QED
      BY <3>1, SameInRecords
  <2> QED
    BY <1>0, <1>1, <1>5, <2>2, <2>3 DEF Records!TypeOK, Records!Key
<1>7. Records!Listed' = M
  BY <1>1, <1>4 DEF Records!Listed, Records!Matching, M
<1>8. Records!Stayed \subseteq L
  BY DEF Records!IInv, L
<1>9. Records!Stayed' \subseteq Records!Stayed /\ Records!Stayed' \subseteq M
  BY <1>1, <1>4, <1>8 DEF Records!Stayed, gone
<1>10. ASSUME walk'.at \in {"counting", "selecting"}
       PROVE  Cardinality((Records!Behind' \cap Records!Stayed') \ walk'.seen) <= left'
  <2> DEFINE n == walk.offset
             missed == (Records!Behind \cap Records!Stayed) \ walk.seen
             now == (Records!Behind' \cap Records!Stayed') \ walk'.seen
             up == {k \in L \cap M : Records!Rank(M, k) < n /\ ~ (Records!Rank(L, k) < n)}
  <2>2. IsFiniteSet(up) /\ Cardinality(up) <= Cardinality(L \ M)
    BY <1>2, MovedUp
  <2>4. IsFiniteSet(missed) /\ Cardinality(missed) <= left
    <3>1. missed \subseteq L
      BY DEF Records!Behind, L
    <3> QED
      BY <1>2, <1>4, <1>10, <3>1, SameInRecords, FS_Subset DEF Records!IInv
  <2>5. now \subseteq missed \cup up
    <3>1. Records!Behind' = {k \in M : Records!Rank(M, k) < n}
      BY <1>4, <1>7 DEF Records!Behind, Records!Rank, Records!Before
    <3>2. Records!Behind = {k \in L : Records!Rank(L, k) < n}
      BY DEF Records!Behind, L
    <3> HIDE DEF n
    <3> QED
      BY <1>4, <1>8, <1>9, <3>1, <3>2
  <2> HIDE DEF missed, up, now, n
  <2>6. /\ IsFiniteSet(missed \cup up) /\ IsFiniteSet(missed \cap up)
        /\ Cardinality(missed \cup up) =
             Cardinality(missed) + Cardinality(up) - Cardinality(missed \cap up)
    BY <2>2, <2>4, FS_Union, FS_Intersection
  <2>7. /\ Cardinality(missed) \in Nat /\ Cardinality(up) \in Nat
        /\ Cardinality(missed \cap up) \in Nat
    BY <2>2, <2>4, <2>6, FS_CardinalityType
  <2>8. IsFiniteSet(now) /\ Cardinality(now) <= Cardinality(missed \cup up)
    BY <2>5, <2>6, FS_Subset
  <2>9. Cardinality(now) \in Nat
    BY <2>8, FS_CardinalityType
  <2>10. Cardinality(up) <= Cardinality(gone)
    BY <1>13, <2>2
  <2>11. Cardinality(now) <= left'
    BY <1>1, <1>2, <1>3, <2>4, <2>6, <2>7, <2>8, <2>9, <2>10
  <2> QED
    BY <2>11 DEF now
<1>11. ASSUME walk'.at = "done"
       PROVE  Cardinality(Records!Stayed' \ walk'.seen) <= left' + walk'.late
  <2> DEFINE missed == Records!Stayed \ walk.seen
             now == Records!Stayed' \ walk'.seen
  <2>1. IsFiniteSet(missed)
    BY <1>2, <1>8, FS_Subset
  <2>2. Cardinality(missed) <= left + walk.late /\ walk'.late = walk.late
    BY <1>4, <1>11, SameInRecords DEF Records!IInv
  <2>3. now \subseteq missed
    BY <1>4, <1>9
  <2> HIDE DEF missed, now
  <2>4. IsFiniteSet(now) /\ Cardinality(now) <= Cardinality(missed)
    BY <2>1, <2>3, FS_Subset
  <2>5. Cardinality(now) \in Nat /\ Cardinality(missed) \in Nat
    BY <2>1, <2>4, FS_CardinalityType
  <2>6. Cardinality(now) <= left' + walk'.late
    BY <1>2, <1>5, <2>2, <2>4, <2>5
  <2> QED
    BY <2>6 DEF now
<1>14. walk'.at = "selecting" =>
         store' = "bonds" /\ Cardinality(Records!Listed') <= walk'.total + walk'.late
  <2> SUFFICES ASSUME walk.at = "selecting"
               PROVE  store = "bonds" /\ Cardinality(M) <= walk.total + walk'.late
    BY <1>1, <1>4, <1>7
  <2>1. store = "bonds" /\ Cardinality(L) <= walk.total + walk.late
    BY SameInRecords DEF Records!IInv, L
  <2>2. walk'.late = walk.late + Cardinality(came)
    BY <1>4
  <2> QED
    BY <1>2, <1>3, <1>12, <2>1, <2>2
<1> QED
  BY <1>6, <1>7, <1>9, <1>10, <1>11, <1>14, SameInRecords DEF Records!IInv

LEMMA BeginWalkKeeps ==
  ASSUME Records!PageConstants, Records!IInv, NEW keys \in Records!KeyFilter,
         NEW labels \in SUBSET Label, Records!BeginWalk(keys, labels)
  PROVE  Records!IInv'
<1>0. Records!TypeOK
  BY DEF Records!IInv
<1> DEFINE L == Records!Matching(rows, keys, labels)
<1>1. /\ walk' = [at |-> "counting", keys |-> keys, labels |-> labels, offset |-> 0,
                  total |-> 0, late |-> 0, seen |-> {}, began |-> L]
      /\ removed' = {} /\ left' = 0 /\ UNCHANGED <<store, rows>>
  BY DEF Records!BeginWalk, Records!Idle
<1>2. keys \in SUBSET Records!Key
  BY DEF Records!KeyFilter, Records!Key
<1>7. L \in SUBSET Records!Key /\ IsFiniteSet(L)
  BY <1>0, <1>2, ListedRows, MatchingRows
<1>8. Records!Listed' = L
  BY <1>1 DEF Records!Listed, Records!Matching
<1> HIDE DEF L
<1>3. Records!TypeOK'
  <2>1. Records!Stored' = Records!Stored
    BY <1>1 DEF Records!Stored
  <2> QED
    BY <1>0, <1>1, <1>2, <1>7, <2>1 DEF Records!TypeOK
<1>4. Records!Stayed' \subseteq Records!Listed'
  BY <1>1, <1>8 DEF Records!Stayed
<1>5. Records!Behind' = {}
  <2>1. Records!Behind' = {k \in L : Records!Rank(L, k) < 0}
    BY <1>1, <1>8 DEF Records!Behind, Records!Rank, Records!Before
  <2>3. \A k \in L : Records!Rank(L, k) \in Nat
    BY <1>7, RankIs
  <2>4. \A k \in L : ~ (Records!Rank(L, k) < 0)
    BY <2>3
  <2> QED
    BY <2>1, <2>4
<1>6. Cardinality((Records!Behind' \cap Records!Stayed') \ walk'.seen) <= left'
  BY <1>1, <1>5, FS_EmptySet
<1> QED
  BY <1>1, <1>3, <1>4, <1>6, SameInRecords DEF Records!IInv

LEMMA CountKeeps ==
  ASSUME Records!PageConstants, Records!IInv, Records!CountRows
  PROVE  Records!IInv'
<1>0. Records!TypeOK
  BY DEF Records!IInv
<1>1. /\ walk.at = "counting" /\ store = "bonds"
      /\ walk' = [walk EXCEPT !.at = "selecting", !.total = Cardinality(Records!Listed), !.late = 0]
      /\ UNCHANGED <<store, rows, removed, left>>
  BY SameInRecords DEF Records!CountRows, Records!history
<1>2. /\ walk'.at = "selecting" /\ walk'.keys = walk.keys /\ walk'.labels = walk.labels
      /\ walk'.offset = walk.offset /\ walk'.late = 0
      /\ walk'.total = Cardinality(Records!Listed) /\ walk'.seen = walk.seen
      /\ walk'.began = walk.began
  BY <1>0, <1>1 DEF Records!TypeOK
<1>3. Cardinality(Records!Listed) \in Nat
  BY <1>0, ListedRows
<1>4. Records!TypeOK'
  <2>1. Records!Stored' = Records!Stored
    BY <1>1 DEF Records!Stored
  <2> QED
    BY <1>0, <1>1, <1>3, <2>1 DEF Records!TypeOK
<1>5. /\ Records!Stayed' = Records!Stayed /\ Records!Listed' = Records!Listed
      /\ Records!Behind' = Records!Behind
  BY <1>1, <1>2
     DEF Records!Stayed, Records!Listed, Records!Matching, Records!Behind, Records!Rank,
         Records!Before
<1>6. Cardinality(Records!Listed') <= walk'.total + walk'.late
  BY <1>2, <1>3, <1>5
<1> QED
  BY <1>1, <1>2, <1>4, <1>5, <1>6, SameInRecords DEF Records!IInv

(* No more rows come at or after an offset than there are beyond it.       *)
LEMMA RowsAhead ==
  ASSUME Records!PageConstants, NEW L \in SUBSET Records!Key, IsFiniteSet(L),
         NEW n \in Nat, NEW total \in Nat, NEW late \in Nat,
         total <= n, Cardinality(L) <= total + late
  PROVE  Cardinality({k \in L : ~ (Records!Rank(L, k) < n)}) <= late
<1> DEFINE S == {k \in L : ~ (Records!Rank(L, k) < n)}
           c == Cardinality(L)
           T == {k \in L : Records!Rank(L, k) \in n .. c - 1}
<1>1. c \in Nat /\ IsFiniteSet(T) /\ T \subseteq L
  BY FS_CardinalityType, FS_Subset
<1>2. S \subseteq T
  <2> SUFFICES ASSUME NEW k \in L, ~ (Records!Rank(L, k) < n)
               PROVE  Records!Rank(L, k) \in n .. c - 1
    OBVIOUS
  <2>1. Records!Rank(L, k) \in Nat /\ Records!Rank(L, k) < c
    BY RankIs, RankBelow
  <2> HIDE DEF c
  <2> QED
    BY <1>1, <2>1
<1>3. CASE n <= c
  <2> HIDE DEF c
  <2>1. n \in Int /\ c - 1 \in Int /\ n <= (c - 1) + 1
    BY <1>1, <1>3
  <2>2. Cardinality(T) <= (c - 1) - n + 1
    BY <2>1, RankedBetween
  <2> HIDE DEF S, T
  <2>3. IsFiniteSet(S) /\ Cardinality(S) <= Cardinality(T)
    BY <1>1, <1>2, FS_Subset
  <2>4. Cardinality(S) \in Nat /\ Cardinality(T) \in Nat
    BY <1>1, <2>3, FS_CardinalityType
  <2>5. c <= total + late
    BY DEF c
  <2>6. Cardinality(S) <= late
    BY <1>1, <2>2, <2>3, <2>4, <2>5
  <2> QED
    BY <2>6 DEF S
<1>4. CASE ~ (n <= c)
  <2> HIDE DEF c
  <2>1. \A x : ~ (x \in n .. c - 1)
    BY <1>1, <1>4
  <2>2. S = {}
    BY <1>2, <2>1
  <2> HIDE DEF S
  <2>3. Cardinality(S) = 0
    BY <2>2, FS_EmptySet
  <2> QED
    BY <2>3 DEF S
<1> QED
  BY <1>3, <1>4

(* A page: what is missed of the rows before the next offset was missed of *)
(* those before the offset; what the last page leaves ahead came late.     *)
LEMMA SelectKeeps ==
  ASSUME Records!PageConstants, Records!IInv, Records!SelectPage
  PROVE  Records!IInv'
<1> DEFINE L == Records!Listed
           page == Records!PageFrom(L, walk.offset)
           next == Records!NextOffset(walk.offset, page)
           total == IF store = "bonds" THEN walk.total ELSE Cardinality(L)
<1>0. Records!TypeOK
  BY DEF Records!IInv
<1>1. /\ walk.at = IF store = "bonds" THEN "selecting" ELSE "counting"
      /\ walk' = [walk EXCEPT !.seen = @ \cup page, !.offset = next,
                              !.at = IF next < total THEN "counting" ELSE "done"]
      /\ UNCHANGED <<store, rows, removed, left>>
  <2>1. total = IF store = "bonds" THEN walk.total ELSE Records!Cardinality(L)
    BY SameInRecords
  <2> HIDE DEF total
  <2> QED
    BY <2>1 DEF Records!SelectPage, Records!history
<1>2. /\ L \in SUBSET Records!Key /\ IsFiniteSet(L) /\ walk.offset \in Nat /\ left \in Nat
      /\ walk.late \in Nat /\ walk.total \in Nat /\ Cardinality(L) \in Nat
  BY <1>0, ListedRows
<1>3. /\ page \subseteq L /\ next \in Nat
      /\ \A k \in L : Records!Rank(L, k) < next => Records!Rank(L, k) < walk.offset \/ k \in page
  BY <1>2, PageAndOffset
<1>11. total \in Nat /\ Cardinality(L) <= total + walk.late
  <2>1. CASE store = "bonds"
    <3>1. Cardinality(L) <= walk.total + walk.late
      BY <1>1, <2>1, SameInRecords DEF Records!IInv
    <3> QED
      BY <1>2, <2>1, <3>1
  <2>2. CASE store # "bonds"
    <3>1. total = Cardinality(L)
      BY <2>2
    <3> HIDE DEF L, total
    <3> QED
      BY <1>2, <3>1
  <2> QED
    BY <2>1, <2>2
<1> HIDE DEF page, next
<1>4. /\ walk'.at = IF next < total THEN "counting" ELSE "done"
      /\ walk'.keys = walk.keys /\ walk'.labels = walk.labels
      /\ walk'.offset = next /\ walk'.total = walk.total /\ walk'.late = walk.late
      /\ walk'.seen = walk.seen \cup page /\ walk'.began = walk.began
  BY <1>0, <1>1 DEF Records!TypeOK
<1>5. Records!TypeOK'
  <2>1. Records!Stored' = Records!Stored
    BY <1>1 DEF Records!Stored
  <2> QED
    BY <1>0, <1>1, <1>2, <1>3, <2>1 DEF Records!TypeOK
<1>6. Records!Stayed' = Records!Stayed /\ Records!Listed' = L
  BY <1>1, <1>4 DEF Records!Stayed, Records!Listed, Records!Matching
<1>7. /\ Records!Behind' = {k \in L : Records!Rank(L, k) < next}
      /\ Records!Behind = {k \in L : Records!Rank(L, k) < walk.offset}
      /\ Records!Stayed \subseteq L
  BY <1>4, <1>6 DEF Records!Behind, Records!Rank, Records!Before, Records!IInv
<1> DEFINE missed == (Records!Behind \cap Records!Stayed) \ walk.seen
           now == (Records!Behind' \cap Records!Stayed') \ walk'.seen
           ahead == {k \in L : ~ (Records!Rank(L, k) < next)}
<1>8. now \subseteq missed
  BY <1>3, <1>4, <1>6, <1>7
<1>12. IsFiniteSet(missed) /\ IsFiniteSet(ahead)
  BY <1>2, <1>7, FS_Subset
<1>13. Cardinality(missed) <= left
  BY <1>1, SameInRecords DEF Records!IInv
<1>14. Records!Stayed' \ walk'.seen \subseteq now \cup ahead
  BY <1>6, <1>7
<1>15. ASSUME ~ (next < total)
       PROVE  Cardinality(ahead) <= walk.late
  <2> HIDE DEF L, total
  <2>1. total <= next
    BY <1>3, <1>11, <1>15
  <2> QED
    BY <1>2, <1>3, <1>11, <2>1, RowsAhead
<1> HIDE DEF missed, now, ahead, L, total
<1>16. /\ IsFiniteSet(now) /\ Cardinality(now) <= Cardinality(missed)
       /\ Cardinality(now) \in Nat /\ Cardinality(missed) \in Nat /\ Cardinality(ahead) \in Nat
  BY <1>8, <1>12, FS_Subset, FS_CardinalityType
<1>17. Cardinality(now) <= left
  BY <1>2, <1>13, <1>16
<1>18. ASSUME walk'.at = "done"
       PROVE  Cardinality(Records!Stayed' \ walk'.seen) <= left + walk.late
  <2>1. Cardinality(ahead) <= walk.late
    BY <1>4, <1>15, <1>18
  <2>2. /\ IsFiniteSet(now \cup ahead) /\ IsFiniteSet(now \cap ahead)
        /\ Cardinality(now \cup ahead) =
             Cardinality(now) + Cardinality(ahead) - Cardinality(now \cap ahead)
    BY <1>12, <1>16, FS_Union, FS_Intersection
  <2>3. /\ IsFiniteSet(Records!Stayed' \ walk'.seen)
        /\ Cardinality(Records!Stayed' \ walk'.seen) <= Cardinality(now \cup ahead)
    BY <1>14, <2>2, FS_Subset
  <2>4. /\ Cardinality(now \cap ahead) \in Nat
        /\ Cardinality(Records!Stayed' \ walk'.seen) \in Nat
    BY <2>2, <2>3, FS_CardinalityType
  <2> QED
    BY <1>2, <1>16, <1>17, <2>1, <2>2, <2>3, <2>4
<1>10. /\ walk'.at \in {"counting", "done"} /\ left' = left
       /\ Records!Stayed' \subseteq Records!Listed'
  BY <1>1, <1>4, <1>6, <1>7
<1>19. Cardinality((Records!Behind' \cap Records!Stayed') \ walk'.seen) <= left'
  BY <1>10, <1>17 DEF now
<1> QED
  BY <1>4, <1>5, <1>10, <1>18, <1>19, SameInRecords DEF Records!IInv

LEMMA EndWalkKeeps ==
  ASSUME Records!IInv, Records!EndWalk
  PROVE  Records!IInv'
<1>1. /\ walk' = Records!Idle /\ removed' = {} /\ left' = 0 /\ UNCHANGED <<store, rows>>
  BY DEF Records!EndWalk
<1>2. Records!TypeOK'
  BY <1>1 DEF Records!IInv, Records!TypeOK, Records!Idle, Records!Stored
<1>3. walk'.at = "idle" /\ walk'.began = {}
  BY <1>1 DEF Records!Idle
<1> QED
  BY <1>2, <1>3 DEF Records!IInv, Records!Stayed

LEMMA RecordsStep ==
  ASSUME Records!PageConstants, Records!IInv, [Records!Next]_(Records!vars)
  PROVE  Records!IInv'
<1> DEFINE stored(r) == {k \in Records!Key : r[k] # Absent}
<1>0. IsFiniteSet(stored(rows)) /\ rows \in [Records!Key -> Label \cup {Absent}]
  BY ListedRows DEF Records!IInv, Records!TypeOK
<1>1. ASSUME NEW key \in Records!Key, NEW label \in Label, Records!Upsert(key, label)
      PROVE  Records!IInv'
  <2> DEFINE new == [rows EXCEPT ![key] = label]
  <2>1. Records!Change(new)
    BY <1>1 DEF Records!Upsert
  <2>2. new \in [Records!Key -> Label \cup {Absent}] /\ stored(new) \subseteq stored(rows) \cup {key}
    BY <1>0
  <2>3. IsFiniteSet(stored(rows) \cup {key})
    BY <1>0, FS_AddElement
  <2> HIDE DEF new
  <2>4. IsFiniteSet(stored(new))
    BY <2>2, <2>3, FS_Subset
  <2> QED
    BY <2>1, <2>2, <2>4, ChangeKeeps
<1>2. ASSUME NEW key \in Records!Key, Records!Delete(key)
      PROVE  Records!IInv'
  <2> DEFINE new == [rows EXCEPT ![key] = Absent]
  <2>1. Records!Change(new)
    BY <1>2 DEF Records!Delete
  <2>2. new \in [Records!Key -> Label \cup {Absent}] /\ stored(new) \subseteq stored(rows)
    BY <1>0
  <2> HIDE DEF new
  <2>4. IsFiniteSet(stored(new))
    BY <1>0, <2>2, FS_Subset
  <2> QED
    BY <2>1, <2>2, <2>4, ChangeKeeps
<1>3. ASSUME NEW id \in Id, Records!DeleteAll(id)
      PROVE  Records!IInv'
  <2> DEFINE new == [k \in Records!Key |-> IF k[1] = id THEN Absent ELSE rows[k]]
  <2>1. Records!Change(new)
    BY <1>3 DEF Records!DeleteAll
  <2>2. new \in [Records!Key -> Label \cup {Absent}] /\ stored(new) \subseteq stored(rows)
    BY <1>0
  <2> HIDE DEF new
  <2>4. IsFiniteSet(stored(new))
    BY <1>0, <2>2, FS_Subset
  <2> QED
    BY <2>1, <2>2, <2>4, ChangeKeeps
<1>4. CASE UNCHANGED Records!vars
  <2>1. UNCHANGED <<store, rows, walk, removed, left>>
    BY <1>4 DEF Records!vars, Records!history
  <2> QED
    BY <2>1 DEF Records!IInv, Records!TypeOK, Records!Stored, Records!Stayed, Records!Listed,
                Records!Matching, Records!Behind, Records!Rank, Records!Before
<1> QED
  BY <1>1, <1>2, <1>3, <1>4, BeginWalkKeeps, CountKeeps, SelectKeeps, EndWalkKeeps
     DEF Records!Next

-----------------------------------------------------------------------------
(* The stores together: a behaviour is one of a single store, in which the *)
(* others rest, so that it is a behaviour of each of them.                 *)
LEMMA PartsStart == PartInit => Init /\ Overrides!Init /\ Records!Init
<1>1. NoRecords => Records!Init
  <2>1. IsFiniteSet({})
    BY FS_EmptySet
  <2>2. Records!IsFiniteSet({})
    BY <2>1, SameInRecords
  <2> SUFFICES ASSUME NoRecords PROVE Records!Init
    OBVIOUS
  <2>3. rows \in [Records!Key -> Label \cup {Absent}] /\ Records!Stored = {}
    BY DEF NoRecords, Records!Stored
  <2> QED
    BY <2>2, <2>3 DEF NoRecords, Records!Init
<1> QED
  BY <1>1 DEF PartInit

LEMMA PartsStep ==
  [PartNext]_all => [Next]_vars /\ [Overrides!Next]_(Overrides!vars) /\ [Records!Next]_(Records!vars)
<1>1. UNCHANGED overriding => UNCHANGED Overrides!vars
  BY DEF overriding, Overrides!vars
<1>2. UNCHANGED paging => UNCHANGED Records!vars
  BY DEF paging, Records!vars, Records!history
<1>3. UNCHANGED all => UNCHANGED vars /\ UNCHANGED overriding /\ UNCHANGED paging
  BY DEF all
<1> QED
  BY <1>1, <1>2, <1>3 DEF PartNext

LEMMA PartsImplement == PartSpec => Spec /\ Overrides!Spec /\ Records!Spec
BY PartsStart, PartsStep, PTL DEF PartSpec, Spec, Overrides!Spec, Records!Spec

(* SQLiteOverrideStore is a map with one value per key, NULL dates         *)
(* included, and a log with one entry for each of its changes: for any     *)
(* connections, whose transactions interleave and whose audit entries may  *)
(* be refused and retried.                                                 *)
THEOREM ImplementsAuditedMap == PartSpec => KeepsAuditedMap
<1>1. Overrides!OverrideConstants
  BY PartsAssumption
<1>2. Overrides!Init => Overrides!IInv /\ Overrides!AM!MInit
  BY OverridesInit
<1>3. Overrides!IInv /\ [Overrides!Next]_(Overrides!vars) => Overrides!IInv'
  BY <1>1, OverridesStep
<1>4. Overrides!IInv /\ [Overrides!Next]_(Overrides!vars) =>
        [Overrides!AM!MNext]_<<Values, Log>>
  BY <1>1, OverridesStep
<1> QED
  BY <1>2, <1>3, <1>4, PartsImplement, PTL
     DEF Overrides!Spec, KeepsAuditedMap, Overrides!KeepsAuditedMap, Overrides!AM!MSpec, Values, Log

(* A walk over pages of records misses no more of those that were listed   *)
(* all the time than left the listing meanwhile, deleted or replaced out   *)
(* of the filter, and came between the two statements of its last page;    *)
(* and a walk over snapshots misses none.                                  *)
THEOREM PagesMissNothingHolds == PartSpec => []PagesMissNothing
<1>1. Records!PageConstants
  BY PartsAssumption
<1>2. Records!Init => Records!IInv
  BY <1>1, RecordsInit
<1>3. Records!IInv /\ [Records!Next]_(Records!vars) => Records!IInv'
  BY <1>1, RecordsStep
<1>4. Records!IInv => Records!MissesOnlyMoved
  BY DEF Records!IInv, Records!MissesOnlyMoved
<1>5. WalkSeesAll /\ Records!MissesOnlyMoved => PagesMissNothing
  BY DEF PagesMissNothing
<1> QED
  BY <1>2, <1>3, <1>4, <1>5, PartsImplement, WalkSeesAllHolds, PTL DEF Records!Spec
=============================================================================
