--------------------------- MODULE PortfolioTotals ---------------------------
(***************************************************************************)
(* A portfolio that is built up position by position and reported in four  *)
(* ways: the totals over its positions, the contributions by the           *)
(* classification's sector, the buckets by sector and by maturity, and the *)
(* attribution by sector.  A table finds a position's analytics by NAME,   *)
(* never by its place: that is what a table can lose or count twice.       *)
(*                                                                         *)
(* A position is a record: whether it is cash, its name (of cash: the      *)
(* label), the name its analytics carry (its own, but for a holding that   *)
(* was given analytics, which go by whatever name they came with), the     *)
(* sector of its sector_info and of its classification, the whole years to *)
(* its maturity, and its analytics, in integers.  Weights are left over    *)
(* the common denominator.                                                 *)
(***************************************************************************)
EXTENDS Integers, Sequences, Functions

CONSTANTS
  Offered,        \* the positions there are to add
  NoSector,       \* no sector given
  Buckets,        \* the maturity buckets: [from |-> years, to |-> years] in order
  MaxPositions    \* bounds the portfolio

VARIABLE positions

PortfolioConstants ==
  /\ MaxPositions \in Nat \ {0}
  /\ \A p \in Offered :
       /\ p.cash \in BOOLEAN /\ {p.years, p.dirty, p.dv01} \subseteq Int
       /\ p.cash => p.dv01 = 0 /\ p.item = p.name
  /\ Buckets \in Seq([from : Int, to : Int])

Places == DOMAIN positions

(* The sum of F(i) over the places of P.                                   *)
SumOver(P, F(_)) == SumFunctionOnSet([i \in Places |-> F(i)], P)

Dirty(i) == positions[i].dirty
Dv01(i) == positions[i].dv01
Name(i) == positions[i].name
Item(i) == positions[i].item
Cash == {i \in Places : positions[i].cash}
Bonds == Places \ Cash

(* A dictionary by name keeps the last analytics, or position, of a name.  *)
LastItem(i) == CHOOSE j \in Places :
  Item(j) = Item(i) /\ \A k \in Places : Item(k) = Item(i) => k <= j

Original(i) == CHOOSE j \in Places :
  Name(j) = Item(i) /\ \A k \in Places : Name(k) = Item(i) => k <= j

(* The places whose analytics go by the name of a position of P.           *)
Reported(P) == {j \in Places : \E i \in P : Item(j) = Name(i)}

-----------------------------------------------------------------------------
(* The totals: each position counts, with the weight of its analytics' name.*)
TotalDirty == SumOver(Places, Dirty)

TotalDv01 == SumOver(Places, Dv01)

Weight(i) == Dirty(LastItem(i))

(* Mutant: positions without a sector are left out.                        *)
ClassifiedGroup(s) == {i \in Bonds : s # NoSector /\ positions[i].classified = s}

(* Contributions by sector: cash has no name() and belongs to no group.    *)
Group(s) == {i \in Bonds : positions[i].classified = s}

ContributionOf(i) == SumOver({LastItem(j) : j \in Reported({i})}, Dv01)

ContributionBySector(s) == SumOver(Group(s), ContributionOf)

(* Buckets: the sector_info goes before the classification; in the first   *)
(* maturity bucket that holds the years, and a matured bond in none.       *)
InSector(s) == {i \in Bonds :
  s = IF positions[i].sector_info # NoSector THEN positions[i].sector_info
                                             ELSE positions[i].classified}

Within(i, b) == Buckets[b].from <= positions[i].years /\ positions[i].years < Buckets[b].to

InMaturity(b) == {i \in Bonds :
  Within(i, b) /\ \A c \in 1 .. b - 1 : ~Within(i, c)}

Matured == {i \in Bonds : \A b \in DOMAIN Buckets : ~Within(i, b)}

(* What a bucket of places reports: all the analytics under a name of its  *)
(* (bucket_dv01), or the last under each (the summaries).                  *)
BucketDv01(P) == SumOver(Reported(P), Dv01)

Summary(P) == SumOver({LastItem(j) : j \in Reported(P)}, Dirty)

(* Attribution: the sector of the last position that has the analytics'    *)
(* name, and none where no position has it.                                *)
SectorName(i) ==
  LET p == positions[Original(i)]
  IN  IF (\A j \in Places : Name(j) # Item(i)) \/ p.cash THEN NoSector
      ELSE IF p.sector_info # NoSector THEN p.sector_info ELSE p.classified

AttributedWeight(s) == SumOver({i \in Places : SectorName(i) = s}, Weight)

-----------------------------------------------------------------------------
Init == positions = <<>>

AddPosition ==
  /\ Len(positions) < MaxPositions
  /\ \E p \in Offered : positions' = Append(positions, p)

Next == AddPosition

Spec == Init /\ [][Next]_positions

-----------------------------------------------------------------------------
Sectors ==
  {positions[i].classified : i \in Places} \cup {positions[i].sector_info : i \in Places}
    \cup {NoSector}

(* The sum of a table over its rows.                                       *)
SumOfTable(Rows, F(_)) == SumFunction([r \in Rows |-> F(r)])

ItemsDiffer == \A i, j \in Places : Item(i) = Item(j) => i = j

(* Bonds of one name are in one row of a table.                            *)
RowPerName(Rows, In(_)) == \A r, q \in Rows : \A i \in In(r), j \in In(q) :
  Name(i) = Name(j) => r = q

(* What goes by the name of no position of P.                              *)
Missed(P) == Places \ Reported(P)

(* A table adds up to the portfolio's total less exactly what goes by the  *)
(* name of none of the bonds the table lists.  bucket_dv01 asks for no     *)
(* more than that the lots of a bond share its maturity bucket; the other  *)
(* tables keep one value for a name, so that no two analytics may have one *)
(* (contribution_by_sector, summarize_bucket_assignments); and the         *)
(* attribution loses nothing then (_weighted_metric_by_sector).            *)
TablesReconcile ==
  /\ RowPerName(DOMAIN Buckets, InMaturity) =>
       SumOfTable(DOMAIN Buckets, LAMBDA b : BucketDv01(InMaturity(b)))
         = TotalDv01 - SumOver(Missed(Bonds \ Matured), Dv01)
  /\ ItemsDiffer =>
       /\ (\A i, j \in Bonds : Name(i) = Name(j) => i = j) =>
            SumOfTable(Sectors, ContributionBySector) = TotalDv01 - SumOver(Missed(Bonds), Dv01)
       /\ RowPerName(Sectors, InSector) =>
            SumOfTable(Sectors, LAMBDA s : Summary(InSector(s)))
              = TotalDirty - SumOver(Missed(Bonds), Dirty)
       /\ SumOfTable(Sectors, AttributedWeight) = TotalDirty
=============================================================================
