------------------------- MODULE BusinessDays_proofs -------------------------
(***************************************************************************)
(* Facts about dates and calendars, for every date and every calendar that *)
(* has an open weekday: years and months follow each other without a gap,  *)
(* a search for an open day finds the nearest one, and adjusting and adding*)
(* business days keep the order of dates.  Then sums over finite sets, of  *)
(* which the tables of a portfolio and of a sinking fund are made; and day *)
(* counts, for every two dates.                                            *)
(***************************************************************************)
EXTENDS BusinessDays, DayCounts, FiniteSetTheorems, WellFoundedInduction, TLAPS

(* Years and months.                                                       *)

LEMMA YearLengths ==
  ASSUME NEW y \in Int
  PROVE  /\ DaysBeforeYear(y) \in Int
         /\ DaysBeforeYear(y + 1) = DaysBeforeYear(y) + (IF IsLeap(y) THEN 366 ELSE 365)
BY DEF DaysBeforeYear, IsLeap

LEMMA YearsAscend ==
  ASSUME NEW y \in Int, NEW z \in Int, y <= z
  PROVE  DaysBeforeYear(y) <= DaysBeforeYear(z)
BY DEF DaysBeforeYear

LEMMA YearOfDate ==
  ASSUME NEW date \in Int
  PROVE  /\ Year(date) \in Int
         /\ DaysBeforeYear(Year(date)) < date
         /\ date <= DaysBeforeYear(Year(date) + 1)
<1> DEFINE guess == (400 * date) \div 146097
<1>1. guess \in Int /\ DaysBeforeYear(guess) < date /\ date <= DaysBeforeYear(guess + 3)
  BY DEF DaysBeforeYear
<1>2. Year(date) = CHOOSE y \in guess .. guess + 2 :
                     DaysBeforeYear(y) < date /\ date <= DaysBeforeYear(y + 1)
  BY DEF Year
<1> HIDE DEF guess
<1>3. DaysBeforeYear(guess + 1) \in Int /\ DaysBeforeYear(guess + 2) \in Int
  BY <1>1, YearLengths
<1>4. \E y \in guess .. guess + 2 : DaysBeforeYear(y) < date
      /\ date <= DaysBeforeYear(y + 1)
  <2>1. CASE date <= DaysBeforeYear(guess + 1)
    BY <1>1, <2>1
  <2>2. CASE DaysBeforeYear(guess + 1) < date /\ date <= DaysBeforeYear(guess + 2)
    <3>1. (guess + 1) + 1 = guess + 2 /\ guess + 1 \in guess .. guess + 2
      BY <1>1
    <3> QED
      BY <2>2, <3>1
  <2>3. CASE DaysBeforeYear(guess + 2) < date
    <3>1. (guess + 2) + 1 = guess + 3 /\ guess + 2 \in guess .. guess + 2
      BY <1>1
    <3> QED
      BY <1>1, <2>3, <3>1
  <2> QED
    BY <1>3, <2>1, <2>2, <2>3
<1> QED
  BY <1>1, <1>2, <1>4

LEMMA YearOfDateIs ==
  ASSUME NEW date \in Int, NEW y \in Int,
         DaysBeforeYear(y) < date, date <= DaysBeforeYear(y + 1)
  PROVE  Year(date) = y
<1>1. Year(date) \in Int /\ DaysBeforeYear(Year(date)) < date
      /\ date <= DaysBeforeYear(Year(date) + 1)
  BY YearOfDate
<1>2. ~ Year(date) + 1 <= y
  BY <1>1, YearsAscend, YearLengths
<1>3. ~ y + 1 <= Year(date)
  BY <1>1, YearsAscend, YearLengths
<1> QED
  BY <1>1, <1>2, <1>3

LEMMA MonthLengthType ==
  ASSUME NEW y \in Int, NEW m \in 1 .. 12
  PROVE  MonthLength(y, m) \in Int /\ MonthLength(y, m) >= 28 /\ MonthLength(y, m) <= 31
BY DEF MonthLength

LEMMA DaysBeforeMonthType ==
  ASSUME NEW y \in Int, NEW m \in 1 .. 12
  PROVE  /\ DaysBeforeMonth(y, m) \in Int
         /\ 0 <= DaysBeforeMonth(y, m) /\ DaysBeforeMonth(y, m) <= 335
BY DEF DaysBeforeMonth

LEMMA MonthBefore ==
  ASSUME NEW y \in Int, NEW m \in 1 .. 12
  PROVE  DaysBeforeMonth(y, m) <= 31 * (m - 1)
BY DEF DaysBeforeMonth

LEMMA MonthTable ==
  ASSUME NEW y \in Int, NEW m \in 1 .. 12
  PROVE  /\ m < 12 => DaysBeforeMonth(y, m + 1) = DaysBeforeMonth(y, m) + MonthLength(y, m)
         /\ m = 1 => DaysBeforeMonth(y, m) = 0
         /\ m = 12 => DaysBeforeMonth(y, m) + MonthLength(y, m)
                        = (IF IsLeap(y) THEN 366 ELSE 365)
BY DEF MonthLength, DaysBeforeMonth

LEMMA MonthsOfYearAscend ==
  ASSUME NEW y \in Int, NEW m \in 1 .. 12, NEW k \in 1 .. 12, m < k
  PROVE  DaysBeforeMonth(y, m) + MonthLength(y, m) <= DaysBeforeMonth(y, k)
BY DEF MonthLength, DaysBeforeMonth

LEMMA MonthOfDayBounds ==
  ASSUME NEW y \in Int, NEW n \in 1 .. (IF IsLeap(y) THEN 366 ELSE 365)
  PROVE  /\ MonthOfDay(y, n) \in 1 .. 12
         /\ DaysBeforeMonth(y, MonthOfDay(y, n)) < n
         /\ n <= DaysBeforeMonth(y, MonthOfDay(y, n)) + MonthLength(y, MonthOfDay(y, n))
<1> DEFINE m == ((n - 1) \div 31) + 1
<1>1. m \in 1 .. 12 /\ 31 * (m - 1) < n /\ n <= 31 * m
  OBVIOUS
<1>2. MonthOfDay(y, n) = IF n <= DaysBeforeMonth(y, m) + MonthLength(y, m) THEN m ELSE m + 1
  BY DEF MonthOfDay
<1> HIDE DEF m
<1>3. /\ MonthLength(y, m) \in Int /\ MonthLength(y, m) >= 28 /\ MonthLength(y, m) <= 31
         /\ DaysBeforeMonth(y, m) \in Int
      /\ DaysBeforeMonth(y, m) <= 31 * (m - 1)
  BY <1>1, MonthLengthType, DaysBeforeMonthType, MonthBefore
<1>4. CASE n <= DaysBeforeMonth(y, m) + MonthLength(y, m)
  <2>1. MonthOfDay(y, n) = m
    BY <1>2, <1>4
  <2> QED
    BY <1>1, <1>3, <1>4, <2>1
<1>5. CASE n > DaysBeforeMonth(y, m) + MonthLength(y, m)
  <2>1. MonthOfDay(y, n) = m + 1
    BY <1>1, <1>2, <1>3, <1>5
  <2>2. m < 12
    BY <1>1, <1>3, <1>5, MonthTable
  <2>3. m + 1 \in 1 .. 12
    BY <1>1, <2>2
  <2>4. n <= DaysBeforeMonth(y, m + 1) + MonthLength(y, m + 1)
    BY <1>1, <2>2 DEF MonthLength, DaysBeforeMonth
  <2>5. DaysBeforeMonth(y, m + 1) = DaysBeforeMonth(y, m) + MonthLength(y, m)
    BY <1>1, <2>2, MonthTable
  <2> QED
    BY <1>3, <1>5, <2>1, <2>3, <2>4, <2>5
<1> QED
  BY <1>1, <1>3, <1>4, <1>5

(* Months in a row, as ClampedInMonth counts them.                         *)
MonthStart(i) == FromYmd(i \div 12, (i % 12) + 1, 1)

MonthIndex(date) == 12 * Year(date) + Month(date) - 1

IndexLength(i) == MonthLength(i \div 12, (i % 12) + 1)

LEMMA MonthsInARow ==
  ASSUME NEW i \in Int
  PROVE  /\ i \div 12 \in Int /\ (i % 12) + 1 \in 1 .. 12
         /\ IndexLength(i) \in Int /\ IndexLength(i) >= 28 /\ IndexLength(i) <= 31
            /\ MonthStart(i) \in Int
         /\ MonthStart(i + 1) = MonthStart(i) + IndexLength(i)
<1> DEFINE y == i \div 12
           m == (i % 12) + 1
<1>1. y \in Int /\ m \in 1 .. 12
  OBVIOUS
<1>2. \/ m < 12 /\ (i + 1) \div 12 = y /\ ((i + 1) % 12) + 1 = m + 1
      \/ m = 12 /\ (i + 1) \div 12 = y + 1 /\ ((i + 1) % 12) + 1 = 1
  OBVIOUS
<1>3. /\ MonthStart(i) = DaysBeforeYear(y) + DaysBeforeMonth(y, m) + 1
      /\ IndexLength(i) = MonthLength(y, m)
  BY DEF MonthStart, FromYmd, IndexLength
<1>4. MonthStart(i + 1) = DaysBeforeYear((i + 1) \div 12)
                            + DaysBeforeMonth((i + 1) \div 12, ((i + 1) % 12) + 1) + 1
  BY DEF MonthStart, FromYmd
<1> HIDE DEF y, m
<1>5. /\ MonthLength(y, m) \in Int /\ MonthLength(y, m) >= 28 /\ MonthLength(y, m) <= 31
         /\ DaysBeforeMonth(y, m) \in Int
      /\ DaysBeforeYear(y) \in Int
  BY <1>1, MonthLengthType, DaysBeforeMonthType, YearLengths
<1>8. y = i \div 12 /\ m = (i % 12) + 1
  BY DEF y, m
<1>6. CASE m < 12
  BY <1>1, <1>2, <1>3, <1>4, <1>5, <1>6, <1>8, MonthTable
<1>7. CASE m = 12
  <2>1. MonthStart(i + 1) = DaysBeforeYear(y + 1) + DaysBeforeMonth(y + 1, 1) + 1
    BY <1>2, <1>4, <1>7
  <2>2. DaysBeforeMonth(y + 1, 1) = 0
    BY <1>1 DEF DaysBeforeMonth
  <2>3. DaysBeforeMonth(y, m) + MonthLength(y, m) = (IF IsLeap(y) THEN 366 ELSE 365)
    BY <1>1, <1>7, MonthTable
  <2>4. DaysBeforeYear(y + 1) = DaysBeforeYear(y) + DaysBeforeMonth(y, m) + MonthLength(y,
        m)
    BY <1>1, <1>5, <2>3, YearLengths
  <2>5. MonthStart(i + 1) = MonthStart(i) + IndexLength(i)
    BY <1>3, <1>5, <2>1, <2>2, <2>4
  <2> QED
    BY <1>1, <1>3, <1>5, <1>8, <2>5
<1> QED
  BY <1>1, <1>2, <1>3, <1>5, <1>6, <1>7, <1>8

LEMMA MonthsAscend ==
  ASSUME NEW i \in Int, NEW j \in Int, i < j
  PROVE  MonthStart(i + 1) <= MonthStart(j)
<1> DEFINE y == (i + 1) \div 12
           m == ((i + 1) % 12) + 1
           z == j \div 12
           k == (j % 12) + 1
<1>1. y \in Int /\ m \in 1 .. 12 /\ z \in Int /\ k \in 1 .. 12
  OBVIOUS
<1>2. y < z \/ (y = z /\ m <= k)
  OBVIOUS
<1>3. /\ MonthStart(i + 1) = DaysBeforeYear(y) + DaysBeforeMonth(y, m) + 1
      /\ MonthStart(j) = DaysBeforeYear(z) + DaysBeforeMonth(z, k) + 1
  BY DEF MonthStart, FromYmd
<1> HIDE DEF y, m, z, k
<1>4. /\ DaysBeforeYear(y) \in Int /\ DaysBeforeYear(z) \in Int
      /\ DaysBeforeMonth(y, m) \in Int /\ DaysBeforeMonth(y, m) <= 335
      /\ DaysBeforeMonth(z, k) \in Int /\ 0 <= DaysBeforeMonth(z, k)
  BY <1>1, MonthLengthType, DaysBeforeMonthType, YearLengths
<1>5. CASE y < z
  <2>1. DaysBeforeYear(y + 1) <= DaysBeforeYear(z)
        /\ DaysBeforeYear(y + 1) >= DaysBeforeYear(y) + 365
    <3>1. y + 1 \in Int /\ y + 1 <= z
      BY <1>1, <1>5
    <3>2. DaysBeforeYear(y + 1) <= DaysBeforeYear(z)
      BY <1>1, <3>1, YearsAscend
    <3> QED
      BY <1>1, <1>4, <3>2, YearLengths
  <2>2. DaysBeforeYear(y + 1) \in Int
    BY <1>1, YearLengths
  <2> QED
    BY <1>3, <1>4, <2>1, <2>2
<1>6. CASE y = z /\ m = k
  BY <1>3, <1>4, <1>6
<1>7. CASE y = z /\ m < k
  <2>1. DaysBeforeMonth(y, m) + MonthLength(y, m) <= DaysBeforeMonth(y, k)
    BY <1>1, <1>7, MonthsOfYearAscend
  <2>2. MonthLength(y, m) \in Int /\ MonthLength(y, m) >= 28 /\ MonthLength(y, m) <= 31
    BY <1>1, MonthLengthType, DaysBeforeMonthType
  <2> QED
    BY <1>3, <1>4, <1>7, <2>1, <2>2
<1> QED
  BY <1>1, <1>2, <1>5, <1>6, <1>7

(* A date is in its month.                                                 *)
LEMMA DateInMonth ==
  ASSUME NEW date \in Int
  PROVE  /\ Year(date) \in Int /\ Month(date) \in 1 .. 12 /\ MonthIndex(date) \in Int
         /\ MonthIndex(date) \div 12 = Year(date)
            /\ (MonthIndex(date) % 12) + 1 = Month(date)
         /\ MonthStart(MonthIndex(date)) <= date
         /\ date < MonthStart(MonthIndex(date) + 1)
         /\ Day(date) = date - MonthStart(MonthIndex(date)) + 1
<1> DEFINE y == Year(date)
           n == date - DaysBeforeYear(y)
           m == MonthOfDay(y, n)
<1>1. y \in Int /\ DaysBeforeYear(y) \in Int /\ n \in 1 .. (IF IsLeap(y) THEN 366 ELSE 365)
  BY YearOfDate, YearLengths
<1>2. /\ Month(date) = m /\ MonthIndex(date) = 12 * y + m - 1
      /\ Day(date) = n - DaysBeforeMonth(y, m)
  BY DEF Month, DayOfYear, MonthIndex, Day
<1>3. n = date - DaysBeforeYear(y) /\ y = Year(date)
  OBVIOUS
<1>4. m \in 1 .. 12 /\ DaysBeforeMonth(y, m) < n
      /\ n <= DaysBeforeMonth(y, m) + MonthLength(y, m)
  BY <1>1, MonthOfDayBounds
<1> HIDE DEF y, n, m
<1>5. /\ MonthIndex(date) \in Int /\ MonthIndex(date) \div 12 = y
      /\ (MonthIndex(date) % 12) + 1 = m
  BY <1>1, <1>2, <1>4
<1>6. /\ MonthStart(MonthIndex(date)) = DaysBeforeYear(y) + DaysBeforeMonth(y, m) + 1
      /\ IndexLength(MonthIndex(date)) = MonthLength(y, m)
  BY <1>5 DEF MonthStart, FromYmd, IndexLength
<1>7. /\ MonthStart(MonthIndex(date) + 1) = MonthStart(MonthIndex(date)) + MonthLength(y, m)
      /\ DaysBeforeMonth(y, m) \in Int /\ MonthLength(y, m) \in Int
  BY <1>1, <1>4, <1>5, <1>6, MonthsInARow, MonthLengthType, DaysBeforeMonthType
<1> QED
  BY <1>1, <1>2, <1>3, <1>4, <1>5, <1>6, <1>7

(* And no other month has it.                                              *)
LEMMA MonthOfDateIs ==
  ASSUME NEW date \in Int, NEW i \in Int, MonthStart(i) <= date, date < MonthStart(i + 1)
  PROVE  MonthIndex(date) = i /\ Year(date) = i \div 12 /\ Month(date) = (i % 12) + 1
<1> DEFINE j == MonthIndex(date)
<1>1. j \in Int /\ MonthStart(j) <= date /\ date < MonthStart(j + 1)
  BY DateInMonth
<1>2. j \div 12 = Year(date) /\ (j % 12) + 1 = Month(date)
  BY DateInMonth
<1>3. j = MonthIndex(date)
  OBVIOUS
<1> HIDE DEF j
<1>4. /\ MonthStart(i) \in Int /\ MonthStart(j) \in Int
      /\ MonthStart(i + 1) \in Int /\ MonthStart(j + 1) \in Int
  BY <1>1, MonthsInARow
<1>5. ~ i < j /\ ~ j < i
  BY <1>1, <1>4, MonthsAscend
<1> QED
  BY <1>1, <1>2, <1>3, <1>5

-----------------------------------------------------------------------------
(* A set of numbers has a least one.                                       *)
LEMMA LeastNat ==
  ASSUME NEW S \in SUBSET Nat, S # {}
  PROVE  \E m \in S : \A k \in S : m <= k
<1>1. PICK m \in S : \A k \in S : ~ (<<k, m>> \in OpToRel(<, Nat))
  BY NatLessThanWellFounded, WFMin
<1>2. \A k \in S : ~ (k < m)
  BY <1>1 DEF OpToRel
<1>3. \A k \in S : k \in Nat /\ m \in Nat
  OBVIOUS
<1>4. \A k \in S : m <= k
  BY <1>2, <1>3
<1> QED
  BY <1>4

(* Sets of dates between two dates: they have a first and a last member.   *)

LEMMA FirstDate ==
  ASSUME NEW a \in Int, NEW S \in SUBSET Int, S # {}, \A s \in S : a <= s
  PROVE  Min(S) \in S /\ \A s \in S : Min(S) <= s
<1> DEFINE T == {s - a : s \in S}
<1>0. \A s \in S : s - a \in Nat
  OBVIOUS
<1>1. T \in SUBSET Nat /\ T # {}
  <2>1. T \in SUBSET Nat
    BY <1>0
  <2>2. T # {}
    OBVIOUS
  <2> QED
    BY <2>1, <2>2
<1>2. PICK m \in T : \A k \in T : m <= k
  BY <1>1, LeastNat
<1>3. PICK q \in S : m = q - a
  BY <1>2
<1>4. ASSUME NEW s \in S
      PROVE  q <= s
  <2>1. s - a \in T
    OBVIOUS
  <2>2. q - a <= s - a
    BY <1>2, <1>3, <2>1
  <2> QED
    BY <2>2
<1>5. \E d \in S : \A s \in S : d =< s
  BY <1>4
<1> QED
  BY <1>5, Zenon DEF Min

LEMMA LastDate ==
  ASSUME NEW b \in Int, NEW S \in SUBSET Int, S # {}, \A s \in S : s <= b
  PROVE  Max(S) \in S /\ \A s \in S : s <= Max(S)
<1> DEFINE T == {b - s : s \in S}
<1>0. \A s \in S : b - s \in Nat
  OBVIOUS
<1>1. T \in SUBSET Nat /\ T # {}
  <2>1. T \in SUBSET Nat
    BY <1>0
  <2>2. T # {}
    OBVIOUS
  <2> QED
    BY <2>1, <2>2
<1>2. PICK m \in T : \A k \in T : m <= k
  BY <1>1, LeastNat
<1>3. PICK q \in S : m = b - q
  BY <1>2
<1>4. ASSUME NEW s \in S
      PROVE  q >= s
  <2>1. b - s \in T
    OBVIOUS
  <2>2. b - q <= b - s
    BY <1>2, <1>3, <2>1
  <2> QED
    BY <2>2
<1>5. \E d \in S : \A s \in S : d >= s
  BY <1>4
<1>6. Max(S) \in S /\ \A s \in S : Max(S) >= s
  BY <1>5, Zenon DEF Max
<1> QED
  BY <1>6

LEMMA BetweenIsFinite ==
  ASSUME NEW a \in Int, NEW b \in Int, NEW S \in SUBSET (a .. b)
  PROVE  IsFiniteSet(S) /\ Cardinality(S) \in Nat /\ S \in SUBSET Int
<1>1. a .. b \in SUBSET Int
  OBVIOUS
<1>2. IsFiniteSet(S) /\ Cardinality(S) \in Nat
  BY FS_Interval, FS_Subset, FS_CardinalityType
<1> QED
  BY <1>1, <1>2

(* Of n dates or more there is an n-th.                                    *)
LEMMA NthDate ==
  ASSUME NEW a \in Int, NEW b \in Int, NEW S \in SUBSET (a .. b),
         NEW n \in Nat \ {0}, n <= Cardinality(S)
  PROVE  \E d \in S : Cardinality({s \in S : s <= d}) = n
<1> DEFINE Upto(d) == {s \in S : s <= d}
           T == {d \in S : n <= Cardinality(Upto(d))}
<1>0. IsFiniteSet(S) /\ Cardinality(S) \in Nat /\ S \in SUBSET Int
  BY BetweenIsFinite
<1>1. \A s \in S : a <= s /\ s <= b
  OBVIOUS
<1>2. S # {}
  BY FS_EmptySet
<1>3. Max(S) \in S /\ Upto(Max(S)) = S
  BY <1>0, <1>1, <1>2, LastDate
<1>4. T # {}
  BY <1>3
<1>5. PICK m \in T : \A d \in T : m <= d
  BY <1>0, <1>1, <1>4, FirstDate
<1> DEFINE Before == {s \in S : s < m}
<1>20. m \in S /\ m \in Int /\ n <= Cardinality(Upto(m))
  BY <1>0, <1>5
<1>21. Upto(m) \in SUBSET (a .. b)
  OBVIOUS
<1>22. m \in Upto(m)
  BY <1>20
<1>23. IsFiniteSet(Upto(m)) /\ Cardinality(Upto(m)) \in Nat
  BY <1>21, BetweenIsFinite
<1>6. /\ IsFiniteSet(Upto(m)) /\ Cardinality(Upto(m)) \in Nat
      /\ n <= Cardinality(Upto(m)) /\ m \in Upto(m)
  BY <1>20, <1>22, <1>23
<1>24. \A s \in S : s \in Int
  BY <1>0
<1>25. \A s \in S : s < m <=> s <= m /\ s # m
  BY <1>20, <1>24
<1>7. Before = Upto(m) \ {m}
  BY <1>25
<1>8. Cardinality(Before) = Cardinality(Upto(m)) - 1 /\ IsFiniteSet(Before)
  BY <1>6, <1>7, FS_RemoveElement
<1>9. ASSUME Cardinality(Upto(m)) > n
      PROVE  FALSE
  <2>1. Cardinality(Before) >= n
    BY <1>6, <1>8, <1>9
  <2>2. Before # {}
    BY <2>1, FS_EmptySet
  <2>3. Max(Before) \in Before /\ \A s \in Before : s <= Max(Before)
    BY <1>0, <1>1, <2>2, LastDate
  <2>4. Max(Before) \in S /\ Max(Before) \in Int /\ Max(Before) < m
    BY <1>24, <2>3
  <2>5. \A s \in S : s <= Max(Before) <=> s < m
    BY <1>20, <1>24, <2>3, <2>4
  <2>6. Upto(Max(Before)) = Before
    BY <2>5
  <2>7. Max(Before) \in T
    BY <2>1, <2>4, <2>6
  <2>8. ~ (Max(Before) < m)
    BY <1>5, <1>20, <2>4, <2>7
  <2> QED
    BY <2>4, <2>8
<1>10. Cardinality(Upto(m)) = n
  BY <1>6, <1>9
<1> QED
  BY <1>10

LEMMA NthDateFromEnd ==
  ASSUME NEW a \in Int, NEW b \in Int, NEW S \in SUBSET (a .. b),
         NEW n \in Nat \ {0}, n <= Cardinality(S)
  PROVE  \E d \in S : Cardinality({s \in S : s >= d}) = n
<1> DEFINE From(d) == {s \in S : s >= d}
           T == {d \in S : n <= Cardinality(From(d))}
<1>0. IsFiniteSet(S) /\ Cardinality(S) \in Nat /\ S \in SUBSET Int
  BY BetweenIsFinite
<1>1. \A s \in S : a <= s /\ s <= b
  OBVIOUS
<1>2. S # {}
  BY FS_EmptySet
<1>3. Min(S) \in S /\ From(Min(S)) = S
  BY <1>0, <1>1, <1>2, FirstDate
<1>4. T # {}
  BY <1>3
<1>5. PICK m \in T : \A d \in T : d <= m
  BY <1>0, <1>1, <1>4, LastDate
<1> DEFINE After == {s \in S : s > m}
<1>20. m \in S /\ m \in Int /\ n <= Cardinality(From(m))
  BY <1>0, <1>5
<1>21. From(m) \in SUBSET (a .. b)
  OBVIOUS
<1>22. m \in From(m)
  BY <1>20
<1>23. IsFiniteSet(From(m)) /\ Cardinality(From(m)) \in Nat
  BY <1>21, BetweenIsFinite
<1>6. /\ IsFiniteSet(From(m)) /\ Cardinality(From(m)) \in Nat
      /\ n <= Cardinality(From(m)) /\ m \in From(m)
  BY <1>20, <1>22, <1>23
<1>24. \A s \in S : s \in Int
  BY <1>0
<1>25. \A s \in S : s > m <=> s >= m /\ s # m
  BY <1>20, <1>24
<1>7. After = From(m) \ {m}
  BY <1>25
<1>8. Cardinality(After) = Cardinality(From(m)) - 1 /\ IsFiniteSet(After)
  BY <1>6, <1>7, FS_RemoveElement
<1>9. ASSUME Cardinality(From(m)) > n
      PROVE  FALSE
  <2>1. Cardinality(After) >= n
    BY <1>6, <1>8, <1>9
  <2>2. After # {}
    BY <2>1, FS_EmptySet
  <2>3. Min(After) \in After /\ \A s \in After : Min(After) <= s
    BY <1>0, <1>1, <2>2, FirstDate
  <2>4. Min(After) \in S /\ Min(After) \in Int /\ Min(After) > m
    BY <1>24, <2>3
  <2>5. \A s \in S : s >= Min(After) <=> s > m
    BY <1>20, <1>24, <2>3, <2>4
  <2>6. From(Min(After)) = After
    BY <2>5
  <2>7. Min(After) \in T
    BY <2>1, <2>4, <2>6
  <2>8. ~ (Min(After) > m)
    BY <1>5, <1>20, <2>4, <2>7
  <2> QED
    BY <2>4, <2>8
<1>10. Cardinality(From(m)) = n
  BY <1>6, <1>9
<1> QED
  BY <1>10

-----------------------------------------------------------------------------
(* Of a weekday outside the weekend the holidays leave n dates open in n   *)
(* weeks and one more for each holiday.                                    *)
LEMMA OpenInWeeks ==
  ASSUME NEW c, IsCalendar(c), NEW date \in Int, NEW n \in Nat,
         NEW to \in Int, to >= date + 7 * (n + Cardinality(c.holidays)) - 1
  PROVE  n <= Cardinality(OpenDays(c, date .. to))
<1> DEFINE h == Cardinality(c.holidays)
<1>1. h \in Nat /\ IsFiniteSet(c.holidays)
  BY FS_CardinalityType DEF IsCalendar
<1>2. PICK w \in 0 .. 6 : w \notin c.weekend
  BY DEF IsCalendar
<1> DEFINE r == (w - Weekday(date)) % 7
           g(k) == date + r + 7 * k
           K == 0 .. n + h - 1
           D == {g(k) : k \in K}
<1> HIDE DEF h
<1>3. r \in 0 .. 6
  BY DEF Weekday
<1>4. \A k \in Nat : Weekday(g(k)) = w
  BY DEF Weekday
<1> HIDE DEF r
<1>5. \A k \in K : g(k) \in date .. to
  BY <1>1, <1>3 DEF h
<1>6. D \in SUBSET (date .. to) /\ IsFiniteSet(D) /\ Cardinality(D) \in Nat
  <2>1. D \in SUBSET (date .. to)
    BY <1>5
  <2> QED
    BY <2>1, BetweenIsFinite
<1>7. n + h <= Cardinality(D)
  <2> DEFINE m == [k \in K |-> g(k)]
  <2>1. m \in [K -> D]
    OBVIOUS
  <2>2. \A j, k \in K : m[j] = m[k] => j = k
    BY <1>1, <1>3
  <2>3. m \in Injection(K, D)
    BY <2>1, <2>2 DEF Injection, IsInjective
  <2>4. Cardinality(K) <= Cardinality(D)
    BY <1>6, <2>3, FS_Injection
  <2>5. Cardinality(K) = n + h
    <3>1. n + h - 1 \in Int
      BY <1>1
    <3>2. \A b \in Int : Cardinality(0 .. b) = IF 0 > b THEN 0 ELSE b - 0 + 1
      BY FS_Interval
    <3>3. Cardinality(K) = IF 0 > n + h - 1 THEN 0 ELSE (n + h - 1) - 0 + 1
      BY <3>1, <3>2
    <3> QED
      BY <1>1, <3>3
  <2> QED
    BY <2>4, <2>5
<1>8. D \ c.holidays \in SUBSET OpenDays(c, date .. to)
  BY <1>2, <1>4, <1>6 DEF OpenDays, IsOpen
<1>9. /\ Cardinality(D \ c.holidays) = Cardinality(D) - Cardinality(D \cap c.holidays)
      /\ Cardinality(D \cap c.holidays) <= h
      /\ Cardinality(D \cap c.holidays) \in Nat
  <2>1. Cardinality(D \ c.holidays) = Cardinality(D) - Cardinality(D \cap c.holidays)
    BY <1>6, FS_Difference
  <2>2. Cardinality(D \cap c.holidays) <= h
    BY <1>1, FS_Intersection DEF h
  <2>3. Cardinality(D \cap c.holidays) \in Nat
    BY <1>6, FS_Intersection, FS_CardinalityType
  <2> QED
    BY <2>1, <2>2, <2>3
<1>10. OpenDays(c, date .. to) \in SUBSET (date .. to)
  BY DEF OpenDays
<1>11. /\ Cardinality(D \ c.holidays) <= Cardinality(OpenDays(c, date .. to))
       /\ Cardinality(OpenDays(c, date .. to)) \in Nat
  <2>1. IsFiniteSet(OpenDays(c, date .. to)) /\ Cardinality(OpenDays(c, date .. to)) \in Nat
    BY <1>10, BetweenIsFinite
  <2> QED
    BY <1>8, <2>1, FS_Subset
<1> QED
  BY <1>1, <1>6, <1>7, <1>9, <1>11

(* The searches of adjust end, on the nearest open day.                    *)
LEMMA FollowingIsNext ==
  ASSUME NEW c, IsCalendar(c), NEW date \in Int
  PROVE  /\ Following(c, date) \in Int /\ date <= Following(c, date)
         /\ IsOpen(c, Following(c, date))
         /\ \A d \in Int : date <= d /\ IsOpen(c, d) => Following(c, date) <= d
<1> DEFINE S == OpenDays(c, date .. date + Reach(c))
<1>1. Cardinality(c.holidays) \in Nat /\ Reach(c) \in Nat
      /\ Reach(c) = 7 * (1 + Cardinality(c.holidays))
  BY FS_CardinalityType DEF IsCalendar, Reach
<1>2. 1 <= Cardinality(S)
  BY <1>1, OpenInWeeks
<1>3. S # {} /\ S \in SUBSET Int /\ \A s \in S : date <= s
  <2>1. S # {}
    BY <1>2, FS_EmptySet
  <2>2. S \in SUBSET Int /\ \A s \in S : date <= s
    BY <1>1 DEF OpenDays
  <2> QED
    BY <2>1, <2>2
<1>4. Following(c, date) = Min(S)
  BY DEF Following, OpenDays
<1>5. Min(S) \in S /\ \A s \in S : Min(S) <= s
  BY <1>3, FirstDate
<1>6. Min(S) \in Int /\ Min(S) <= date + Reach(c) /\ date <= Min(S) /\ IsOpen(c, Min(S))
  BY <1>1, <1>5 DEF OpenDays
<1>7. ASSUME NEW d \in Int, date <= d, IsOpen(c, d)
      PROVE  Min(S) <= d
  <2>1. CASE d <= date + Reach(c)
    <3>1. d \in S
      BY <1>1, <1>7, <2>1 DEF OpenDays
    <3> QED
      BY <1>5, <3>1
  <2>2. CASE d > date + Reach(c)
    BY <1>1, <1>6, <2>2
  <2> QED
    BY <1>1, <2>1, <2>2
<1> QED
  BY <1>4, <1>6, <1>7

LEMMA PrecedingIsLast ==
  ASSUME NEW c, IsCalendar(c), NEW date \in Int
  PROVE  /\ Preceding(c, date) \in Int /\ Preceding(c, date) <= date
         /\ IsOpen(c, Preceding(c, date))
         /\ \A d \in Int : d <= date /\ IsOpen(c, d) => d <= Preceding(c, date)
<1> DEFINE S == OpenDays(c, date - Reach(c) .. date)
<1>1. Cardinality(c.holidays) \in Nat /\ Reach(c) \in Nat
      /\ Reach(c) = 7 * (1 + Cardinality(c.holidays))
  BY FS_CardinalityType DEF IsCalendar, Reach
<1>2. 1 <= Cardinality(S)
  BY <1>1, OpenInWeeks
<1>3. S # {} /\ S \in SUBSET Int /\ \A s \in S : s <= date
  <2>1. S # {}
    BY <1>2, FS_EmptySet
  <2>2. S \in SUBSET Int /\ \A s \in S : s <= date
    BY <1>1 DEF OpenDays
  <2> QED
    BY <2>1, <2>2
<1>4. Preceding(c, date) = Max(S)
  BY DEF Preceding, OpenDays
<1>5. Max(S) \in S /\ \A s \in S : s <= Max(S)
  BY <1>3, LastDate
<1>6. Max(S) \in Int /\ date - Reach(c) <= Max(S) /\ Max(S) <= date /\ IsOpen(c, Max(S))
  BY <1>1, <1>5 DEF OpenDays
<1>7. ASSUME NEW d \in Int, d <= date, IsOpen(c, d)
      PROVE  d <= Max(S)
  <2>1. CASE d >= date - Reach(c)
    <3>1. d \in S
      BY <1>1, <1>7, <2>1 DEF OpenDays
    <3> QED
      BY <1>5, <3>1
  <2>2. CASE d < date - Reach(c)
    BY <1>1, <1>6, <2>2
  <2> QED
    BY <1>1, <2>1, <2>2
<1> QED
  BY <1>4, <1>6, <1>7

(* Counting open days from the day after a date, or back from the day      *)
(* before it.                                                              *)
LEMMA DaysAhead ==
  ASSUME NEW c, IsCalendar(c), NEW date \in Int, NEW n \in Nat \ {0}
  PROVE  /\ AddBusinessDays(c, date, n) \in Int /\ date < AddBusinessDays(c, date, n)
         /\ IsOpen(c, AddBusinessDays(c, date, n))
         /\ Cardinality(OpenDays(c, date + 1 .. AddBusinessDays(c, date, n))) = n
<1> DEFINE span == 7 * (IF n > 0 THEN n ELSE 0 - n) + Reach(c)
           ahead == OpenDays(c, date + 1 .. date + span)
           behind == OpenDays(c, date - span .. date - 1)
           IsNth(d) == Cardinality({e \in ahead : e <= d}) = n
           Ahead == CHOOSE d \in ahead : IsNth(d)
           Behind == CHOOSE d \in behind : 0 - Cardinality({e \in behind : e >= d}) = n
<1>1. Cardinality(c.holidays) \in Nat /\ Reach(c) \in Nat
      /\ Reach(c) = 7 * (1 + Cardinality(c.holidays))
  BY FS_CardinalityType DEF IsCalendar, Reach
<1>2. span \in Int /\ span = 7 * n + Reach(c)
  BY <1>1
<1>3. AddBusinessDays(c, date, n) = CASE n = 0 -> date [] n > 0 -> Ahead [] n < 0 -> Behind
  BY DEF AddBusinessDays
<1> HIDE DEF Behind, span
<1>4. n <= Cardinality(ahead)
  BY <1>1, <1>2, OpenInWeeks
<1>5. ahead \in SUBSET (date + 1 .. date + span)
  BY DEF OpenDays
<1>6. \E d \in ahead : IsNth(d)
  <2>1. date + 1 \in Int /\ date + span \in Int
    BY <1>2
  <2> HIDE DEF ahead
  <2>2. \A S \in SUBSET (date + 1 .. date + span) : \A k \in Nat \ {0} :
          k <= Cardinality(S) => \E d \in S : Cardinality({s \in S : s <= d}) = k
    BY <2>1, NthDate
  <2> QED
    BY <1>4, <1>5, <2>2
<1>7. Ahead \in ahead /\ IsNth(Ahead)
  BY <1>6
<1> HIDE DEF Ahead
<1>8. AddBusinessDays(c, date, n) = Ahead
  BY <1>3
<1>9. Ahead \in Int /\ date < Ahead /\ Ahead <= date + span /\ IsOpen(c, Ahead)
  BY <1>2, <1>7 DEF OpenDays
<1>10. {e \in ahead : e <= Ahead} = OpenDays(c, date + 1 .. Ahead)
  BY <1>2, <1>9 DEF OpenDays
<1> QED
  BY <1>7, <1>8, <1>9, <1>10

LEMMA DaysBehind ==
  ASSUME NEW c, IsCalendar(c), NEW date \in Int, NEW n \in Nat \ {0}
  PROVE  /\ AddBusinessDays(c, date, 0 - n) \in Int
            /\ AddBusinessDays(c, date, 0 - n) < date
         /\ IsOpen(c, AddBusinessDays(c, date, 0 - n))
         /\ Cardinality(OpenDays(c, AddBusinessDays(c, date, 0 - n) .. date - 1)) = n
<1> DEFINE span == 7 * (IF 0 - n > 0 THEN 0 - n ELSE 0 - (0 - n)) + Reach(c)
           ahead == OpenDays(c, date + 1 .. date + span)
           behind == OpenDays(c, date - span .. date - 1)
           IsNth(d) == 0 - Cardinality({e \in behind : e >= d}) = 0 - n
           Ahead == CHOOSE d \in ahead : Cardinality({e \in ahead : e <= d}) = 0 - n
           Behind == CHOOSE d \in behind : IsNth(d)
<1>1. Cardinality(c.holidays) \in Nat /\ Reach(c) \in Nat
      /\ Reach(c) = 7 * (1 + Cardinality(c.holidays))
  BY FS_CardinalityType DEF IsCalendar, Reach
<1>2. span \in Int /\ span = 7 * n + Reach(c)
  BY <1>1
<1>3. AddBusinessDays(c, date, 0 - n)
        = CASE 0 - n = 0 -> date [] 0 - n > 0 -> Ahead [] 0 - n < 0 -> Behind
  BY DEF AddBusinessDays
<1> HIDE DEF Ahead, span
<1>4. n <= Cardinality(behind)
  BY <1>1, <1>2, OpenInWeeks
<1>5. behind \in SUBSET (date - span .. date - 1)
  BY DEF OpenDays
<1>6. \E d \in behind : IsNth(d)
  <2>1. date - span \in Int /\ date - 1 \in Int
    BY <1>2
  <2> HIDE DEF behind
  <2>2. \A S \in SUBSET (date - span .. date - 1) : \A k \in Nat \ {0} :
          k <= Cardinality(S) => \E d \in S : Cardinality({s \in S : s >= d}) = k
    BY <2>1, NthDateFromEnd
  <2>3. PICK d \in behind : Cardinality({e \in behind : e >= d}) = n
    BY <1>4, <1>5, <2>2
  <2> QED
    BY <2>3
<1>7. Behind \in behind /\ IsNth(Behind)
  BY <1>6
<1> HIDE DEF Behind
<1>8. AddBusinessDays(c, date, 0 - n) = Behind
  BY <1>3
<1>9. Behind \in Int /\ Behind < date /\ date - span <= Behind /\ IsOpen(c, Behind)
  BY <1>2, <1>7 DEF OpenDays
<1>10. {e \in behind : e >= Behind} = OpenDays(c, Behind .. date - 1)
  BY <1>2, <1>9 DEF OpenDays
<1>11. Cardinality(OpenDays(c, Behind .. date - 1)) \in Nat
  <2>1. OpenDays(c, Behind .. date - 1) \in SUBSET (Behind .. date - 1) /\ date - 1 \in Int
    BY DEF OpenDays
  <2> QED
    BY <1>9, <2>1, BetweenIsFinite
<1>12. Cardinality(OpenDays(c, Behind .. date - 1)) = n
  <2>1. 0 - Cardinality(OpenDays(c, Behind .. date - 1)) = 0 - n
    BY <1>7, <1>10
  <2> QED
    BY <1>11, <2>1
<1> QED
  BY <1>8, <1>9, <1>12

(* The open days of one interval after another.                            *)
Count(c, from, to) == Cardinality(OpenDays(c, from .. to - 1))

LEMMA CountType ==
  ASSUME NEW c, NEW a \in Int, NEW b \in Int
  PROVE  /\ IsFiniteSet(OpenDays(c, a .. b - 1)) /\ Count(c, a, b) \in Nat
         /\ OpenDays(c, a .. b - 1) \in SUBSET Int
<1>1. OpenDays(c, a .. b - 1) \in SUBSET (a .. b - 1) /\ b - 1 \in Int
  BY DEF OpenDays
<1>2. /\ IsFiniteSet(OpenDays(c, a .. b - 1)) /\ OpenDays(c, a .. b - 1) \in SUBSET Int
      /\ Cardinality(OpenDays(c, a .. b - 1)) \in Nat
  <2>1. \A e \in Int : \A S \in SUBSET (a .. e) :
          IsFiniteSet(S) /\ Cardinality(S) \in Nat /\ S \in SUBSET Int
    BY BetweenIsFinite
  <2> QED
    BY <1>1, <2>1
<1> QED
  BY <1>2 DEF Count

LEMMA CountsAdd ==
  ASSUME NEW c, NEW a \in Int, NEW b \in Int, NEW d \in Int, a <= b, b <= d
  PROVE  Count(c, a, d) = Count(c, a, b) + Count(c, b, d)
<1> DEFINE S == OpenDays(c, a .. b - 1)
           T == OpenDays(c, b .. d - 1)
<1>1. S \cup T = OpenDays(c, a .. d - 1) /\ S \cap T = {}
  BY DEF OpenDays
<1>2. IsFiniteSet(S) /\ IsFiniteSet(T) /\ Count(c, a, b) \in Nat /\ Count(c, b, d) \in Nat
  BY CountType
<1>3. Cardinality(S \cup T) = Cardinality(S) + Cardinality(T) - Cardinality(S \cap T)
  BY <1>2, FS_Union
<1>4. Cardinality(S \cap T) = 0
  BY <1>1, FS_EmptySet
<1>5. Count(c, a, b) = Cardinality(S) /\ Count(c, b, d) = Cardinality(T)
  BY DEF Count
<1>6. Count(c, a, d) = Cardinality(S \cup T)
  BY <1>1 DEF Count
<1> HIDE DEF S, T
<1> QED
  BY <1>2, <1>3, <1>4, <1>5, <1>6

LEMMA CountOfEmpty ==
  ASSUME NEW c, NEW a \in Int
  PROVE  Count(c, a, a) = 0
<1>1. OpenDays(c, a .. a - 1) = {}
  BY DEF OpenDays
<1> QED
  BY <1>1, FS_EmptySet DEF Count

(* An open day before another day counts.                                  *)
LEMMA OpenDayCounts ==
  ASSUME NEW c, NEW a \in Int, NEW b \in Int, a < b, IsOpen(c, a)
  PROVE  Count(c, a, b) >= 1
<1>1. a \in OpenDays(c, a .. b - 1)
  BY DEF OpenDays
<1> QED
  BY <1>1, CountType, FS_EmptySet DEF Count

(* Going back from an open day one comes to a day from which that many     *)
(* open days are left.                                                     *)
LEMMA BackCounts ==
  ASSUME NEW c, IsCalendar(c), NEW date \in Int, IsOpen(c, date), NEW n \in Nat
  PROVE  LET back == AddBusinessDays(c, date, 0 - n)
         IN  back \in Int /\ back <= date /\ IsOpen(c, back) /\ Count(c, back, date) = n
<1>1. CASE n = 0
  <2>1. AddBusinessDays(c, date, 0 - n) = date
    BY <1>1 DEF AddBusinessDays
  <2> QED
    BY <1>1, <2>1, CountOfEmpty
<1>2. CASE n # 0
  <2> DEFINE back == AddBusinessDays(c, date, 0 - n)
  <2>1. n \in Nat \ {0}
    BY <1>2
  <2>2. /\ back \in Int /\ back < date /\ IsOpen(c, back)
        /\ Cardinality(OpenDays(c, back .. date - 1)) = n
    BY <2>1, DaysBehind
  <2>3. Count(c, back, date) = n
    BY <2>2 DEF Count
  <2> HIDE DEF back
  <2>4. back <= date
    BY <2>2
  <2> QED
    BY <2>2, <2>3, <2>4 DEF back
<1> QED
  BY <1>1, <1>2

(* Of two open days the one with more open days before a date is earlier.  *)
LEMMA MoreIsEarlier ==
  ASSUME NEW c, NEW a \in Int, NEW b \in Int, NEW date \in Int,
         a <= date, b <= date, IsOpen(c, b), Count(c, b, date) <= Count(c, a, date)
  PROVE  a <= b
<1> SUFFICES ASSUME b < a PROVE FALSE
  OBVIOUS
<1>1. Count(c, b, date) = Count(c, b, a) + Count(c, a, date)
  BY CountsAdd
<1>2. Count(c, b, a) >= 1
  BY OpenDayCounts
<1> QED
  BY <1>1, <1>2, CountType

-----------------------------------------------------------------------------
(* Months.                                                                 *)
LEMMA MonthIndexAscends ==
  ASSUME NEW d \in Int, NEW e \in Int, d <= e
  PROVE  MonthIndex(d) <= MonthIndex(e)
<1> DEFINE i == MonthIndex(d)
           j == MonthIndex(e)
<1>1. /\ i \in Int /\ MonthStart(i) <= d /\ d < MonthStart(i + 1)
      /\ j \in Int /\ MonthStart(j) <= e /\ e < MonthStart(j + 1)
  BY DateInMonth
<1> HIDE DEF i, j
<1>2. SUFFICES ASSUME j < i PROVE FALSE
  BY <1>1 DEF i, j
<1>3. MonthStart(j + 1) <= MonthStart(i)
  BY <1>1, <1>2, MonthsAscend
<1>4. MonthStart(j + 1) \in Int /\ MonthStart(i) \in Int
  BY <1>1, MonthsInARow
<1> QED
  BY <1>1, <1>3, <1>4

(* The last day of a month is the one before the next month.               *)
LEMMA EndOfMonthIs ==
  ASSUME NEW date \in Int
  PROVE  /\ EndOfMonth(date) \in Int
         /\ EndOfMonth(date) = MonthStart(MonthIndex(date) + 1) - 1
<1> DEFINE i == MonthIndex(date)
<1>1. i \in Int /\ i \div 12 = Year(date) /\ (i % 12) + 1 = Month(date)
      /\ Year(date) \in Int /\ Month(date) \in 1 .. 12
  BY DateInMonth
<1>2. MonthStart(i) = FromYmd(Year(date), Month(date), 1)
      /\ IndexLength(i) = MonthLength(Year(date), Month(date))
  BY <1>1 DEF MonthStart, IndexLength
<1>3. /\ DaysBeforeYear(Year(date)) \in Int
         /\ DaysBeforeMonth(Year(date), Month(date)) \in Int
      /\ MonthLength(Year(date), Month(date)) \in Int
  BY <1>1, YearLengths, MonthLengthType, DaysBeforeMonthType
<1>4. EndOfMonth(date) = MonthStart(i) + IndexLength(i) - 1 /\ MonthStart(i) \in Int
  BY <1>2, <1>3 DEF EndOfMonth, LastOfMonth, FromYmd
<1>5. MonthStart(i + 1) = MonthStart(i) + IndexLength(i) /\ IndexLength(i) \in Int
  BY <1>1, MonthsInARow
<1> HIDE DEF i
<1>6. EndOfMonth(date) \in Int /\ EndOfMonth(date) = MonthStart(i + 1) - 1
  BY <1>4, <1>5
<1> QED
  BY <1>6 DEF i

(* Every month has an open day.                                            *)
OpensMonthly(c) ==
  \A date \in Int : \E d \in Int : IsOpen(c, d) /\ MonthIndex(d) = MonthIndex(date)

(* If the months that have a holiday have one, so have the others.         *)
LEMMA MonthsAreOpen ==
  ASSUME NEW c, IsCalendar(c), OpensEveryMonth(c)
  PROVE  OpensMonthly(c)
<1> SUFFICES ASSUME NEW date \in Int
             PROVE  \E d \in Int : IsOpen(c, d) /\ MonthIndex(d) = MonthIndex(date)
  BY DEF OpensMonthly
<1> DEFINE i == MonthIndex(date)
<1>1. i \in Int
  BY DateInMonth
<1>2. /\ MonthStart(i) \in Int /\ MonthStart(i + 1) = MonthStart(i) + IndexLength(i)
      /\ IndexLength(i) \in Int /\ IndexLength(i) >= 28
  BY <1>1, MonthsInARow
<1>3. PICK day \in 0 .. 6 : day \notin c.weekend
  BY DEF IsCalendar
<1> DEFINE d == MonthStart(i) + ((day - Weekday(MonthStart(i))) % 7)
<1>4. d \in Int /\ MonthStart(i) <= d /\ d < MonthStart(i) + 7 /\ Weekday(d) = day
  BY <1>2 DEF Weekday
<1> HIDE DEF i, d
<1>5. d < MonthStart(i + 1)
  BY <1>2, <1>4
<1>6. MonthIndex(d) = i
  BY <1>1, <1>4, <1>5, MonthOfDateIs
<1>7. CASE IsOpen(c, d)
  BY <1>4, <1>6, <1>7 DEF i
<1>8. CASE ~ IsOpen(c, d)
  <2>1. d \in c.holidays
    BY <1>3, <1>4, <1>8 DEF IsOpen
  <2>2. PICK e \in FromYmd(Year(d), Month(d), 1) .. EndOfMonth(d) : IsOpen(c, e)
    BY <2>1 DEF OpensEveryMonth
  <2>3. FromYmd(Year(d), Month(d), 1) = MonthStart(i)
        /\ EndOfMonth(d) = MonthStart(i + 1) - 1
    BY <1>4, <1>6, DateInMonth, EndOfMonthIs DEF MonthStart
  <2>4. MonthStart(i + 1) \in Int
    BY <1>2
  <2>5. e \in Int /\ MonthStart(i) <= e /\ e < MonthStart(i + 1)
    BY <1>2, <2>2, <2>3, <2>4
  <2>6. MonthIndex(e) = i
    BY <1>1, <2>5, MonthOfDateIs
  <2> QED
    BY <2>2, <2>5, <2>6 DEF i
<1> QED
  BY <1>7, <1>8

-----------------------------------------------------------------------------
(* The search forwards and the search backwards.                           *)
LEMMA OpenDayStays ==
  ASSUME NEW c, IsCalendar(c), NEW d \in Int, IsOpen(c, d)
  PROVE  Following(c, d) = d /\ Preceding(c, d) = d
<1>1. Following(c, d) \in Int /\ d <= Following(c, d) /\ Following(c, d) <= d
  BY FollowingIsNext
<1>2. Preceding(c, d) \in Int /\ Preceding(c, d) <= d /\ d <= Preceding(c, d)
  BY PrecedingIsLast
<1> QED
  BY <1>1, <1>2

LEMMA SearchesAscend ==
  ASSUME NEW c, IsCalendar(c), NEW d \in Int, NEW e \in Int, d <= e
  PROVE  /\ Following(c, d) <= Following(c, e)
         /\ Preceding(c, d) <= Preceding(c, e)
<1>1. Following(c, e) \in Int /\ e <= Following(c, e) /\ IsOpen(c, Following(c, e))
  BY FollowingIsNext
<1>2. Preceding(c, d) \in Int /\ Preceding(c, d) <= d /\ IsOpen(c, Preceding(c, d))
  BY PrecedingIsLast
<1>3. d <= Following(c, e) /\ Preceding(c, d) <= e
  BY <1>1, <1>2
<1> QED
  BY <1>1, <1>2, <1>3, FollowingIsNext, PrecedingIsLast

(* Two dates between which there is an open day, and two dates between     *)
(* which there is none.                                                    *)
LEMMA OpenOrClosedBetween ==
  ASSUME NEW c, IsCalendar(c), NEW d \in Int, NEW e \in Int, d <= e
  PROVE  \/ Following(c, d) <= Preceding(c, e)
         \/ /\ Following(c, d) = Following(c, e) /\ Preceding(c, d) = Preceding(c, e)
            /\ e < Following(c, d)
<1> DEFINE fd == Following(c, d)
           fe == Following(c, e)
           pd == Preceding(c, d)
           pe == Preceding(c, e)
<1>1. /\ fd \in Int /\ d <= fd /\ IsOpen(c, fd)
      /\ \A k \in Int : d <= k /\ IsOpen(c, k) => fd <= k
  BY FollowingIsNext
<1>2. /\ fe \in Int /\ e <= fe /\ IsOpen(c, fe)
      /\ \A k \in Int : e <= k /\ IsOpen(c, k) => fe <= k
  BY FollowingIsNext
<1>3. /\ pd \in Int /\ pd <= d /\ IsOpen(c, pd)
      /\ \A k \in Int : k <= d /\ IsOpen(c, k) => k <= pd
  BY PrecedingIsLast
<1>4. /\ pe \in Int /\ pe <= e /\ IsOpen(c, pe)
      /\ \A k \in Int : k <= e /\ IsOpen(c, k) => k <= pe
  BY PrecedingIsLast
<1> HIDE DEF fd, fe, pd, pe
<1>5. CASE fd <= e
  <2>1. fd <= pe
    BY <1>1, <1>4, <1>5
  <2> QED
    BY <2>1 DEF fd, pe
<1>6. CASE e < fd
  <2>1. fe <= fd /\ fd <= fe
    BY <1>1, <1>2, <1>6
  <2>2. pe < d
    BY <1>1, <1>4, <1>6
  <2>3. pe <= pd /\ pd <= pe
    BY <1>3, <1>4, <2>2
  <2>4. fd = fe /\ pd = pe
    BY <1>1, <1>2, <1>3, <1>4, <2>1, <2>3
  <2> QED
    BY <1>6, <2>4 DEF fd, fe, pd, pe
<1> QED
  BY <1>1, <1>5, <1>6 DEF fd

(* A search leaves a month for the next one at most, so that the month's   *)
(* number tells whether it has left it; one of the two stays in it.        *)
LEMMA SearchInMonth ==
  ASSUME NEW c, IsCalendar(c), OpensMonthly(c), NEW date \in Int
  PROVE  /\ Month(Following(c, date)) = Month(date)
              <=> MonthIndex(Following(c, date)) = MonthIndex(date)
         /\ Month(Preceding(c, date)) = Month(date)
              <=> MonthIndex(Preceding(c, date)) = MonthIndex(date)
         /\ \/ MonthIndex(Following(c, date)) = MonthIndex(date)
            \/ MonthIndex(Preceding(c, date)) = MonthIndex(date)
<1> DEFINE i == MonthIndex(date)
           f == Following(c, date)
           p == Preceding(c, date)
<1>1. /\ i \in Int /\ MonthStart(i) <= date /\ date < MonthStart(i + 1)
      /\ (i % 12) + 1 = Month(date)
  BY DateInMonth
<1>2. /\ f \in Int /\ date <= f /\ \A d \in Int : date <= d /\ IsOpen(c, d) => f <= d
  BY FollowingIsNext
<1>3. /\ p \in Int /\ p <= date /\ \A d \in Int : d <= date /\ IsOpen(c, d) => d <= p
  BY PrecedingIsLast
<1>4. /\ MonthIndex(f) \in Int /\ (MonthIndex(f) % 12) + 1 = Month(f)
      /\ MonthIndex(p) \in Int /\ (MonthIndex(p) % 12) + 1 = Month(p)
  BY <1>2, <1>3, DateInMonth
<1>5. i <= MonthIndex(f) /\ MonthIndex(p) <= i
  BY <1>2, <1>3, MonthIndexAscends
<1> HIDE DEF i, f, p
<1>6. ASSUME NEW k \in Int PROVE \E d \in Int : IsOpen(c, d) /\ MonthIndex(d) = k
  <2>1. MonthStart(k) \in Int /\ MonthStart(k + 1) = MonthStart(k) + IndexLength(k)
        /\ IndexLength(k) \in Int /\ IndexLength(k) >= 28
    BY MonthsInARow
  <2>2. MonthStart(k) < MonthStart(k + 1)
    BY <2>1
  <2>3. MonthIndex(MonthStart(k)) = k
    BY <2>1, <2>2, MonthOfDateIs
  <2> QED
    BY <2>1, <2>3 DEF OpensMonthly
<1>7. ASSUME NEW d \in Int, NEW e \in Int, MonthIndex(d) < MonthIndex(e)
      PROVE  d <= e
  <2>1. SUFFICES ASSUME e <= d PROVE FALSE
    OBVIOUS
  <2>2. MonthIndex(e) <= MonthIndex(d)
    BY <2>1, MonthIndexAscends
  <2>3. MonthIndex(e) \in Int /\ MonthIndex(d) \in Int
    BY DateInMonth
  <2> QED
    BY <1>7, <2>2, <2>3
<1>8. MonthIndex(f) <= i + 1
  <2>1. PICK d \in Int : IsOpen(c, d) /\ MonthIndex(d) = i + 1
    BY <1>1, <1>6
  <2>2. date <= d
    BY <1>1, <1>7, <2>1 DEF i
  <2>3. MonthIndex(f) <= MonthIndex(d)
    BY <1>2, <2>1, <2>2, MonthIndexAscends
  <2> QED
    BY <2>1, <2>3
<1>9. i - 1 <= MonthIndex(p)
  <2>1. PICK d \in Int : IsOpen(c, d) /\ MonthIndex(d) = i - 1
    BY <1>1, <1>6
  <2>2. d <= date
    BY <1>1, <1>7, <2>1 DEF i
  <2>3. MonthIndex(d) <= MonthIndex(p)
    BY <1>3, <2>1, <2>2, MonthIndexAscends
  <2> QED
    BY <2>1, <2>3
<1>10. Month(f) = Month(date) <=> MonthIndex(f) = i
  BY <1>1, <1>4, <1>5, <1>8
<1>11. Month(p) = Month(date) <=> MonthIndex(p) = i
  BY <1>1, <1>4, <1>5, <1>9
<1>12. MonthIndex(f) = i \/ MonthIndex(p) = i
  <2>1. PICK d \in Int : IsOpen(c, d) /\ MonthIndex(d) = i
    BY <1>1, <1>6
  <2>2. CASE date <= d
    <3>1. MonthIndex(f) <= MonthIndex(d)
      BY <1>2, <2>1, <2>2, MonthIndexAscends
    <3> QED
      BY <1>1, <1>4, <1>5, <2>1, <3>1
  <2>3. CASE d <= date
    <3>1. MonthIndex(d) <= MonthIndex(p)
      BY <1>3, <2>1, <2>3, MonthIndexAscends
    <3> QED
      BY <1>1, <1>4, <1>5, <2>1, <3>1
  <2> QED
    BY <2>2, <2>3
<1> QED
  BY <1>10, <1>11, <1>12 DEF f, p, i

(* Every convention but one takes one of the two: the next open day.       *)
TakesNext(c, date, convention) ==
  CASE convention = "FOLLOWING"          -> TRUE
    [] convention = "PRECEDING"          -> FALSE
    [] convention = "MODIFIED_FOLLOWING" -> MonthIndex(Following(c,
    date)) = MonthIndex(date)
    [] convention = "MODIFIED_PRECEDING" -> MonthIndex(Preceding(c,
    date)) # MonthIndex(date)
    [] convention = "NEAREST"            ->
         Following(c, date) - date <= date - Preceding(c, date)
    [] convention = "END_OF_MONTH"       ->
         ~IsEndOfMonth(date) /\ MonthIndex(Following(c, date)) = MonthIndex(date)

LEMMA AdjustIs ==
  ASSUME NEW c, IsCalendar(c), OpensMonthly(c), NEW date \in Int,
         NEW convention \in Convention
  PROVE  /\ convention = "UNADJUSTED" => Adjust(c, date, convention) = date
         /\ convention # "UNADJUSTED" /\ TakesNext(c, date, convention) =>
              Adjust(c, date, convention) = Following(c, date)
         /\ convention # "UNADJUSTED" /\ ~TakesNext(c, date, convention) =>
              Adjust(c, date, convention) = Preceding(c, date)
<1>1. Following(c, date) \in Int /\ Preceding(c, date) \in Int
  BY FollowingIsNext, PrecedingIsLast
<1>2. /\ Month(Following(c, date)) = Month(date)
           <=> MonthIndex(Following(c, date)) = MonthIndex(date)
      /\ Month(Preceding(c, date)) = Month(date)
           <=> MonthIndex(Preceding(c, date)) = MonthIndex(date)
  BY SearchInMonth
<1>3. ModifiedFollowing(c, date)
        = IF MonthIndex(Following(c, date)) = MonthIndex(date)
          THEN Following(c, date) ELSE Preceding(c, date)
  BY <1>2 DEF ModifiedFollowing
<1>4. ModifiedPreceding(c, date)
        = IF MonthIndex(Preceding(c, date)) # MonthIndex(date)
          THEN Following(c, date) ELSE Preceding(c, date)
  BY <1>2 DEF ModifiedPreceding
<1>5. Nearest(c, date)
        = IF Following(c, date) - date <= date - Preceding(c, date)
          THEN Following(c, date) ELSE Preceding(c, date)
  BY <1>1 DEF Nearest
<1>6. CASE convention = "UNADJUSTED"
  BY <1>6 DEF Adjust
<1>7. CASE convention = "FOLLOWING"
  BY <1>7 DEF Adjust, TakesNext
<1>8. CASE convention = "PRECEDING"
  BY <1>8 DEF Adjust, TakesNext
<1>9. CASE convention = "MODIFIED_FOLLOWING"
  BY <1>3, <1>9 DEF Adjust, TakesNext
<1>10. CASE convention = "MODIFIED_PRECEDING"
  BY <1>4, <1>10 DEF Adjust, TakesNext
<1>11. CASE convention = "NEAREST"
  BY <1>5, <1>11 DEF Adjust, TakesNext
<1>12. CASE convention = "END_OF_MONTH"
  BY <1>3, <1>12 DEF Adjust, TakesNext
<1> QED
  BY <1>6, <1>7, <1>8, <1>9, <1>10, <1>11, <1>12 DEF Convention

(* An adjusted date is open, adjusting it again changes nothing, and a     *)
(* modified convention does not leave the month.                           *)
LEMMA AdjustOpens ==
  ASSUME NEW c, IsCalendar(c), OpensMonthly(c), NEW date \in Int,
         NEW convention \in Convention
  PROVE  /\ Adjust(c, date, convention) \in Int
         /\ Preceding(c, date) <= Adjust(c, date, convention)
         /\ Adjust(c, date, convention) <= Following(c, date)
         /\ convention # "UNADJUSTED" => IsOpen(c, Adjust(c, date, convention))
<1>1. Following(c, date) \in Int /\ date <= Following(c, date)
      /\ IsOpen(c, Following(c, date))
  BY FollowingIsNext
<1>2. Preceding(c, date) \in Int /\ Preceding(c, date) <= date
      /\ IsOpen(c, Preceding(c, date))
  BY PrecedingIsLast
<1>3. \/ Adjust(c, date, convention) = Following(c, date)
      \/ Adjust(c, date, convention) = Preceding(c, date)
      \/ convention = "UNADJUSTED" /\ Adjust(c, date, convention) = date
  BY AdjustIs
<1> DEFINE a == Adjust(c, date, convention)
           f == Following(c, date)
           p == Preceding(c, date)
<1>4. a \in Int /\ p <= a /\ a <= f
  <2> HIDE DEF a, f, p
  <2> QED
    BY <1>1, <1>2, <1>3 DEF a, f, p
<1>5. convention # "UNADJUSTED" => IsOpen(c, a)
  BY <1>1, <1>2, <1>3
<1> QED
  BY <1>4, <1>5

LEMMA AdjustStays ==
  ASSUME NEW c, IsCalendar(c), OpensMonthly(c), NEW date \in Int,
         NEW convention \in Convention,
         IsOpen(c, date)
  PROVE  Adjust(c, date, convention) = date
<1>1. Following(c, date) = date /\ Preceding(c, date) = date
  BY OpenDayStays
<1> QED
  BY <1>1, AdjustIs

LEMMA AdjustTwice ==
  ASSUME NEW c, IsCalendar(c), OpensMonthly(c), NEW date \in Int,
         NEW convention \in Convention
  PROVE  Adjust(c, Adjust(c, date, convention), convention) = Adjust(c, date, convention)
<1>1. CASE convention = "UNADJUSTED"
  BY <1>1, AdjustIs
<1>2. CASE convention # "UNADJUSTED"
  BY <1>2, AdjustOpens, AdjustStays
<1> QED
  BY <1>1, <1>2

LEMMA AdjustInMonth ==
  ASSUME NEW c, IsCalendar(c), OpensMonthly(c), NEW date \in Int,
         NEW convention \in {"MODIFIED_FOLLOWING", "MODIFIED_PRECEDING", "END_OF_MONTH"}
  PROVE  /\ MonthIndex(Adjust(c, date, convention)) = MonthIndex(date)
         /\ Month(Adjust(c, date, convention)) = Month(date)
<1>1. convention \in Convention /\ convention # "UNADJUSTED"
  BY DEF Convention
<1>2. MonthIndex(Following(c, date)) = MonthIndex(date)
      \/ MonthIndex(Preceding(c, date)) = MonthIndex(date)
  BY SearchInMonth
<1>3. IsEndOfMonth(date) => MonthIndex(Preceding(c, date)) = MonthIndex(date)
  <2> SUFFICES ASSUME date = EndOfMonth(date), MonthIndex(Following(c,
      date)) = MonthIndex(date)
               PROVE  MonthIndex(Preceding(c, date)) = MonthIndex(date)
    BY <1>2 DEF IsEndOfMonth
  <2> DEFINE f == Following(c, date)
             i == MonthIndex(date)
  <2>1. f \in Int /\ date <= f /\ IsOpen(c, f)
    BY FollowingIsNext
  <2>2. f < MonthStart(i + 1)
    BY <2>1, DateInMonth
  <2>3. MonthStart(i + 1) \in Int /\ i \in Int
    <3>1. i \in Int
      BY DateInMonth
    <3> QED
      BY <3>1, MonthsInARow
  <2>4. date = MonthStart(i + 1) - 1
    BY EndOfMonthIs
  <2>5. f = date
    <3> HIDE DEF f, i
    <3> QED
      BY <2>1, <2>2, <2>3, <2>4
  <2>6. Preceding(c, date) = date
    BY <2>1, <2>5, OpenDayStays
  <2> QED
    BY <2>6
<1>4. MonthIndex(Adjust(c, date, convention)) = MonthIndex(date)
  <2>1. CASE convention = "MODIFIED_FOLLOWING"
    BY <1>1, <1>2, <2>1, AdjustIs DEF TakesNext
  <2>2. CASE convention = "MODIFIED_PRECEDING"
    BY <1>1, <1>2, <2>2, AdjustIs DEF TakesNext
  <2>3. CASE convention = "END_OF_MONTH"
    BY <1>1, <1>2, <1>3, <2>3, AdjustIs DEF TakesNext
  <2> QED
    BY <2>1, <2>2, <2>3
<1>5. Adjust(c, date, convention) \in Int
  BY <1>1, AdjustOpens
<1>6. Month(Adjust(c, date, convention)) = Month(date)
  BY <1>4, <1>5, DateInMonth
<1> QED
  BY <1>4, <1>6

(* Two dates keep their order.                                             *)
LEMMA AdjustAscends ==
  ASSUME NEW c, IsCalendar(c), OpensMonthly(c), NEW convention \in Convention,
         NEW d \in Int, NEW e \in Int, d <= e
  PROVE  Adjust(c, d, convention) <= Adjust(c, e, convention)
<1>1. CASE convention = "UNADJUSTED"
  BY <1>1, AdjustIs
<1>2. CASE Following(c, d) <= Preceding(c, e)
  <2>1. Adjust(c, d, convention) \in Int /\ Adjust(c, d, convention) <= Following(c, d)
    BY AdjustOpens
  <2>2. Adjust(c, e, convention) \in Int /\ Preceding(c, e) <= Adjust(c, e, convention)
    BY AdjustOpens
  <2>3. Following(c, d) \in Int /\ Preceding(c, e) \in Int
    BY FollowingIsNext, PrecedingIsLast
  <2> QED
    BY <1>2, <2>1, <2>2, <2>3
<1>3. CASE /\ convention # "UNADJUSTED"
           /\ Following(c, d) = Following(c, e) /\ Preceding(c, d) = Preceding(c, e)
           /\ e < Following(c, d)
  <2> DEFINE f == Following(c, d)
             p == Preceding(c, d)
  <2>1. f = Following(c, e) /\ p = Preceding(c, e) /\ e < f
    BY <1>3
  <2>2. f \in Int /\ p \in Int /\ p <= d
    BY FollowingIsNext, PrecedingIsLast
  <2>3. /\ MonthIndex(d) \in Int /\ MonthIndex(e) \in Int /\ MonthIndex(d) <= MonthIndex(e)
        /\ MonthIndex(f) \in Int /\ MonthIndex(e) <= MonthIndex(f)
        /\ MonthIndex(p) \in Int /\ MonthIndex(p) <= MonthIndex(d)
    BY <2>1, <2>2, MonthIndexAscends, DateInMonth
  <2> HIDE DEF f, p
  <2>4. IsEndOfMonth(e) => MonthIndex(f) # MonthIndex(e)
    <3> SUFFICES ASSUME e = EndOfMonth(e), MonthIndex(f) = MonthIndex(e) PROVE FALSE
      BY DEF IsEndOfMonth
    <3>1. e = MonthStart(MonthIndex(e) + 1) - 1 /\ MonthStart(MonthIndex(e) + 1) \in Int
      BY <2>3, EndOfMonthIs, MonthsInARow
    <3>2. f < MonthStart(MonthIndex(e) + 1)
      BY <2>2, DateInMonth
    <3> QED
      BY <2>1, <2>2, <3>1, <3>2
  <2>5. TakesNext(c, d, convention) => TakesNext(c, e, convention)
    <3>1. CASE convention = "FOLLOWING"
      BY <3>1 DEF TakesNext
    <3>2. CASE convention = "PRECEDING"
      BY <3>2 DEF TakesNext
    <3>3. CASE convention = "MODIFIED_FOLLOWING"
      BY <2>1, <2>3, <3>3 DEF TakesNext, f
    <3>4. CASE convention = "MODIFIED_PRECEDING"
      BY <2>1, <2>3, <3>4 DEF TakesNext, p
    <3>5. CASE convention = "NEAREST"
      <4>1. f - d <= d - p => f - e <= e - p
        BY <2>2
      <4>2. TakesNext(c, d, convention) => f - d <= d - p
        BY <3>5 DEF TakesNext, f, p
      <4>3. f - e <= e - p => TakesNext(c, e, convention)
        BY <2>1, <3>5 DEF TakesNext
      <4> QED
        BY <4>1, <4>2, <4>3
    <3>6. CASE convention = "END_OF_MONTH"
      BY <2>1, <2>3, <2>4, <3>6 DEF TakesNext, f
    <3> QED
      BY <1>3, <3>1, <3>2, <3>3, <3>4, <3>5, <3>6 DEF Convention
  <2>6. p <= f
    BY <2>1, <2>2
  <2>7. CASE TakesNext(c, e, convention)
    <3>1. Adjust(c, e, convention) = f
      BY <1>3, <2>1, <2>7, AdjustIs
    <3>2. Adjust(c, d, convention) \in Int /\ Adjust(c, d, convention) <= f
      BY AdjustOpens DEF f
    <3> QED
      BY <3>1, <3>2
  <2>8. CASE ~TakesNext(c, e, convention)
    <3>1. Adjust(c, e, convention) = p /\ Adjust(c, d, convention) = p
      BY <1>3, <2>1, <2>5, <2>8, AdjustIs DEF p
    <3> QED
      BY <2>2, <3>1
  <2> QED
    BY <2>7, <2>8
<1> QED
  BY <1>1, <1>2, <1>3, OpenOrClosedBetween

-----------------------------------------------------------------------------
(* Adding business days.                                                   *)
LEMMA CountOfOne ==
  ASSUME NEW c, NEW a \in Int, IsOpen(c, a)
  PROVE  Count(c, a, a + 1) = 1
<1>1. OpenDays(c, a .. (a + 1) - 1) = {a}
  BY DEF OpenDays
<1> QED
  BY <1>1, FS_Singleton DEF Count

LEMMA LagAhead ==
  ASSUME NEW c, IsCalendar(c), NEW date \in Int, NEW n \in Nat \ {0}
  PROVE  LET ahead == AddBusinessDays(c, date, n)
         IN  ahead \in Int /\ date < ahead /\ IsOpen(c, ahead)
         /\ Count(c, date + 1, ahead + 1) = n
<1> DEFINE ahead == AddBusinessDays(c, date, n)
<1>1. ahead \in Int /\ date < ahead /\ IsOpen(c, ahead)
      /\ Cardinality(OpenDays(c, date + 1 .. ahead)) = n
  BY DaysAhead
<1>2. (ahead + 1) - 1 = ahead
  BY <1>1
<1>3. Count(c, date + 1, ahead + 1) = n
  BY <1>1, <1>2 DEF Count
<1> QED
  BY <1>1, <1>3

LEMMA LagsAscend ==
  ASSUME NEW c, IsCalendar(c), NEW date \in Int, NEW n \in Nat
  PROVE  /\ AddBusinessDays(c, date, n) \in Int
         /\ AddBusinessDays(c, date, n) <= AddBusinessDays(c, date + 1, n)
<1>1. CASE n = 0
  <2>1. AddBusinessDays(c, date, n) = date /\ AddBusinessDays(c, date + 1, n) = date + 1
    BY <1>1 DEF AddBusinessDays
  <2> QED
    BY <2>1
<1>2. CASE n # 0
  <2> DEFINE a == AddBusinessDays(c, date, n)
             b == AddBusinessDays(c, date + 1, n)
  <2>1. n \in Nat \ {0} /\ date + 1 \in Int
    BY <1>2
  <2>2. a \in Int /\ date < a /\ IsOpen(c, a) /\ Count(c, date + 1, a + 1) = n
    BY <2>1, LagAhead
  <2>3. b \in Int /\ date + 1 < b /\ IsOpen(c, b) /\ Count(c, date + 1 + 1, b + 1) = n
    BY <2>1, LagAhead
  <2> HIDE DEF a, b
  <2>4. ASSUME b < a PROVE FALSE
    <3>1. Count(c, date + 1, a + 1) = Count(c, date + 1, date + 1 + 1) + Count(c,
          date + 1 + 1, a + 1)
      BY <2>2, <2>3, <2>4, CountsAdd
    <3>2. Count(c, date + 1 + 1, a + 1) = Count(c, date + 1 + 1, b + 1) + Count(c, b + 1,
          a + 1)
      BY <2>2, <2>3, <2>4, CountsAdd
    <3>3. Count(c, b + 1, a + 1) = Count(c, b + 1, a) + Count(c, a, a + 1)
      BY <2>2, <2>3, <2>4, CountsAdd
    <3>4. /\ Count(c, date + 1, date + 1 + 1) \in Nat /\ Count(c, b + 1, a) \in Nat
          /\ Count(c, a, a + 1) = 1
      BY <2>2, <2>3, CountType, CountOfOne
    <3> QED
      BY <2>2, <2>3, <3>1, <3>2, <3>3, <3>4
  <2>5. a <= b
    BY <2>2, <2>3, <2>4
  <2> QED
    BY <2>2, <2>5 DEF a, b
<1> QED
  BY <1>1, <1>2

(* Counting undoes adding.                                                 *)
LEMMA CountingUndoesAdding ==
  ASSUME NEW c, IsCalendar(c), NEW date \in Int, NEW n \in Int, n > 0 \/ IsOpen(c, date)
  PROVE  BusinessDaysBetween(c, date, AddBusinessDays(c, date, n)) = n
<1> DEFINE to == AddBusinessDays(c, date, n)
<1>1. CASE n > 0
  <2>1. n \in Nat \ {0}
    BY <1>1
  <2>2. to \in Int /\ date < to /\ Cardinality(OpenDays(c, date + 1 .. to)) = n
    BY <2>1, DaysAhead
  <2> HIDE DEF to
  <2>3. BusinessDaysBetween(c, date, to) = n
    BY <2>2 DEF BusinessDaysBetween, Interval
  <2> QED
    BY <2>3 DEF to
<1>2. CASE n = 0
  <2>1. to = date
    BY <1>2 DEF AddBusinessDays
  <2>2. OpenDays(c, Interval(date, date)) = {}
    BY DEF OpenDays, Interval
  <2>3. BusinessDaysBetween(c, date, date) = 0
    BY <2>2, FS_EmptySet DEF BusinessDaysBetween
  <2> QED
    BY <1>2, <2>1, <2>3
<1>3. CASE n < 0
  <2> DEFINE m == 0 - n
  <2>1. m \in Nat /\ m \in Nat \ {0} /\ 0 - m = n /\ IsOpen(c, date)
    BY <1>3
  <2> HIDE DEF m
  <2>2. /\ to \in Int /\ to <= date /\ IsOpen(c, to) /\ Count(c, to, date) = m
        /\ to < date
    BY <2>1, BackCounts, DaysBehind
  <2> HIDE DEF to
  <2>3. Count(c, to, date + 1) = Count(c, to, date) + Count(c, date, date + 1)
    BY <2>2, CountsAdd
  <2>4. Count(c, to, date + 1) = Count(c, to, to + 1) + Count(c, to + 1, date + 1)
    BY <2>2, CountsAdd
  <2>5. Count(c, date, date + 1) = 1 /\ Count(c, to, to + 1) = 1
        /\ Count(c, to + 1, date + 1) \in Nat
    BY <2>1, <2>2, CountOfOne, CountType
  <2>6. Count(c, to + 1, date + 1) = m
    BY <2>1, <2>2, <2>3, <2>4, <2>5
  <2>7. (date + 1) - 1 = date
    OBVIOUS
  <2>8. Cardinality(OpenDays(c, Interval(to, date))) = m
    BY <2>6, <2>7 DEF Count, Interval
  <2>9. BusinessDaysBetween(c, date, to) = 0 - m
    BY <2>2, <2>8 DEF BusinessDaysBetween
  <2> QED
    BY <2>1, <2>9 DEF to
<1> QED
  BY <1>1, <1>2, <1>3

(* A later trade does not settle earlier, and a lag in business days ends  *)
(* on an open day after the trade.                                         *)
LEMMA SettlesAscending ==
  ASSUME NEW c, IsCalendar(c), OpensMonthly(c), NEW rule \in SettlementRule, NEW d \in Int
  PROVE  /\ SettlementDate(c, rule, d) <= SettlementDate(c, rule, d + 1)
         /\ rule.business /\ rule.days > 0 =>
              SettlementDate(c, rule, d) > d /\ IsOpen(c, SettlementDate(c, rule, d))
<1> DEFINE base(e) == IF rule.business THEN AddBusinessDays(c, e,
    rule.days) ELSE e + rule.days
<1>1. rule.days \in 0 .. 2 /\ rule.business \in BOOLEAN /\ rule.adjustment \in Convention
  BY DEF SettlementRule, Convention
<1>2. \A e \in Int : SettlementDate(c, rule, e) = Adjust(c, base(e), rule.adjustment)
  BY DEF SettlementDate
<1>3. base(d) \in Int /\ base(d + 1) \in Int /\ base(d) <= base(d + 1)
  <2>1. CASE rule.business
    BY <1>1, <2>1, LagsAscend
  <2>2. CASE ~rule.business
    BY <1>1, <2>2
  <2> QED
    BY <2>1, <2>2
<1>4. ASSUME rule.business, rule.days > 0
      PROVE  base(d) > d /\ IsOpen(c, base(d))
  BY <1>1, <1>4, LagAhead
<1> HIDE DEF base
<1>5. Adjust(c, base(d), rule.adjustment) <= Adjust(c, base(d + 1), rule.adjustment)
  BY <1>1, <1>3, AdjustAscends
<1>6. ASSUME rule.business, rule.days > 0
      PROVE  Adjust(c, base(d), rule.adjustment) = base(d)
  BY <1>1, <1>3, <1>4, <1>6, AdjustStays
<1> QED
  BY <1>2, <1>4, <1>5, <1>6

-----------------------------------------------------------------------------
(* Moving by months.                                                       *)

(* The day a date of that day of the month is moved to in a month.         *)
DayIn(i, day) == IF day < IndexLength(i) THEN day ELSE IndexLength(i)

LEMMA DayOfDate ==
  ASSUME NEW date \in Int
  PROVE  /\ Day(date) \in Int /\ 1 <= Day(date)
            /\ Day(date) <= IndexLength(MonthIndex(date))
         /\ date = MonthStart(MonthIndex(date)) + Day(date) - 1
<1> DEFINE i == MonthIndex(date)
<1>1. /\ i \in Int /\ MonthStart(i) <= date /\ date < MonthStart(i + 1)
      /\ Day(date) = date - MonthStart(i) + 1
  BY DateInMonth
<1>2. /\ MonthStart(i) \in Int /\ IndexLength(i) \in Int
      /\ MonthStart(i + 1) = MonthStart(i) + IndexLength(i)
  BY <1>1, MonthsInARow
<1> HIDE DEF i
<1>3. /\ Day(date) \in Int /\ 1 <= Day(date) /\ Day(date) <= IndexLength(i)
      /\ date = MonthStart(i) + Day(date) - 1
  BY <1>1, <1>2
<1> QED
  BY <1>3 DEF i

LEMMA DateAt ==
  ASSUME NEW i \in Int, NEW day \in Int, 1 <= day, day <= IndexLength(i)
  PROVE  LET date == MonthStart(i) + day - 1
         IN  date \in Int /\ MonthIndex(date) = i /\ Day(date) = day
<1> DEFINE date == MonthStart(i) + day - 1
<1>1. /\ MonthStart(i) \in Int /\ IndexLength(i) \in Int
      /\ MonthStart(i + 1) = MonthStart(i) + IndexLength(i)
  BY MonthsInARow
<1>2. date \in Int /\ MonthStart(i) <= date /\ date < MonthStart(i + 1)
      /\ date - MonthStart(i) + 1 = day
  BY <1>1
<1> HIDE DEF date
<1>3. MonthIndex(date) = i
  BY <1>2, MonthOfDateIs
<1>4. Day(date) = day
  BY <1>2, <1>3, DateInMonth
<1> QED
  BY <1>2, <1>3, <1>4 DEF date

LEMMA MovedByMonths ==
  ASSUME NEW date \in Int, NEW n \in Int
  PROVE  /\ AddMonths(date, n) \in Int
         /\ MonthIndex(AddMonths(date, n)) = MonthIndex(date) + n
         /\ Day(AddMonths(date, n)) = DayIn(MonthIndex(date) + n, Day(date))
<1> DEFINE i == MonthIndex(date) + n
           day == DayIn(i, Day(date))
<1>1. MonthIndex(date) \in Int /\ i \in Int
  BY DateInMonth
<1>2. Day(date) \in Int /\ 1 <= Day(date)
  BY DayOfDate
<1>3. /\ IndexLength(i) \in Int /\ IndexLength(i) >= 28 /\ MonthStart(i) \in Int
      /\ i \div 12 \in Int /\ (i % 12) + 1 \in 1 .. 12
  BY <1>1, MonthsInARow
<1>4. day \in Int /\ 1 <= day /\ day <= IndexLength(i)
  <2> HIDE DEF i
  <2> QED
    BY <1>2, <1>3 DEF DayIn
<1>5. AddMonths(date, n) = FromYmd(i \div 12, (i % 12) + 1, day)
  <2>1. 12 * Year(date) + Month(date) - 1 + n = i
    BY DEF MonthIndex
  <2>2. AddMonths(date, n) = ClampedInMonth(i, Day(date))
    BY <2>1 DEF AddMonths
  <2> HIDE DEF i
  <2> QED
    BY <2>2 DEF ClampedInMonth, Clamped, DayIn, IndexLength
<1> HIDE DEF day
<1>6. AddMonths(date, n) = MonthStart(i) + day - 1
  <2> HIDE DEF i
  <2>1. /\ DaysBeforeYear(i \div 12) \in Int
           /\ DaysBeforeMonth(i \div 12, (i % 12) + 1) \in Int
    BY <1>3, YearLengths, DaysBeforeMonthType
  <2> QED
    BY <1>4, <1>5, <2>1 DEF MonthStart, FromYmd
<1> HIDE DEF i
<1>7. AddMonths(date, n) \in Int /\ MonthIndex(AddMonths(date, n)) = i
      /\ Day(AddMonths(date, n)) = day
  BY <1>1, <1>4, <1>6, DateAt
<1> QED
  BY <1>7 DEF i, day

(* A later month, or a later day of the same month.                        *)
LEMMA DatesInOrder ==
  ASSUME NEW d \in Int, NEW e \in Int
  PROVE  d <= e <=> \/ MonthIndex(d) < MonthIndex(e)
                    \/ MonthIndex(d) = MonthIndex(e) /\ Day(d) <= Day(e)
<1> DEFINE i == MonthIndex(d)
           j == MonthIndex(e)
<1>1. i \in Int /\ j \in Int /\ d < MonthStart(i + 1) /\ MonthStart(j) <= e
  BY DateInMonth
<1>2. /\ Day(d) \in Int /\ d = MonthStart(i) + Day(d) - 1
      /\ Day(e) \in Int /\ e = MonthStart(j) + Day(e) - 1
  BY DayOfDate
<1>3. MonthStart(i) \in Int /\ MonthStart(j) \in Int /\ MonthStart(i + 1) \in Int
  BY <1>1, MonthsInARow
<1>4. d <= e => i <= j
  BY MonthIndexAscends
<1>5. i < j => MonthStart(i + 1) <= MonthStart(j)
  BY <1>1, MonthsAscend
<1> HIDE DEF i, j
<1>6. CASE i = j
  <2>1. MonthStart(i) = MonthStart(j)
    BY <1>6
  <2>2. d <= e <=> Day(d) <= Day(e)
    BY <1>2, <1>3, <2>1
  <2> QED
    BY <1>1, <1>6, <2>2 DEF i, j
<1>7. CASE i < j
  <2>1. d <= e
    BY <1>1, <1>3, <1>5, <1>7
  <2> QED
    BY <1>7, <2>1 DEF i, j
<1>8. CASE j < i
  <2>1. ~(d <= e) /\ ~(i < j) /\ i # j
    BY <1>1, <1>4, <1>8
  <2> QED
    BY <2>1 DEF i, j
<1> QED
  BY <1>1, <1>6, <1>7, <1>8

LEMMA MonthEnd ==
  ASSUME NEW date \in Int
  PROVE  /\ EndOfMonth(date) \in Int
         /\ MonthIndex(EndOfMonth(date)) = MonthIndex(date)
         /\ Day(EndOfMonth(date)) = IndexLength(MonthIndex(date))
<1> DEFINE i == MonthIndex(date)
<1>1. i \in Int
  BY DateInMonth
<1>2. IndexLength(i) \in Int /\ IndexLength(i) >= 28 /\ MonthStart(i) \in Int
      /\ MonthStart(i + 1) = MonthStart(i) + IndexLength(i)
  BY <1>1, MonthsInARow
<1>3. EndOfMonth(date) = MonthStart(i) + IndexLength(i) - 1
  BY <1>2, EndOfMonthIs
<1>4. 1 <= IndexLength(i) /\ IndexLength(i) <= IndexLength(i)
  BY <1>2
<1> HIDE DEF i
<1>5. EndOfMonth(date) \in Int /\ MonthIndex(EndOfMonth(date)) = i
      /\ Day(EndOfMonth(date)) = IndexLength(i)
  BY <1>1, <1>2, <1>3, <1>4, DateAt
<1> QED
  BY <1>5 DEF i

LEMMA SameMonthSameDay ==
  ASSUME NEW d \in Int, NEW e \in Int, MonthIndex(d) = MonthIndex(e), Day(d) = Day(e)
  PROVE  d = e
<1>1. d = MonthStart(MonthIndex(d)) + Day(d) - 1
      /\ e = MonthStart(MonthIndex(e)) + Day(e) - 1
  BY DayOfDate
<1> QED
  BY <1>1

(* Moving dates by months keeps their order.                               *)
LEMMA MovesAscend ==
  ASSUME NEW d \in Int, NEW e \in Int, d <= e, NEW n \in Int
  PROVE  AddMonths(d, n) <= AddMonths(e, n) /\ EndOfMonth(d) <= EndOfMonth(e)
<1> DEFINE i == MonthIndex(d)
           j == MonthIndex(e)
           md == AddMonths(d, n)
           me == AddMonths(e, n)
<1>1. i \in Int /\ j \in Int
  BY DateInMonth
<1>2. /\ md \in Int /\ MonthIndex(md) = i + n /\ Day(md) = DayIn(i + n, Day(d))
      /\ me \in Int /\ MonthIndex(me) = j + n /\ Day(me) = DayIn(j + n, Day(e))
  BY MovedByMonths
<1>3. i < j \/ (i = j /\ Day(d) <= Day(e))
  BY DatesInOrder
<1>4. IndexLength(i + n) \in Int /\ Day(d) \in Int /\ Day(e) \in Int
  <2>1. i + n \in Int
    BY <1>1
  <2> QED
    BY <2>1, MonthsInARow, DayOfDate
<1>5. i <= j
  BY <1>1, <1>3
<1>6. EndOfMonth(d) <= EndOfMonth(e)
  <2>1. /\ EndOfMonth(d) \in Int /\ MonthIndex(EndOfMonth(d)) = i
        /\ Day(EndOfMonth(d)) = IndexLength(i)
    BY MonthEnd
  <2>2. /\ EndOfMonth(e) \in Int /\ MonthIndex(EndOfMonth(e)) = j
        /\ Day(EndOfMonth(e)) = IndexLength(j)
    BY MonthEnd
  <2>3. IndexLength(i) \in Int
    BY <1>1, MonthsInARow
  <2> HIDE DEF i, j
  <2>4. i < j \/ (i = j /\ IndexLength(i) <= IndexLength(j))
    BY <1>1, <1>5, <2>3
  <2> QED
    BY <2>1, <2>2, <2>4, DatesInOrder
<1> HIDE DEF i, j, md, me
<1>7. MonthIndex(md) < MonthIndex(me) \/ (MonthIndex(md) = MonthIndex(me)
      /\ Day(md) <= Day(me))
  <2>1. CASE i < j
    BY <1>1, <1>2, <2>1
  <2>2. CASE i = j /\ Day(d) <= Day(e)
    <3>1. DayIn(i + n, Day(d)) <= DayIn(i + n, Day(e))
      BY <1>4, <2>2 DEF DayIn
    <3> QED
      BY <1>2, <2>2, <3>1
  <2> QED
    BY <1>3, <2>1, <2>2
<1>8. md <= me
  BY <1>2, <1>7, DatesInOrder
<1> QED
  BY <1>6, <1>8 DEF md, me

-----------------------------------------------------------------------------
(* Sums over finite sets.                                                  *)
LEMMA NatInduct ==
  ASSUME NEW T \in SUBSET Nat, 0 \in T, \A n \in T : n + 1 \in T
  PROVE  \A n \in Nat : n \in T
<1> SUFFICES ASSUME Nat \ T # {}
             PROVE  FALSE
  OBVIOUS
<1>1. PICK m \in Nat \ T : \A k \in Nat \ T : m <= k
  BY LeastNat
<1>2. m - 1 \in Nat
  BY <1>1
<1>3. m - 1 \in T
  BY <1>1, <1>2
<1>4. (m - 1) + 1 \in T
  BY <1>3
<1> QED
  BY <1>1, <1>4

Pick(s) == CHOOSE x \in s : TRUE

SumStep(f, g, s) == IF s = {} THEN 0 ELSE f[Pick(s)] + g[s \ {Pick(s)}]

Adds(f, g, S) == g = [s \in SUBSET S |-> SumStep(f, g, s)]

LEMMA Picked ==
  ASSUME NEW s, s # {}, IsFiniteSet(s)
  PROVE  /\ Pick(s) \in s /\ IsFiniteSet(s \ {Pick(s)})
         /\ Cardinality(s \ {Pick(s)}) = Cardinality(s) - 1
         /\ Cardinality(s) \in Nat /\ Cardinality(s) > 0
<1>1. Pick(s) \in s
  BY DEF Pick
<1>2. Cardinality(s) \in Nat /\ Cardinality(s) # 0
  BY FS_CardinalityType, FS_EmptySet
<1> QED
  BY <1>1, <1>2, FS_RemoveElement

LEMMA SumExists ==
  ASSUME NEW f, NEW S, IsFiniteSet(S), \A x \in S : f[x] \in Int
  PROVE  \E g \in [SUBSET S -> Int] : Adds(f, g, S)
<1> DEFINE Small(n) == {s \in SUBSET S : Cardinality(s) <= n}
           T == {n \in Nat : \E g \in [Small(n) -> Int] : \A s \in Small(n) : g[s] = SumStep(f, g, s)}
<1>1. \A s \in SUBSET S : IsFiniteSet(s) /\ Cardinality(s) \in Nat
      /\ Cardinality(s) <= Cardinality(S)
  BY FS_Subset, FS_CardinalityType
<1>2. 0 \in T
  <2> DEFINE g == [s \in Small(0) |-> 0]
  <2>1. \A s \in Small(0) : s = {}
    BY <1>1, FS_EmptySet
  <2>2. \A s \in Small(0) : g[s] = SumStep(f, g, s)
    BY <2>1 DEF SumStep
  <2>3. g \in [Small(0) -> Int]
    OBVIOUS
  <2> QED
    BY <2>2, <2>3
<1>3. ASSUME NEW n \in T
      PROVE  n + 1 \in T
  <2>1. PICK g \in [Small(n) -> Int] : \A s \in Small(n) : g[s] = SumStep(f, g, s)
    OBVIOUS
  <2> DEFINE h == [s \in Small(n + 1) |-> SumStep(f, g, s)]
  <2>2. ASSUME NEW s \in Small(n + 1), s # {}
        PROVE  s \ {Pick(s)} \in Small(n) /\ s \ {Pick(s)} \in Small(n + 1) /\ Pick(s) \in S
    <3>1. s \in SUBSET S /\ Cardinality(s) <= n + 1 /\ IsFiniteSet(s) /\ n \in Nat
      BY <1>1
    <3>2. Pick(s) \in s /\ Cardinality(s \ {Pick(s)}) = Cardinality(s) - 1
          /\ Cardinality(s) \in Nat
      BY <2>2, <3>1, Picked
    <3> QED
      BY <3>1, <3>2
  <2>3. ASSUME NEW s \in Small(n + 1)
        PROVE  h[s] \in Int /\ h[s] = SumStep(f, h, s)
    <3>1. CASE s = {}
      BY <3>1 DEF SumStep
    <3>2. CASE s # {}
      <4>1. s \ {Pick(s)} \in Small(n) /\ s \ {Pick(s)} \in Small(n + 1) /\ Pick(s) \in S
        BY <2>2, <3>2
      <4> HIDE DEF Small
      <4>2. h[s] = f[Pick(s)] + g[s \ {Pick(s)}]
        BY <3>2 DEF SumStep
      <4>3. h[s \ {Pick(s)}] = g[s \ {Pick(s)}]
        BY <2>1, <4>1
      <4>4. g[s \ {Pick(s)}] \in Int /\ f[Pick(s)] \in Int
        BY <2>1, <4>1
      <4> HIDE DEF h
      <4> QED
        BY <3>2, <4>2, <4>3, <4>4 DEF SumStep
    <3> QED
      BY <3>1, <3>2
  <2>4. h \in [Small(n + 1) -> Int]
    BY <2>3
  <2> HIDE DEF h, Small
  <2>5. \E k \in [Small(n + 1) -> Int] : \A s \in Small(n + 1) : k[s] = SumStep(f, k, s)
    BY <2>3, <2>4
  <2>6. n + 1 \in Nat
    OBVIOUS
  <2> QED
    BY <2>5, <2>6
<1>4. Cardinality(S) \in T
  <2> HIDE DEF T
  <2>1. T \in SUBSET Nat
    BY DEF T
  <2> QED
    BY <1>2, <1>3, <2>1, NatInduct, FS_CardinalityType
<1>5. Small(Cardinality(S)) = SUBSET S
  BY <1>1
<1> DEFINE U == SUBSET S
<1>6. PICK g \in [U -> Int] : \A s \in U : g[s] = SumStep(f, g, s)
  <2> HIDE DEF Small, U
  <2>1. Small(Cardinality(S)) = U
    BY <1>5 DEF U
  <2>2. \E g \in [Small(Cardinality(S)) -> Int] :
          \A s \in Small(Cardinality(S)) : g[s] = SumStep(f, g, s)
    BY <1>4
  <2> QED
    BY <2>1, <2>2
<1>7. g = [s \in U |-> SumStep(f, g, s)]
  <2> HIDE DEF U
  <2> QED
    BY <1>6
<1> QED
  BY <1>6, <1>7 DEF Adds

(* A sum depends on its set and on the values there, on nothing else.      *)
LEMMA SumsAgree ==
  ASSUME NEW f, NEW e, NEW g, NEW h, NEW S, NEW R, Adds(f, g, S), Adds(e, h, R),
         NEW V \in SUBSET (S \cap R), IsFiniteSet(V), \A x \in V : f[x] = e[x]
  PROVE  g[V] = h[V]
<1> DEFINE T == {n \in Nat : \A s \in SUBSET V : Cardinality(s) = n => g[s] = h[s]}
<1>1. \A s \in SUBSET V : IsFiniteSet(s) /\ Cardinality(s) \in Nat
  BY FS_Subset, FS_CardinalityType
<1>2. ASSUME NEW s \in SUBSET V
      PROVE  g[s] = SumStep(f, g, s) /\ h[s] = SumStep(e, h, s)
  BY DEF Adds
<1>3. 0 \in T
  <2>1. \A s \in SUBSET V : Cardinality(s) = 0 => s = {}
    BY <1>1, FS_EmptySet
  <2> QED
    BY <1>2, <2>1 DEF SumStep
<1>4. ASSUME NEW n \in T
      PROVE  n + 1 \in T
  <2>1. ASSUME NEW s \in SUBSET V, Cardinality(s) = n + 1
        PROVE  g[s] = h[s]
    <3>1. s # {} /\ n \in Nat
      <4>1. n \in Nat
        OBVIOUS
      <4> HIDE DEF T
      <4> QED
        BY <2>1, <4>1, FS_EmptySet
    <3>2. Pick(s) \in s /\ Cardinality(s \ {Pick(s)}) = n
      BY <1>1, <2>1, <3>1, Picked
    <3>3. g[s \ {Pick(s)}] = h[s \ {Pick(s)}]
      <4>1. s \ {Pick(s)} \in SUBSET V
        OBVIOUS
      <4> QED
        BY <3>2, <4>1
    <3>4. f[Pick(s)] = e[Pick(s)]
      BY <3>2
    <3>5. SumStep(f, g, s) = f[Pick(s)] + g[s \ {Pick(s)}]
      BY <3>1 DEF SumStep
    <3>6. SumStep(e, h, s) = e[Pick(s)] + h[s \ {Pick(s)}]
      BY <3>1 DEF SumStep
    <3> QED
      BY <1>2, <3>3, <3>4, <3>5, <3>6
  <2> QED
    BY <2>1
<1>5. Cardinality(V) \in T
  <2> HIDE DEF T
  <2>1. T \in SUBSET Nat
    BY DEF T
  <2> QED
    BY <1>1, <1>3, <1>4, <2>1, NatInduct
<1> QED
  BY <1>5

LEMMA SumIs ==
  ASSUME NEW f, NEW S, IsFiniteSet(S), \A x \in S : f[x] \in Int
  PROVE  \E g \in [SUBSET S -> Int] : Adds(f, g, S) /\ SumFunctionOnSet(f, S) = g[S]
<1> DEFINE G(g) == g = [s \in SUBSET S |->
                          IF s = {} THEN 0
                          ELSE f[CHOOSE x \in s : TRUE] + g[s \ {CHOOSE x \in s : TRUE}]]
           g0 == CHOOSE g : G(g)
<1>1. SumFunctionOnSet(f, S) = g0[S]
  BY DEF SumFunctionOnSet, FoldFunctionOnSet, MapThenFoldSet
<1>2. PICK it \in [SUBSET S -> Int] : Adds(f, it, S)
  BY SumExists
<1>3. G(it)
  BY <1>2 DEF Adds, SumStep, Pick
<1>4. G(g0)
  <2> HIDE DEF G
  <2> QED
    BY <1>3
<1>5. Adds(f, g0, S)
  <2> HIDE DEF g0
  <2> QED
    BY <1>4 DEF Adds, SumStep, Pick
<1> HIDE DEF g0, G
<1>6. g0[S] = it[S]
  BY <1>2, <1>5, SumsAgree
<1> QED
  BY <1>1, <1>2, <1>6

(* A sum over a set with a member: that of one of them and of the rest.    *)
LEMMA SumPicks ==
  ASSUME NEW f, NEW S, IsFiniteSet(S), \A x \in S : f[x] \in Int
  PROVE  /\ SumFunctionOnSet(f, S) \in Int
         /\ S = {} => SumFunctionOnSet(f, S) = 0
         /\ S # {}
            => SumFunctionOnSet(f, S) = f[Pick(S)] + SumFunctionOnSet(f, S \ {Pick(S)})
<1>1. PICK g \in [SUBSET S -> Int] : Adds(f, g, S) /\ SumFunctionOnSet(f, S) = g[S]
  BY SumIs
<1>2. g[S] = SumStep(f, g, S) /\ g[S] \in Int
  BY <1>1 DEF Adds
<1>3. ASSUME S # {}
      PROVE  g[S \ {Pick(S)}] = SumFunctionOnSet(f, S \ {Pick(S)})
  <2> DEFINE R == S \ {Pick(S)}
  <2>1. IsFiniteSet(R) /\ R \subseteq S
    BY FS_RemoveElement
  <2> HIDE DEF R
  <2>2. PICK h \in [SUBSET R -> Int] : Adds(f, h, R) /\ SumFunctionOnSet(f, R) = h[R]
    BY <2>1, SumIs
  <2>3. g[R] = h[R]
    BY <1>1, <2>1, <2>2, SumsAgree
  <2> QED
    BY <2>2, <2>3 DEF R
<1> QED
  BY <1>1, <1>2, <1>3 DEF SumStep

LEMMA SumSame ==
  ASSUME NEW f, NEW e, NEW S, IsFiniteSet(S), \A x \in S : f[x] \in Int /\ e[x] = f[x]
  PROVE  SumFunctionOnSet(f, S) = SumFunctionOnSet(e, S)
<1>1. PICK g \in [SUBSET S -> Int] : Adds(f, g, S) /\ SumFunctionOnSet(f, S) = g[S]
  BY SumIs
<1>2. \A x \in S : e[x] \in Int
  OBVIOUS
<1>3. PICK h \in [SUBSET S -> Int] : Adds(e, h, S) /\ SumFunctionOnSet(e, S) = h[S]
  BY <1>2, SumIs
<1> QED
  BY <1>1, <1>3, SumsAgree

(* Any member may be taken out first.                                      *)
LEMMA SumWithout ==
  ASSUME NEW f, NEW S, IsFiniteSet(S), \A x \in S : f[x] \in Int, NEW y \in S
  PROVE  /\ SumFunctionOnSet(f, S) = f[y] + SumFunctionOnSet(f, S \ {y})
         /\ SumFunctionOnSet(f, S \ {y}) \in Int
<1> DEFINE T == {n \in Nat : \A s \in SUBSET S : Cardinality(s) = n =>
                   \A z \in s : SumFunctionOnSet(f, s) = f[z] + SumFunctionOnSet(f,
                   s \ {z})}
<1>1. \A s \in SUBSET S : IsFiniteSet(s) /\ Cardinality(s) \in Nat
  BY FS_Subset, FS_CardinalityType
<1>2. \A s \in SUBSET S : SumFunctionOnSet(f, s) \in Int
  BY <1>1, SumPicks
<1>3. 0 \in T
  <2>1. \A s \in SUBSET S : Cardinality(s) = 0 => s = {}
    BY <1>1, FS_EmptySet
  <2> QED
    BY <2>1
<1>4. ASSUME NEW n \in T
      PROVE  n + 1 \in T
  <2>1. ASSUME NEW s \in SUBSET S, Cardinality(s) = n + 1, NEW z \in s
        PROVE  SumFunctionOnSet(f, s) = f[z] + SumFunctionOnSet(f, s \ {z})
    <3> DEFINE p == Pick(s)
    <3>1. IsFiniteSet(s) /\ p \in s /\ n \in Nat
      <4>1. n \in Nat
        OBVIOUS
      <4> HIDE DEF T
      <4> QED
        BY <1>1, <2>1, <4>1, Picked
    <3>2. SumFunctionOnSet(f, s) = f[p] + SumFunctionOnSet(f, s \ {p})
      BY <3>1, SumPicks
    <3> HIDE DEF p
    <3>3. CASE p = z
      BY <3>2, <3>3
    <3>4. CASE p # z
      <4>1. /\ s \ {p} \in SUBSET S /\ Cardinality(s \ {p}) = n /\ z \in s \ {p}
            /\ s \ {z} \in SUBSET S /\ Cardinality(s \ {z}) = n /\ p \in s \ {z}
        <5> HIDE DEF T
        <5>0. /\ Cardinality(s \ {p}) = Cardinality(s) - 1
              /\ Cardinality(s \ {z}) = Cardinality(s) - 1
          BY <2>1, <3>1, FS_RemoveElement
        <5>1. Cardinality(s \ {p}) = n /\ Cardinality(s \ {z}) = n
          BY <2>1, <3>1, <5>0
        <5> QED
          BY <2>1, <3>1, <3>4, <5>1
      <4>2. SumFunctionOnSet(f, s \ {p}) = f[z] + SumFunctionOnSet(f, (s \ {p}) \ {z})
        BY <4>1
      <4>3. SumFunctionOnSet(f, s \ {z}) = f[p] + SumFunctionOnSet(f, (s \ {z}) \ {p})
        BY <4>1
      <4> DEFINE r == (s \ {z}) \ {p}
      <4>4. (s \ {p}) \ {z} = r /\ r \in SUBSET S
        OBVIOUS
      <4> HIDE DEF r, T
      <4>5. SumFunctionOnSet(f, s \ {p}) = f[z] + SumFunctionOnSet(f, r)
        BY <4>2, <4>4
      <4>6. SumFunctionOnSet(f, s \ {z}) = f[p] + SumFunctionOnSet(f, r)
        BY <4>3 DEF r
      <4>7. SumFunctionOnSet(f, r) \in Int /\ f[p] \in Int /\ f[z] \in Int
        BY <1>2, <4>4, <3>1
      <4> QED
        BY <3>2, <4>5, <4>6, <4>7
    <3> HIDE DEF T
    <3> QED
      BY <3>3, <3>4
  <2> QED
    BY <2>1
<1>5. Cardinality(S) \in T
  <2> HIDE DEF T
  <2>1. T \in SUBSET Nat
    BY DEF T
  <2> QED
    BY <1>1, <1>3, <1>4, <2>1, NatInduct
<1>6. S \ {y} \in SUBSET S
  OBVIOUS
<1> QED
  BY <1>2, <1>5, <1>6

LEMMA SumOfNone ==
  ASSUME NEW f
  PROVE  SumFunctionOnSet(f, {}) = 0
BY SumPicks, FS_EmptySet

LEMMA SumOfOne ==
  ASSUME NEW f, NEW x, f[x] \in Int
  PROVE  SumFunctionOnSet(f, {x}) = f[x]
<1>1. IsFiniteSet({x}) /\ {x} \ {x} = {}
  BY FS_Singleton
<1>2. SumFunctionOnSet(f, {x}) = f[x] + SumFunctionOnSet(f, {x} \ {x})
  BY <1>1, SumWithout
<1> QED
  BY <1>1, <1>2, SumOfNone

(* Where one value changes, the sum changes by as much.                    *)
LEMMA SumChanges ==
  ASSUME NEW f, NEW e, NEW S, IsFiniteSet(S), NEW y \in S,
         \A x \in S : f[x] \in Int /\ e[x] \in Int, \A x \in S \ {y} : e[x] = f[x]
  PROVE  SumFunctionOnSet(e, S) = SumFunctionOnSet(f, S) + (e[y] - f[y])
<1>1. /\ SumFunctionOnSet(f, S) = f[y] + SumFunctionOnSet(f, S \ {y})
      /\ SumFunctionOnSet(f, S \ {y}) \in Int
  BY SumWithout
<1>2. SumFunctionOnSet(e, S) = e[y] + SumFunctionOnSet(e, S \ {y})
  BY SumWithout
<1>3. IsFiniteSet(S \ {y})
  BY FS_RemoveElement
<1>4. SumFunctionOnSet(f, S \ {y}) = SumFunctionOnSet(e, S \ {y})
  BY <1>3, SumSame
<1> QED
  BY <1>1, <1>2, <1>4

LEMMA SumOfZeros ==
  ASSUME NEW f, NEW S, IsFiniteSet(S), \A x \in S : f[x] = 0
  PROVE  SumFunctionOnSet(f, S) = 0
<1> DEFINE T == {n \in Nat : \A s \in SUBSET S : Cardinality(s) = n
    => SumFunctionOnSet(f, s) = 0}
<1>1. \A s \in SUBSET S : IsFiniteSet(s) /\ Cardinality(s) \in Nat
  BY FS_Subset, FS_CardinalityType
<1>2. 0 \in T
  <2>1. \A s \in SUBSET S : Cardinality(s) = 0 => s = {}
    BY <1>1, FS_EmptySet
  <2> QED
    BY <2>1, SumOfNone
<1>3. ASSUME NEW n \in T
      PROVE  n + 1 \in T
  <2>0. n \in Nat /\ n + 1 \in Nat
    OBVIOUS
  <2>1. ASSUME NEW s \in SUBSET S, Cardinality(s) = n + 1
        PROVE  SumFunctionOnSet(f, s) = 0
    <3>1. s # {} /\ (\A x \in s : f[x] \in Int)
      <4> HIDE DEF T
      <4> QED
        BY <2>0, <2>1, FS_EmptySet
    <3>2. SumFunctionOnSet(f, s) = f[Pick(s)] + SumFunctionOnSet(f, s \ {Pick(s)})
      BY <1>1, <3>1, SumPicks
    <3>3. Pick(s) \in s /\ Cardinality(s \ {Pick(s)}) = Cardinality(s) - 1
      BY <1>1, <3>1, Picked
    <3>4. Cardinality(s \ {Pick(s)}) = n /\ s \ {Pick(s)} \in SUBSET S
      BY <2>0, <2>1, <3>3
    <3>5. SumFunctionOnSet(f, s \ {Pick(s)}) = 0
      BY <3>4
    <3> QED
      BY <3>2, <3>3, <3>5
  <2> QED
    BY <2>0, <2>1
<1>4. Cardinality(S) \in T
  <2> HIDE DEF T
  <2>1. T \in SUBSET Nat
    BY DEF T
  <2> QED
    BY <1>1, <1>2, <1>3, <2>1, NatInduct
<1> QED
  BY <1>4

(* Sums group by group, of the groups of a finite set.                     *)
LEMMA SumByGroups ==
  ASSUME NEW S, IsFiniteSet(S), NEW R, IsFiniteSet(R),
         NEW v, \A x \in S : v[x] \in Int, NEW g, \A x \in S : g[x] \in R
  PROVE  SumFunctionOnSet([r \in R |-> SumFunctionOnSet(v, {x \in S : g[x] = r})], R)
           = SumFunctionOnSet(v, S)
<1> DEFINE Part(s, r) == {x \in s : g[x] = r}
           Table(s) == [r \in R |-> SumFunctionOnSet(v, Part(s, r))]
           T == {n \in Nat : \A s \in SUBSET S : Cardinality(s) = n =>
                   SumFunctionOnSet(Table(s), R) = SumFunctionOnSet(v, s)}
<1>1. \A s \in SUBSET S : IsFiniteSet(s) /\ Cardinality(s) \in Nat
  BY FS_Subset, FS_CardinalityType
<1>2. \A s \in SUBSET S : SumFunctionOnSet(v, s) \in Int
  BY <1>1, SumPicks
<1>3. ASSUME NEW s \in SUBSET S, NEW r
      PROVE  Part(s, r) \in SUBSET S /\ IsFiniteSet(Part(s, r))
             /\ SumFunctionOnSet(v, Part(s, r)) \in Int
  <2>1. Part(s, r) \in SUBSET S
    OBVIOUS
  <2> HIDE DEF Part
  <2> QED
    BY <1>1, <1>2, <2>1
<1>4. 0 \in T
  <2>1. ASSUME NEW s \in SUBSET S, Cardinality(s) = 0
        PROVE  SumFunctionOnSet(Table(s), R) = SumFunctionOnSet(v, s)
    <3>1. s = {}
      BY <1>1, <2>1, FS_EmptySet
    <3>2. \A r \in R : Table(s)[r] = 0
      <4>1. \A r \in R : Part(s, r) = {}
        BY <3>1
      <4> HIDE DEF Part
      <4> QED
        BY <4>1, SumOfNone
    <3>3. SumFunctionOnSet(Table(s), R) = 0
      <4> HIDE DEF Table
      <4> QED
        BY <3>2, SumOfZeros
    <3> QED
      BY <3>1, <3>3, SumOfNone
  <2> QED
    BY <2>1
<1>5. ASSUME NEW n \in T
      PROVE  n + 1 \in T
  <2>0. n \in Nat /\ n + 1 \in Nat
    OBVIOUS
  <2>1. ASSUME NEW s \in SUBSET S, Cardinality(s) = n + 1
        PROVE  SumFunctionOnSet(Table(s), R) = SumFunctionOnSet(v, s)
    <3> DEFINE y == Pick(s)
               t == s \ {y}
    <3>1. y \in s /\ t \in SUBSET S /\ Cardinality(t) = n
      <4> HIDE DEF T
      <4>1. s # {}
        BY <2>0, <2>1, FS_EmptySet
      <4>2. Pick(s) \in s /\ Cardinality(s \ {Pick(s)}) = Cardinality(s) - 1
        BY <1>1, <4>1, Picked
      <4> QED
        BY <2>0, <2>1, <4>2
    <3>2. SumFunctionOnSet(Table(t), R) = SumFunctionOnSet(v, t)
      <4> HIDE DEF Table, y, t
      <4> QED
        BY <3>1
    <3> HIDE DEF y
    <3>3. ASSUME NEW r \in R, r # g[y]
          PROVE  Table(s)[r] = Table(t)[r]
      <4>1. Part(s, r) = Part(t, r)
        BY <3>3
      <4> HIDE DEF Part, t
      <4> QED
        BY <4>1
    <3>4. /\ g[y] \in R
          /\ Table(s)[g[y]] = v[y] + Table(t)[g[y]]
      <4>1. g[y] \in R
        BY <3>1
      <4>2. y \in Part(s, g[y]) /\ Part(s, g[y]) \ {y} = Part(t, g[y])
        BY <3>1
      <4>3. \A x \in Part(s, g[y]) : v[x] \in Int
        OBVIOUS
      <4> HIDE DEF Part, t
      <4>4. SumFunctionOnSet(v, Part(s, g[y])) = v[y] + SumFunctionOnSet(v, Part(t, g[y]))
        BY <1>3, <4>2, <4>3, SumWithout
      <4> QED
        BY <4>1, <4>4
    <3>5. \A r \in R : Table(s)[r] \in Int /\ Table(t)[r] \in Int
      <4> HIDE DEF Part, t
      <4> QED
        BY <1>3, <3>1
    <3>6. v[y] \in Int
      BY <3>1
    <3>7. SumFunctionOnSet(Table(s), R)
            = SumFunctionOnSet(Table(t), R) + (Table(s)[g[y]] - Table(t)[g[y]])
      <4> HIDE DEF Table, t
      <4> QED
        BY <3>3, <3>4, <3>5, SumChanges
    <3>8. SumFunctionOnSet(v, s) = v[y] + SumFunctionOnSet(v, t)
      BY <1>1, <3>1, SumWithout
    <3>9. SumFunctionOnSet(v, t) \in Int
      <4> HIDE DEF t
      <4> QED
        BY <1>2, <3>1
    <3> HIDE DEF Table, t
    <3> QED
      BY <3>2, <3>4, <3>5, <3>6, <3>7, <3>8, <3>9
  <2> HIDE DEF Table
  <2> QED
    BY <2>0, <2>1
<1>6. Cardinality(S) \in T
  <2> HIDE DEF T
  <2>1. T \in SUBSET Nat
    BY DEF T
  <2> QED
    BY <1>1, <1>4, <1>5, <2>1, NatInduct
<1> HIDE DEF Table
<1>7. SumFunctionOnSet(Table(S), R) = SumFunctionOnSet(v, S)
  BY <1>6
<1> QED
  BY <1>7 DEF Table

(* The members of a set and the others.                                    *)
LEMMA SumSplits ==
  ASSUME NEW S, IsFiniteSet(S), NEW v, \A x \in S : v[x] \in Int, NEW A \in SUBSET S
  PROVE  SumFunctionOnSet(v, S) = SumFunctionOnSet(v, A) + SumFunctionOnSet(v, S \ A)
<1> DEFINE R == {1, 2}
           g == [x \in S |-> IF x \in A THEN 1 ELSE 2]
           Table == [r \in R |-> SumFunctionOnSet(v, {x \in S : g[x] = r})]
<1>1. \A x \in S : g[x] \in R
  OBVIOUS
<1>2. {x \in S : g[x] = 1} = A /\ {x \in S : g[x] = 2} = S \ A
  OBVIOUS
<1>3. IsFiniteSet(R) /\ R \ {1} = {2}
  <2>1. R = {1} \cup {2} /\ R \ {1} = {2}
    OBVIOUS
  <2>2. IsFiniteSet({1} \cup {2})
    BY FS_AddElement, FS_Singleton
  <2> HIDE DEF R
  <2> QED
    BY <2>1, <2>2
<1>4. Table[1] = SumFunctionOnSet(v, A) /\ Table[2] = SumFunctionOnSet(v, S \ A)
  <2> HIDE DEF g
  <2> QED
    BY <1>2
<1>5. SumFunctionOnSet(v, A) \in Int /\ SumFunctionOnSet(v, S \ A) \in Int
  <2>1. IsFiniteSet(A) /\ IsFiniteSet(S \ A)
    BY FS_Subset
  <2> QED
    BY <2>1, SumPicks
<1>6. SumFunctionOnSet(Table, R) = SumFunctionOnSet(v, S)
  <2> HIDE DEF g, R
  <2> QED
    BY <1>1, <1>3, SumByGroups
<1>7. SumFunctionOnSet(Table, R) = Table[1] + Table[2]
  <2>0. 1 \in R /\ 2 \in R
    OBVIOUS
  <2>1. \A r \in R : Table[r] \in Int
    BY <1>4, <1>5
  <2>2. SumFunctionOnSet(Table, R) = Table[1] + SumFunctionOnSet(Table, R \ {1})
    <3> HIDE DEF R, Table
    <3> QED
      BY <1>3, <2>0, <2>1, SumWithout
  <2>3. SumFunctionOnSet(Table, {2}) = Table[2]
    <3> HIDE DEF R, Table
    <3> QED
      BY <2>0, <2>1, SumOfOne
  <2> HIDE DEF R, Table
  <2> QED
    BY <1>3, <2>2, <2>3
<1> HIDE DEF Table
<1> QED
  BY <1>4, <1>6, <1>7

-----------------------------------------------------------------------------
(* Day counts.                                                             *)
LEMMA Units ==
  /\ YearParts \div 360 = 4453 /\ YearParts \div 365 = 4392 /\ YearParts \div 366 = 4380
  /\ YearParts = 1603080
BY DEF YearParts

(* The day after a date is the next one of its month or the first of the   *)
(* next month.                                                             *)
LEMMA DayAfter ==
  ASSUME NEW date \in Int
  PROVE  IF IsEndOfMonth(date)
         THEN MonthIndex(date + 1) = MonthIndex(date) + 1 /\ Day(date + 1) = 1
         ELSE MonthIndex(date + 1) = MonthIndex(date) /\ Day(date + 1) = Day(date) + 1
<1> DEFINE i == MonthIndex(date)
<1>1. i \in Int /\ MonthStart(i) <= date /\ date < MonthStart(i + 1)
      /\ Day(date) = date - MonthStart(i) + 1 /\ i + 1 \in Int
  BY DateInMonth
<1>2. /\ IsEndOfMonth(date) <=> date = EndOfMonth(date)
      /\ EndOfMonth(date) = MonthStart(i + 1) - 1
  BY EndOfMonthIs DEF IsEndOfMonth
<1>3. MonthStart(i + 1) \in Int /\ MonthStart(i) \in Int /\ 1 <= IndexLength(i + 1)
  BY <1>1, MonthsInARow
<1>4. CASE IsEndOfMonth(date)
  <2>1. LET first == MonthStart(i + 1) + 1 - 1
        IN  MonthIndex(first) = i + 1 /\ Day(first) = 1
    BY <1>1, <1>3, DateAt
  <2>2. date + 1 = MonthStart(i + 1) + 1 - 1
    BY <1>2, <1>3, <1>4
  <2> QED
    BY <1>4, <2>1, <2>2
<1>5. CASE ~IsEndOfMonth(date)
  <2>1. date + 1 \in Int /\ MonthStart(i) <= date + 1 /\ date + 1 < MonthStart(i + 1)
    BY <1>1, <1>2, <1>3, <1>5
  <2>2. MonthIndex(date + 1) = i
    BY <1>1, <2>1, MonthOfDateIs
  <2>3. Day(date + 1) = (date + 1) - MonthStart(i) + 1
    BY <2>1, <2>2, DateInMonth
  <2> QED
    BY <1>1, <1>3, <1>5, <2>2, <2>3
<1> QED
  BY <1>4, <1>5

LEMMA DayFacts ==
  ASSUME NEW date \in Int
  PROVE  /\ MonthIndex(date) \in Int /\ Year(date) \in Int /\ Month(date) \in Int
         /\ Day(date) \in Int /\ 1 <= Day(date) /\ Day(date) <= 31
         /\ Day(date) = 31 => IsEndOfMonth(date)
         /\ IsEndOfMonth(date) <=> Day(date) = IndexLength(MonthIndex(date))
         /\ 360 * Year(date) + 30 * Month(date) = 30 * MonthIndex(date) + 30
<1> DEFINE i == MonthIndex(date)
<1>1. i \in Int /\ Year(date) \in Int /\ Month(date) \in Int
  BY DateInMonth
<1>2. Day(date) \in Int /\ 1 <= Day(date) /\ Day(date) <= IndexLength(i)
  BY DayOfDate
<1>3. IndexLength(i) \in Int /\ IndexLength(i) <= 31
  BY <1>1, MonthsInARow
<1>4. IsEndOfMonth(date) <=> Day(date) = IndexLength(i)
  BY MonthEnd, SameMonthSameDay DEF IsEndOfMonth
<1>5. 360 * Year(date) + 30 * Month(date) = 30 * MonthIndex(date) + 30
  BY <1>1 DEF MonthIndex
<1> QED
  BY <1>1, <1>2, <1>3, <1>4, <1>5

(* Rules with months of 30 days that look at each date alone give it a     *)
(* mark of its own, which never falls.                                     *)
DayOfThirty(convention, date) ==
  CASE convention = "THIRTY_360_E"      -> ToThirty(date)
    [] convention = "THIRTY_360_E_ISDA" -> MonthEndToThirty(date)
    [] convention = "THIRTY_360_GERMAN" -> GermanDay(date)

PlainThirty == {"THIRTY_360_E", "THIRTY_360_E_ISDA", "THIRTY_360_GERMAN"}

LEMMA DaysOfThirty ==
  ASSUME NEW convention \in PlainThirty, NEW date \in Int
  PROVE  /\ DayOfThirty(convention, date) \in 1 .. 30
         /\ ~IsEndOfMonth(date) =>
              DayOfThirty(convention, date) <= DayOfThirty(convention, date + 1)
<1>1. /\ Day(date) \in Int /\ 1 <= Day(date) /\ Day(date) <= 31
      /\ Day(date) = 31 => IsEndOfMonth(date)
  BY DayFacts
<1>2. ~IsEndOfMonth(date) => Day(date + 1) = Day(date) + 1
  BY DayAfter
<1>3. CASE convention = "THIRTY_360_E"
  BY <1>1, <1>2, <1>3 DEF DayOfThirty, ToThirty
<1>4. CASE convention = "THIRTY_360_E_ISDA"
  BY <1>1, <1>2, <1>4 DEF DayOfThirty, MonthEndToThirty, ToThirty
<1>5. CASE convention = "THIRTY_360_GERMAN"
  <2>1. /\ GermanDay(date) = 30 \/ (GermanDay(date) = Day(date) /\ Day(date) # 31)
        /\ ~IsEndOfMonth(date) => GermanDay(date) = Day(date)
    BY <1>1 DEF GermanDay, IsLastDayOfFeb
  <2>2. GermanDay(date + 1) = 30 \/ GermanDay(date + 1) = Day(date + 1)
    BY DEF GermanDay
  <2>3. DayOfThirty(convention, date) = GermanDay(date)
        /\ DayOfThirty(convention, date + 1) = GermanDay(date + 1)
    BY <1>5 DEF DayOfThirty
  <2> QED
    BY <1>1, <1>2, <2>1, <2>2, <2>3
<1> QED
  BY <1>3, <1>4, <1>5 DEF PlainThirty

ThirtyMark(convention, date) == 30 * MonthIndex(date) + DayOfThirty(convention, date)

LEMMA ThirtyMarksAscend ==
  ASSUME NEW convention \in PlainThirty, NEW date \in Int
  PROVE  /\ ThirtyMark(convention, date) \in Int
         /\ ThirtyMark(convention, date) <= ThirtyMark(convention, date + 1)
<1>1. MonthIndex(date) \in Int /\ date + 1 \in Int
  BY DayFacts
<1>2. DayOfThirty(convention, date) \in 1 .. 30
      /\ DayOfThirty(convention, date + 1) \in 1 .. 30
  BY DaysOfThirty
<1>3. CASE IsEndOfMonth(date)
  BY <1>1, <1>2, <1>3, DayAfter DEF ThirtyMark
<1>4. CASE ~IsEndOfMonth(date)
  BY <1>1, <1>2, <1>4, DayAfter, DaysOfThirty DEF ThirtyMark
<1> QED
  BY <1>1, <1>2, <1>3, <1>4 DEF ThirtyMark

LEMMA PlainThirtyParts ==
  ASSUME NEW convention \in PlainThirty, NEW frequency, NEW a \in Int, NEW b \in Int, a <= b
  PROVE  PartsForward(convention, frequency, a, b)
           = 4453 * (ThirtyMark(convention, b) - ThirtyMark(convention, a))
<1> DEFINE s == DayOfThirty(convention, a)
           t == DayOfThirty(convention, b)
           n == 30 * (MonthIndex(b) - MonthIndex(a)) + t - s
<1>0. s \in 1 .. 30 /\ t \in 1 .. 30
  BY DaysOfThirty
<1>1. s \in Int /\ t \in Int /\ MonthIndex(a) \in Int /\ MonthIndex(b) \in Int
  <2> HIDE DEF s, t
  <2> QED
    BY <1>0, DayFacts
<1>2. ThirtyDays(convention, a, b) = <<s, t>>
  BY DEF ThirtyDays, DayOfThirty, PlainThirty
<1>3. DaysThirty360(convention, a, b) = n
  <2>1. <<s, t>>[1] = s /\ <<s, t>>[2] = t
    OBVIOUS
  <2>2. DaysThirty360(convention, a, b)
          = 360 * (Year(b) - Year(a)) + 30 * (Month(b) - Month(a)) + t - s
    BY <1>2, <2>1 DEF DaysThirty360, DaysBetween
  <2> HIDE DEF s, t
  <2> QED
    BY <1>1, <2>2, DayFacts
<1>4. DayCount(convention, a, b) = n
  <2>1. IsThirty(convention)
    BY DEF IsThirty, PlainThirty
  <2>2. Sign(a, b) = 1 /\ Earlier(a, b) = a /\ Later(a, b) = b
    BY DEF Sign, Earlier, Later
  <2>3. DayCount(convention, a, b) = 1 * n
    BY <1>3, <2>1, <2>2 DEF DayCount
  <2> HIDE DEF s, t
  <2> QED
    BY <1>1, <2>3
<1>5. PartsForward(convention, frequency, a, b) = n * 4453
  BY <1>4, Units DEF PartsForward, PlainThirty
<1> HIDE DEF s, t
<1>6. n = ThirtyMark(convention, b) - ThirtyMark(convention, a)
  BY <1>1 DEF ThirtyMark, s, t
<1>7. n \in Int
  BY <1>1
<1> HIDE DEF n
<1> QED
  BY <1>5, <1>6, <1>7

(* From a date to the same date a year later rules with months of 30 days  *)
(* make a year, unless only one of the two ends February.                  *)
LEMMA YearLater ==
  ASSUME NEW date \in Int
  PROVE  LET later == AddYears(date, 1)
         IN  /\ later \in Int /\ date <= later
             /\ MonthIndex(later) = MonthIndex(date) + 12 /\ Month(later) = Month(date)
             /\ Day(later) = DayIn(MonthIndex(date) + 12, Day(date))
             /\ Day(later) = Day(date) \/ (IsLastDayOfFeb(date) /\ IsLastDayOfFeb(later))
<1> DEFINE later == AddYears(date, 1)
           i == MonthIndex(date)
<1>1. /\ i \in Int /\ Year(date) \in Int /\ Month(date) \in 1 .. 12
      /\ i \div 12 = Year(date) /\ (i % 12) + 1 = Month(date)
  BY DateInMonth
<1>2. later = AddMonths(date, 12)
  <2>1. 12 * Year(date) + Month(date) - 1 + 12 = 12 * (Year(date) + 1) + (Month(date) - 1)
    BY <1>1
  <2>2. LET j == 12 * (Year(date) + 1) + (Month(date) - 1)
        IN  j \div 12 = Year(date) + 1 /\ (j % 12) + 1 = Month(date)
    BY <1>1
  <2> QED
    BY <2>1, <2>2 DEF AddYears, AddMonths, ClampedInMonth
<1>3. /\ later \in Int /\ MonthIndex(later) = i + 12
      /\ Day(later) = DayIn(i + 12, Day(date))
  BY <1>2, MovedByMonths
<1>4. date <= later
  BY <1>1, <1>3, DatesInOrder
<1> HIDE DEF later
<1>5. /\ MonthIndex(later) \div 12 = Year(later)
         /\ (MonthIndex(later) % 12) + 1 = Month(later)
      /\ Year(later) \in Int /\ Month(later) \in 1 .. 12
  BY <1>3, DateInMonth
<1>6. Month(later) = Month(date) /\ Year(later) = Year(date) + 1
  BY <1>1, <1>3, <1>5
<1>7. /\ IndexLength(i) = MonthLength(Year(date), Month(date))
      /\ IndexLength(i + 12) = MonthLength(Year(date) + 1, Month(date))
  BY <1>1, <1>3, <1>5, <1>6 DEF IndexLength
<1>8. Day(date) \in Int /\ Day(date) <= IndexLength(i)
  BY DayOfDate
<1>9. ASSUME Month(date) # 2
      PROVE  Day(later) = Day(date)
  <2>1. IndexLength(i) = IndexLength(i + 12)
    BY <1>7, <1>9 DEF MonthLength
  <2>2. IndexLength(i) \in Int
    BY <1>1, MonthsInARow
  <2> QED
    BY <1>3, <1>8, <2>1, <2>2 DEF DayIn
<1>10. ASSUME Month(date) = 2
       PROVE  Day(later) = Day(date) \/ (IsLastDayOfFeb(date) /\ IsLastDayOfFeb(later))
  <2>1. IndexLength(i) \in {28, 29} /\ IndexLength(i + 12) \in {28, 29}
    BY <1>7, <1>10 DEF MonthLength
  <2>2. CASE Day(date) <= IndexLength(i + 12)
    BY <1>3, <1>8, <2>1, <2>2 DEF DayIn
  <2>3. CASE Day(date) > IndexLength(i + 12)
    <3>1. Day(date) = IndexLength(i) /\ Day(later) = IndexLength(i + 12)
      BY <1>3, <1>8, <2>1, <2>3 DEF DayIn
    <3>2. IsEndOfMonth(date) /\ IsEndOfMonth(later)
      BY <1>3, <3>1, DayFacts
    <3> QED
      BY <1>6, <1>10, <3>2 DEF IsLastDayOfFeb
  <2> QED
    BY <1>8, <2>1, <2>2, <2>3
<1> QED
  BY <1>3, <1>4, <1>6, <1>9, <1>10 DEF later

(* The 30/360 US rule changes the end of an interval by its start; the day *)
(* an end is given is its own, or the 30th on the last days of a month.    *)
LEMMA UsDaysAre ==
  ASSUME NEW a \in Int, NEW b \in Int
  PROVE  /\ UsDays(a, b)[1] \in Int
         /\ UsDays(a, b)[1] = IF IsLastDayOfFeb(a) \/ Day(a) = 31 THEN 30 ELSE Day(a)
         /\ UsDays(a, b)[2] \in Int /\ 1 <= UsDays(a, b)[2] /\ UsDays(a, b)[2] <= 31
         /\ UsDays(a, b)[2] \in {Day(b), 30}
         /\ ~IsEndOfMonth(b) => UsDays(a, b)[2] = Day(b)
         /\ (IsLastDayOfFeb(a) <=> IsLastDayOfFeb(b)) /\ (Day(a) = Day(b)
            \/ IsLastDayOfFeb(a))
              => UsDays(a, b)[2] = UsDays(a, b)[1]
<1> DEFINE from == IF IsLastDayOfFeb(a) THEN 30 ELSE Day(a)
           to == IF IsLastDayOfFeb(b) /\ from = 30 THEN 30 ELSE Day(b)
           m == IF from = 31 THEN 30 ELSE from
           n == IF to = 31 /\ from >= 30 THEN 30 ELSE to
<1>1. UsDays(a, b) = <<m, n>>
  BY DEF UsDays, UsPair
<1>2. UsDays(a, b)[1] = m /\ UsDays(a, b)[2] = n
  <2> HIDE DEF m, n
  <2> QED
    BY <1>1
<1>3. /\ Day(a) \in Int /\ 1 <= Day(a) /\ Day(a) <= 31
      /\ Day(b) \in Int /\ 1 <= Day(b) /\ Day(b) <= 31
      /\ Day(b) = 31 => IsEndOfMonth(b)
      /\ IsLastDayOfFeb(b) => IsEndOfMonth(b)
  BY DayFacts DEF IsLastDayOfFeb
<1>4. m \in Int /\ m = IF IsLastDayOfFeb(a) \/ Day(a) = 31 THEN 30 ELSE Day(a)
  BY <1>3
<1>5. n \in Int /\ 1 <= n /\ n <= 31 /\ n \in {Day(b), 30}
      /\ (~IsEndOfMonth(b) => n = Day(b))
  BY <1>3
<1>6. (IsLastDayOfFeb(a) <=> IsLastDayOfFeb(b)) /\ (Day(a) = Day(b) \/ IsLastDayOfFeb(a))
        => n = m
  BY <1>3
<1> HIDE DEF m, n
<1> QED
  BY <1>2, <1>4, <1>5, <1>6

LEMMA UsParts ==
  ASSUME NEW frequency, NEW a \in Int, NEW b \in Int, a <= b
  PROVE  PartsForward("THIRTY_360_US", frequency, a, b)
           = 4453 * (30 * (MonthIndex(b) - MonthIndex(a)) + UsDays(a, b)[2] - UsDays(a,
           b)[1])
<1> DEFINE s == UsDays(a, b)[1]
           t == UsDays(a, b)[2]
           n == 30 * (MonthIndex(b) - MonthIndex(a)) + t - s
<1>1. s \in Int /\ t \in Int
  BY UsDaysAre
<1> HIDE DEF s, t
<1>2. MonthIndex(a) \in Int /\ MonthIndex(b) \in Int
  BY DayFacts
<1>3. DaysThirty360("THIRTY_360_US", a, b) = n
  <2>1. ThirtyDays("THIRTY_360_US", a, b) = UsDays(a, b)
    BY DEF ThirtyDays
  <2>2. DaysThirty360("THIRTY_360_US", a, b)
          = 360 * (Year(b) - Year(a)) + 30 * (Month(b) - Month(a)) + t - s
    BY <2>1 DEF DaysThirty360, DaysBetween, s, t
  <2> QED
    BY <1>1, <1>2, <2>2, DayFacts
<1>4. DayCount("THIRTY_360_US", a, b) = n
  <2>1. IsThirty("THIRTY_360_US")
    BY DEF IsThirty
  <2>2. Sign(a, b) = 1 /\ Earlier(a, b) = a /\ Later(a, b) = b
    BY DEF Sign, Earlier, Later
  <2>3. DayCount("THIRTY_360_US", a, b) = 1 * n
    BY <1>3, <2>1, <2>2 DEF DayCount
  <2> QED
    BY <1>1, <1>2, <2>3
<1>5. PartsForward("THIRTY_360_US", frequency, a, b) = n * 4453
  BY <1>4, Units DEF PartsForward
<1>6. n \in Int
  BY <1>1, <1>2
<1>7. PartsForward("THIRTY_360_US", frequency, a, b) = 4453 * n
  <2> HIDE DEF n
  <2> QED
    BY <1>5, <1>6
<1> QED
  BY <1>7 DEF s, t

LEMMA UsAscends ==
  ASSUME NEW frequency, NEW a \in Int, NEW b \in Int, a <= b
  PROVE  /\ PartsForward("THIRTY_360_US", frequency, a, b) \in Int
         /\ PartsForward("THIRTY_360_US", frequency, a, b)
              <= PartsForward("THIRTY_360_US", frequency, a, b + 1)
         /\ PartsForward("THIRTY_360_US", frequency, a, a) = 0
<1> DEFINE s == UsDays(a, b)[1]
           t == UsDays(a, b)[2]
           u == UsDays(a, b + 1)[2]
           i == MonthIndex(a)
           j == MonthIndex(b)
           k == MonthIndex(b + 1)
<1>1. /\ i \in Int /\ j \in Int /\ k \in Int
      /\ Day(b) \in Int /\ Day(b) <= 31 /\ (Day(b) = 31 => IsEndOfMonth(b)) /\ b + 1 \in Int
  BY DayFacts
<1>2. /\ s \in Int /\ t \in Int /\ t <= 31 /\ (~IsEndOfMonth(b) => t = Day(b))
      /\ UsDays(a, b + 1)[1] = s
      /\ u \in Int /\ 1 <= u /\ u \in {Day(b + 1), 30}
  <2>1. s \in Int
    BY UsDaysAre
  <2> QED
    BY <1>1, <2>1, UsDaysAre
<1>3. /\ PartsForward("THIRTY_360_US", frequency, a, b) = 4453 * (30 * (j - i) + t - s)
      /\ PartsForward("THIRTY_360_US", frequency, a, b + 1) = 4453 * (30 * (k - i) + u - s)
  BY <1>1, <1>2, UsParts
<1>4. PartsForward("THIRTY_360_US", frequency, a, a)
        = 4453 * (30 * (i - i) + UsDays(a, a)[2] - UsDays(a, a)[1])
      /\ UsDays(a, a)[2] = UsDays(a, a)[1] /\ UsDays(a, a)[2] \in Int
  BY UsParts, UsDaysAre
<1>5. IF IsEndOfMonth(b) THEN k = j + 1 ELSE k = j /\ Day(b + 1) = Day(b) + 1
  BY DayAfter
<1> HIDE DEF s, t, u, i, j, k
<1>6. 30 * (j - i) + t - s <= 30 * (k - i) + u - s
  BY <1>1, <1>2, <1>5
<1> QED
  BY <1>1, <1>2, <1>3, <1>4, <1>6

(* A sum over numbers in a row of the steps from mark to mark.             *)
LEMMA SumTelescopes ==
  ASSUME NEW g, NEW mark, NEW a \in Int, NEW n \in Nat,
         \A y \in a .. a + n : g[y] = mark[y + 1] - mark[y],
         \A y \in a .. a + n + 1 : mark[y] \in Int
  PROVE  SumFunctionOnSet(g, a .. a + n) = mark[a + n + 1] - mark[a]
<1> DEFINE T == {k \in Nat : k <= n =>
                   SumFunctionOnSet(g, a .. a + k) = mark[a + k + 1] - mark[a]}
<1>1. \A y \in a .. a + n : g[y] \in Int
  <2>1. \A y \in a .. a + n : y \in a .. a + n + 1 /\ y + 1 \in a .. a + n + 1
    OBVIOUS
  <2> QED
    BY <2>1
<1>2. 0 \in T
  <2>1. a .. a + 0 = {a} /\ a \in a .. a + n /\ a + 0 + 1 = a + 1
    OBVIOUS
  <2>2. SumFunctionOnSet(g, {a}) = g[a]
    BY <1>1, <2>1, SumOfOne
  <2> QED
    BY <2>1, <2>2
<1>3. ASSUME NEW k \in T
      PROVE  k + 1 \in T
  <2>0. k \in Nat /\ k + 1 \in Nat
    OBVIOUS
  <2> SUFFICES ASSUME k + 1 <= n
               PROVE  SumFunctionOnSet(g,
                      a .. a + (k + 1)) = mark[a + (k + 1) + 1] - mark[a]
    BY <2>0
  <2> DEFINE m == a + (k + 1)
             rest == a .. a + k
  <2>1. SumFunctionOnSet(g, rest) = mark[a + k + 1] - mark[a]
    BY <2>0
  <2> HIDE DEF T
  <2>2. /\ (a .. m) \ {m} = rest /\ m \in a .. m /\ m \in a .. a + n /\ m = a + k + 1
        /\ \A y \in a .. m : y \in a .. a + n
        /\ m \in a .. a + n + 1 /\ m + 1 \in a .. a + n + 1 /\ a \in a .. a + n + 1
    BY <2>0
  <2>3. IsFiniteSet(a .. m)
    BY <2>0, FS_Interval
  <2> HIDE DEF m, rest
  <2>4. SumFunctionOnSet(g, a .. m) = g[m] + SumFunctionOnSet(g, (a .. m) \ {m})
    <3>1. \A y \in a .. m : g[y] \in Int
      BY <1>1, <2>2
    <3> DEFINE S == a .. m
    <3>2. IsFiniteSet(S) /\ m \in S /\ \A y \in S : g[y] \in Int
      BY <2>2, <2>3, <3>1
    <3> HIDE DEF S
    <3>3. SumFunctionOnSet(g, S) = g[m] + SumFunctionOnSet(g, S \ {m})
      BY <3>2, SumWithout
    <3> QED
      BY <3>3 DEF S
  <2>5. g[m] = mark[m + 1] - mark[m] /\ mark[m + 1] \in Int /\ mark[m] \in Int
        /\ mark[a] \in Int
    BY <2>2
  <2>6. SumFunctionOnSet(g, a .. m) = g[m] + SumFunctionOnSet(g, rest)
    BY <2>2, <2>4, Zenon
  <2>7. SumFunctionOnSet(g, rest) = mark[m] - mark[a]
    BY <2>1, <2>2
  <2>8. SumFunctionOnSet(g, a .. m) = mark[m + 1] - mark[a]
    BY <2>5, <2>6, <2>7
  <2> QED
    BY <2>8 DEF m
<1>4. n \in T
  <2> HIDE DEF T
  <2>1. T \in SUBSET Nat
    BY DEF T
  <2> QED
    BY <1>2, <1>3, <2>1, NatInduct
<1> QED
  BY <1>4

(* A year has as many parts whether it is leap or not.                     *)
LEMMA YearInParts ==
  ASSUME NEW y \in Int
  PROVE  /\ DayParts(y) \in Int /\ DayParts(y) > 0 /\ DaysBeforeYear(y) \in Int
         /\ (DaysBeforeYear(y + 1) - DaysBeforeYear(y)) * DayParts(y) = YearParts
<1>1. DayParts(y) = IF IsLeap(y) THEN 4380 ELSE 4392
  BY Units DEF DayParts
<1>2. CASE IsLeap(y)
  BY <1>1, <1>2, YearLengths, Units
<1>3. CASE ~IsLeap(y)
  BY <1>1, <1>3, YearLengths, Units
<1> QED
  BY <1>2, <1>3

(* ACT/ACT ISDA: the mark of a date is the years before it and its own     *)
(* days; the years between two dates telescope to the difference.          *)
IsdaMark(date) ==
  YearParts * Year(date) + (date - DaysBeforeYear(Year(date))) * DayParts(Year(date))

LEMMA IsdaMarkIs ==
  ASSUME NEW date \in Int
  PROVE  /\ IsdaMark(date) \in Int
         /\ Year(date) \in Int
         /\ DaysBeforeYear(Year(date)) < date /\ date <= DaysBeforeYear(Year(date) + 1)
BY YearOfDate, YearInParts, Units DEF IsdaMark

LEMMA IsdaMarksAscend ==
  ASSUME NEW date \in Int
  PROVE  IsdaMark(date) <= IsdaMark(date + 1)
<1> DEFINE y == Year(date)
           z == Year(date + 1)
           p == DaysBeforeYear(y)
           q == DaysBeforeYear(y + 1)
           u == DayParts(y)
           v == DayParts(y + 1)
<1>1. /\ y \in Int /\ p < date /\ date <= q /\ y + 1 \in Int /\ date + 1 \in Int
  BY YearOfDate
<1>2. /\ p \in Int /\ q \in Int /\ u \in Int /\ u > 0 /\ v \in Int /\ v > 0
      /\ (q - p) * u = YearParts
  BY <1>1, YearInParts
<1>3. CASE date < q
  <2>1. z = y
    BY <1>1, <1>2, <1>3, YearOfDateIs
  <2>2. /\ IsdaMark(date) = YearParts * y + (date - p) * u
        /\ IsdaMark(date + 1) = YearParts * y + ((date + 1) - p) * u
    <3>1. IsdaMark(date) = YearParts * y + (date - p) * u
      BY DEF IsdaMark
    <3>2. IsdaMark(date + 1)
            = YearParts * z + ((date + 1) - DaysBeforeYear(z)) * DayParts(z)
      BY DEF IsdaMark
    <3> HIDE DEF z
    <3> QED
      BY <2>1, <3>1, <3>2
  <2> HIDE DEF y, p, u
  <2>3. ((date + 1) - p) * u = (date - p) * u + u /\ (date - p) * u \in Int
    BY <1>1, <1>2
  <2>4. YearParts * y \in Int
    BY <1>1, Units
  <2> QED
    BY <1>2, <2>2, <2>3, <2>4
<1>4. CASE date = q
  <2>1. q < date + 1 /\ date + 1 <= DaysBeforeYear(y + 1 + 1)
    BY <1>1, <1>2, <1>4, YearLengths
  <2>2. z = y + 1
    BY <1>1, <2>1, YearOfDateIs
  <2>3. /\ IsdaMark(date) = YearParts * y + (q - p) * u
        /\ IsdaMark(date + 1) = YearParts * (y + 1) + ((q + 1) - q) * v
    BY <1>4, <2>2 DEF IsdaMark
  <2> HIDE DEF y, p, q, u, v
  <2>4. YearParts * (y + 1) = YearParts * y + YearParts /\ YearParts * y \in Int
        /\ YearParts \in Int
    BY <1>1, Units
  <2>5. ((q + 1) - q) * v = v
    BY <1>2
  <2> QED
    BY <1>2, <2>3, <2>4, <2>5
<1>5. date < q \/ date = q
  <2> HIDE DEF q
  <2> QED
    BY <1>1, <1>2
<1> QED
  BY <1>3, <1>4, <1>5

LEMMA IsdaTelescopes ==
  ASSUME NEW s \in Int, NEW e \in Int, s <= e
  PROVE  IsdaParts(s, e) = IsdaMark(e) - IsdaMark(s)
<1> DEFINE a == Year(s)
           b == Year(e)
           g == [y \in a .. b |-> DaysIn(y, s, e) * DayParts(y)]
           mark == [y \in a .. b + 1 |-> IF y = a THEN IsdaMark(s)
                                         ELSE IF y = b + 1 THEN IsdaMark(e)
                                         ELSE YearParts * y]
<1>1. /\ a \in Int /\ DaysBeforeYear(a) < s /\ s <= DaysBeforeYear(a + 1)
      /\ b \in Int /\ DaysBeforeYear(b) < e /\ e <= DaysBeforeYear(b + 1)
      /\ IsdaMark(s) \in Int /\ IsdaMark(e) \in Int
  BY IsdaMarkIs
<1>2. a <= b
  <2>1. DaysBeforeYear(a) \in Int /\ DaysBeforeYear(b + 1) \in Int
    BY <1>1, YearLengths
  <2>2. ~ b + 1 <= a
    BY <1>1, <2>1, YearsAscend
  <2> QED
    BY <1>1, <2>2
<1>3. \A y \in a .. b + 1 : mark[y] \in Int
  BY <1>1, Units
<1>4. ASSUME NEW y \in a .. b
      PROVE  g[y] = mark[y + 1] - mark[y]
  <2> DEFINE p == DaysBeforeYear(y)
             q == DaysBeforeYear(y + 1)
             u == DayParts(y)
             Y == YearParts * y
             x == IF y = a THEN s ELSE p
             z == IF y = b THEN e ELSE q
  <2>1. /\ y \in Int /\ p \in Int /\ q \in Int /\ u \in Int /\ (q - p) * u = YearParts
        /\ y + 1 \in a .. b + 1 /\ y \in a .. b + 1 /\ y + 1 # a /\ y # b + 1
        /\ (y + 1 = b + 1 <=> y = b)
    <3>1. /\ y \in Int /\ y + 1 \in a .. b + 1 /\ y \in a .. b + 1 /\ y + 1 # a /\ y # b + 1
          /\ (y + 1 = b + 1 <=> y = b)
      <4> HIDE DEF a, b
      <4> QED
        BY <1>1
    <3> QED
      BY <3>1, YearInParts
  <2>2. Later(s, p) = x
    <3>1. y # a => s <= p
      <4>1. y # a => a + 1 <= y
        <5> HIDE DEF a, b
        <5> QED
          BY <1>1
      <4>2. DaysBeforeYear(a + 1) \in Int
        BY <1>1, YearLengths
      <4> QED
        BY <1>1, <2>1, <4>1, <4>2, YearsAscend
    <3>2. y = a => p < s
      BY <1>1
    <3> HIDE DEF a, b, p
    <3> QED
      BY <1>1, <2>1, <3>1, <3>2 DEF Later
  <2>3. Earlier(e, q) = z
    <3>1. y # b => q < e
      <4>1. y # b => y + 1 <= b
        <5> HIDE DEF a, b
        <5> QED
          BY <1>1
      <4>2. DaysBeforeYear(b) \in Int
        BY <1>1, YearLengths
      <4> QED
        BY <1>1, <2>1, <4>1, <4>2, YearsAscend
    <3>2. y = b => e <= q
      BY <1>1
    <3> HIDE DEF a, b, q
    <3> QED
      BY <1>1, <2>1, <3>1, <3>2 DEF Earlier
  <2>4. g[y] = (z - x) * u
    BY <2>2, <2>3 DEF DaysIn
  <2>5. mark[y] = Y + (x - p) * u
    <3>1. CASE y = a
      BY <2>1, <3>1 DEF IsdaMark
    <3>2. CASE y # a
      <4>1. mark[y] = Y
        BY <2>1, <3>2
      <4>2. (p - p) * u = 0 /\ Y \in Int
        BY <2>1, Units
      <4> HIDE DEF Y, p, u
      <4> QED
        BY <3>2, <4>1, <4>2
    <3> QED
      BY <3>1, <3>2
  <2>6. mark[y + 1] = Y + (z - p) * u
    <3>1. CASE y = b
      BY <2>1, <3>1 DEF IsdaMark
    <3>2. CASE y # b
      <4>1. mark[y + 1] = YearParts * (y + 1)
        BY <2>1, <3>2
      <4>2. YearParts * (y + 1) = Y + YearParts
        BY <2>1, Units
      <4> HIDE DEF mark, Y, p, q, u
      <4> QED
        BY <2>1, <3>2, <4>1, <4>2
    <3> QED
      BY <3>1, <3>2
  <2>7. x \in Int /\ z \in Int /\ Y \in Int
    BY <2>1, Units
  <2> HIDE DEF g, mark, x, z, Y, p, u
  <2>8. (z - x) * u = (z - p) * u - (x - p) * u /\ (z - p) * u \in Int
        /\ (x - p) * u \in Int
    BY <2>1, <2>7
  <2> QED
    BY <2>4, <2>5, <2>6, <2>7, <2>8
<1>5. SumFunctionOnSet(g, a .. b) = mark[b + 1] - mark[a]
  <2> DEFINE n == b - a
  <2>1. n \in Nat /\ a + n = b /\ a + n + 1 = b + 1
    BY <1>1, <1>2
  <2> HIDE DEF n, g, mark, a, b
  <2>2. SumFunctionOnSet(g, a .. a + n) = mark[a + n + 1] - mark[a]
    BY <1>1, <1>3, <1>4, <2>1, SumTelescopes
  <2> QED
    BY <2>1, <2>2
<1>6. mark[a] = IsdaMark(s) /\ mark[b + 1] = IsdaMark(e)
  BY <1>1, <1>2
<1>7. IsdaParts(s, e) = SumFunctionOnSet(g, a .. b)
  <2>1. DOMAIN g = a .. b
    OBVIOUS
  <2> QED
    BY <2>1 DEF IsdaParts, SumFunction
<1> QED
  BY <1>5, <1>6, <1>7

LEMMA YearsOfDates ==
  ASSUME NEW d \in Int, NEW e \in Int
  PROVE  /\ Year(d) \in Int /\ Year(e) \in Int
         /\ d <= e => Year(d) <= Year(e)
<1>1. /\ Year(d) \in Int /\ DaysBeforeYear(Year(d)) < d
      /\ Year(e) \in Int /\ e <= DaysBeforeYear(Year(e) + 1)
  BY YearOfDate
<1>2. DaysBeforeYear(Year(d)) \in Int /\ DaysBeforeYear(Year(e) + 1) \in Int
  BY <1>1, YearLengths
<1>3. d <= e => ~ Year(e) + 1 <= Year(d)
  BY <1>1, <1>2, YearsAscend
<1> QED
  BY <1>1, <1>3

(* ACT/365L does not fall as long as a year has not passed 29 February a   *)
(* second time.                                                            *)
LEMMA LeapPartsAre ==
  ASSUME NEW s \in Int, NEW e \in Int, s <= e
  PROVE  /\ LeapParts(s, e) \in Int
         /\ LeapParts(s, e) = (e - s) * (IF IncludesFeb29(s, e) THEN 4380 ELSE 4392)
         /\ IncludesFeb29(s, e) => IncludesFeb29(s, e + 1)
<1>1. LeapParts(s, e) = (e - s) * (IF IncludesFeb29(s, e) THEN 4380 ELSE 4392)
  BY Units DEF LeapParts
<1>2. ASSUME NEW y \in Year(s) .. Year(e)
      PROVE  y \in Year(s) .. Year(e + 1)
  <2>1. Year(s) \in Int /\ Year(e) \in Int /\ Year(e + 1) \in Int /\ Year(e) <= Year(e + 1)
    BY YearsOfDates
  <2> QED
    BY <2>1
<1>3. \A d : d \in Interval(s, e) => d \in Interval(s, e + 1)
  BY DEF Interval
<1>4. IncludesFeb29(s, e) => IncludesFeb29(s, e + 1)
  BY <1>2, <1>3 DEF IncludesFeb29
<1> QED
  BY <1>1, <1>4

LEMMA LeapPartsAscend ==
  ASSUME NEW s \in Int, NEW e \in Int, s <= e
  PROVE  /\ LeapParts(s, e) \in Int /\ LeapParts(s, s) = 0
         /\ e - s < 366 => LeapParts(s, e) <= LeapParts(s, e + 1)
            /\ LeapParts(s, e) <= YearParts
<1>1. /\ LeapParts(s, e) = (e - s) * (IF IncludesFeb29(s, e) THEN 4380 ELSE 4392)
      /\ IncludesFeb29(s, e) => IncludesFeb29(s, e + 1)
  BY LeapPartsAre
<1>2. LeapParts(s, e + 1) = ((e + 1) - s) * (IF IncludesFeb29(s, e + 1) THEN 4380 ELSE 4392)
  BY LeapPartsAre
<1>3. LeapParts(s, s) = (s - s) * (IF IncludesFeb29(s, s) THEN 4380 ELSE 4392)
  BY LeapPartsAre
<1> QED
  BY <1>1, <1>2, <1>3, Units

(* The same day of the month a number of years later: 29 February becomes  *)
(* the 28th for good.                                                      *)
CappedDay(date) == IF Month(date) = 2 /\ Day(date) = 29 THEN 28 ELSE Day(date)

Anniversary(date, n) ==
  IF n = 0 THEN date ELSE MonthStart(MonthIndex(date) + 12 * n) + CappedDay(date) - 1

LEMMA TwelveMonths ==
  ASSUME NEW i \in Int
  PROVE  /\ MonthStart(i) \in Int /\ MonthStart(i + 12) \in Int
         /\ 365 <= MonthStart(i + 12) - MonthStart(i)
         /\ MonthStart(i + 12) - MonthStart(i) <= 366
<1> DEFINE y == i \div 12
           m == (i % 12) + 1
<1>1. y \in Int /\ m \in 1 .. 12 /\ (i + 12) \div 12 = y + 1 /\ ((i + 12) % 12) + 1 = m
  OBVIOUS
<1> HIDE DEF y, m
<1>2. /\ MonthStart(i) = DaysBeforeYear(y) + DaysBeforeMonth(y, m) + 1
      /\ MonthStart(i + 12) = DaysBeforeYear(y + 1) + DaysBeforeMonth(y + 1, m) + 1
  BY <1>1 DEF MonthStart, FromYmd, y, m
<1>3. /\ DaysBeforeYear(y) \in Int
      /\ DaysBeforeYear(y + 1) = DaysBeforeYear(y) + (IF IsLeap(y) THEN 366 ELSE 365)
  BY <1>1, YearLengths
<1>4. IsLeap(y) => ~IsLeap(y + 1)
  BY <1>1 DEF IsLeap
<1>5. /\ DaysBeforeMonth(y, m) \in Int
      /\ DaysBeforeMonth(y + 1, m)
           = DaysBeforeMonth(y, m)
               + (IF m > 2 THEN (IF IsLeap(y + 1) THEN 1 ELSE 0) - (IF IsLeap(y) THEN 1 ELSE 0)
                  ELSE 0)
  BY <1>1 DEF DaysBeforeMonth
<1> QED
  BY <1>2, <1>3, <1>4, <1>5

LEMMA MonthOverYears ==
  ASSUME NEW date \in Int, NEW n \in Int
  PROVE  LET i == MonthIndex(date) + 12 * n
         IN  /\ i \in Int /\ i \div 12 = Year(date) + n /\ (i % 12) + 1 = Month(date)
             /\ IndexLength(i) = MonthLength(Year(date) + n, Month(date))
             /\ IndexLength(i) \in Int
             /\ Month(date) # 2 => IndexLength(i) = IndexLength(MonthIndex(date))
             /\ Month(date) = 2
                => IndexLength(i) = IF IsLeap(Year(date) + n) THEN 29 ELSE 28
<1> DEFINE i == MonthIndex(date) + 12 * n
<1>1. /\ MonthIndex(date) \in Int /\ Year(date) \in Int /\ Month(date) \in 1 .. 12
      /\ MonthIndex(date) \div 12 = Year(date) /\ (MonthIndex(date) % 12) + 1 = Month(date)
  BY DateInMonth
<1>2. i \in Int /\ i \div 12 = Year(date) + n /\ (i % 12) + 1 = Month(date)
  BY <1>1
<1> HIDE DEF i
<1>3. /\ IndexLength(i) = MonthLength(Year(date) + n, Month(date)) /\ IndexLength(i) \in Int
      /\ IndexLength(MonthIndex(date)) = MonthLength(Year(date), Month(date))
  BY <1>1, <1>2, MonthsInARow DEF IndexLength
<1>4. Month(date) # 2 => IndexLength(i) = IndexLength(MonthIndex(date))
  BY <1>3 DEF MonthLength
<1>5. Month(date) = 2 => IndexLength(i) = IF IsLeap(Year(date) + n) THEN 29 ELSE 28
  BY <1>3 DEF MonthLength
<1> QED
  BY <1>2, <1>3, <1>4, <1>5 DEF i

LEMMA CappedDayFits ==
  ASSUME NEW date \in Int, NEW n \in Int
  PROVE  /\ CappedDay(date) \in Int /\ 1 <= CappedDay(date) /\ CappedDay(date) <= Day(date)
         /\ Day(date) \in Int
         /\ CappedDay(date) <= IndexLength(MonthIndex(date) + 12 * n)
<1>1. /\ Day(date) \in Int /\ 1 <= Day(date) /\ Day(date) <= IndexLength(MonthIndex(date))
      /\ IndexLength(MonthIndex(date)) \in Int
  BY DayOfDate, DateInMonth, MonthsInARow
<1> DEFINE k == IndexLength(MonthIndex(date) + 12 * n)
           k0 == IndexLength(MonthIndex(date))
<1>2. /\ k \in Int /\ (Month(date) # 2 => k = k0)
      /\ Month(date) = 2 => k \in {28, 29}
  BY MonthOverYears
<1>3. Month(date) = 2 => k0 \in {28, 29}
  <2>1. LET i == MonthIndex(date) + 12 * 0
        IN  Month(date) = 2 => IndexLength(i) = IF IsLeap(Year(date) + 0) THEN 29 ELSE 28
    BY MonthOverYears
  <2>2. MonthIndex(date) + 12 * 0 = MonthIndex(date)
    BY DateInMonth
  <2> QED
    BY <2>1, <2>2
<1> HIDE DEF k, k0
<1>4. Day(date) <= k0 /\ k0 \in Int
  BY <1>1 DEF k0
<1>5. /\ CappedDay(date) \in Int /\ 1 <= CappedDay(date) /\ CappedDay(date) <= Day(date)
      /\ CappedDay(date) <= k
  <2>1. CASE Month(date) = 2 /\ Day(date) = 29
    BY <1>1, <1>2, <2>1 DEF CappedDay
  <2>2. CASE ~(Month(date) = 2 /\ Day(date) = 29)
    <3>1. CappedDay(date) = Day(date)
      BY <2>2 DEF CappedDay
    <3>2. Month(date) = 2 => Day(date) <= 28
      BY <1>1, <1>3, <1>4, <2>2
    <3> QED
      BY <1>1, <1>2, <1>4, <3>1, <3>2
  <2> QED
    BY <2>1, <2>2
<1> QED
  BY <1>1, <1>5 DEF k

LEMMA AnniversaryIs ==
  ASSUME NEW date \in Int, NEW n \in Nat
  PROVE  /\ Anniversary(date, n) \in Int
         /\ MonthIndex(Anniversary(date, n)) = MonthIndex(date) + 12 * n
         /\ Day(Anniversary(date, n)) = IF n = 0 THEN Day(date) ELSE CappedDay(date)
         /\ Year(Anniversary(date, n)) = Year(date) + n
<1> DEFINE i == MonthIndex(date) + 12 * n
           d == Anniversary(date, n)
<1>1. i \in Int /\ i \div 12 = Year(date) + n /\ MonthIndex(date) \in Int
  BY MonthOverYears, DateInMonth
<1>2. d \in Int /\ MonthIndex(d) = i
      /\ Day(d) = IF n = 0 THEN Day(date) ELSE CappedDay(date)
  <2>1. CASE n = 0
    BY <1>1, <2>1 DEF Anniversary
  <2>2. CASE n # 0
    <3>1. CappedDay(date) \in Int /\ 1 <= CappedDay(date)
          /\ CappedDay(date) <= IndexLength(i)
      BY CappedDayFits
    <3> HIDE DEF i
    <3>2. LET at == MonthStart(i) + CappedDay(date) - 1
          IN  at \in Int /\ MonthIndex(at) = i /\ Day(at) = CappedDay(date)
      BY <1>1, <3>1, DateAt
    <3>3. d = MonthStart(i) + CappedDay(date) - 1
      BY <2>2 DEF Anniversary, i
    <3> QED
      BY <2>2, <3>2, <3>3
  <2> QED
    BY <2>1, <2>2
<1> HIDE DEF i, d
<1>3. Year(d) = Year(date) + n
  BY <1>1, <1>2, DateInMonth
<1> QED
  BY <1>2, <1>3 DEF i, d

LEMMA NextAnniversary ==
  ASSUME NEW date \in Int, NEW n \in Nat
  PROVE  AddYears(Anniversary(date, n), 1) = Anniversary(date, n + 1)
<1> DEFINE d == Anniversary(date, n)
           e == Anniversary(date, n + 1)
           later == AddYears(d, 1)
           k == IndexLength(MonthIndex(d) + 12)
<1>1. /\ d \in Int /\ MonthIndex(d) = MonthIndex(date) + 12 * n
      /\ Day(d) = IF n = 0 THEN Day(date) ELSE CappedDay(date)
      /\ Year(d) = Year(date) + n /\ MonthIndex(date) \in Int /\ Year(date) \in Int
  BY AnniversaryIs, DateInMonth
<1>2. /\ e \in Int /\ MonthIndex(e) = MonthIndex(date) + 12 * (n + 1)
      /\ Day(e) = CappedDay(date)
  BY AnniversaryIs
<1>3. /\ later \in Int /\ MonthIndex(later) = MonthIndex(d) + 12
      /\ Day(later) = DayIn(MonthIndex(d) + 12, Day(d))
  BY <1>1, YearLater
<1>4. MonthIndex(d) + 12 = MonthIndex(date) + 12 * (n + 1)
  BY <1>1
<1>5. /\ CappedDay(date) \in Int /\ Day(date) \in Int /\ CappedDay(date) <= k
  <2>1. k = IndexLength(MonthIndex(date) + 12 * (n + 1))
    BY <1>4
  <2> HIDE DEF k
  <2>2. n + 1 \in Int
    OBVIOUS
  <2> QED
    BY <2>1, <2>2, CappedDayFits
<1>6. Day(later) = CappedDay(date)
  <2> HIDE DEF d, e, later
  <2>1. CASE Day(d) = CappedDay(date)
    <3>1. k \in Int
      BY <1>1, MonthsInARow
    <3> QED
      BY <1>3, <1>5, <2>1, <3>1 DEF DayIn
  <2>2. CASE Day(d) # CappedDay(date)
    <3>1. n = 0 /\ Month(date) = 2 /\ Day(date) = 29 /\ CappedDay(date) = 28 /\ Day(d) = 29
      BY <1>1, <2>2 DEF CappedDay
    <3>2. IndexLength(MonthIndex(date)) = IF IsLeap(Year(date)) THEN 29 ELSE 28
      BY <3>1, DateInMonth DEF IndexLength, MonthLength
    <3>3. IsLeap(Year(date))
      BY <3>1, <3>2, DayOfDate
    <3>4. ~IsLeap(Year(date) + (n + 1))
      <4>1. ASSUME NEW y \in Int, IsLeap(y)
            PROVE  ~IsLeap(y + 1)
        BY <4>1 DEF IsLeap
      <4>2. n + 1 = 1
        BY <3>1
      <4> QED
        BY <1>1, <3>3, <4>1, <4>2
    <3>5. k = 28
      BY <1>4, <3>1, <3>4, MonthOverYears
    <3> QED
      BY <1>3, <3>1, <3>5 DEF DayIn
  <2> QED
    BY <2>1, <2>2
<1> HIDE DEF d, e, later
<1>7. later = e
  BY <1>2, <1>3, <1>4, <1>6, SameMonthSameDay
<1> QED
  BY <1>7 DEF d, e, later

LEMMA AnniversariesAscend ==
  ASSUME NEW date \in Int, NEW n \in Nat
  PROVE  /\ \A m \in Nat : n < m => Anniversary(date, n) < Anniversary(date, m)
         /\ Anniversary(date, n + 1) - Anniversary(date, n) <= 366
<1> DEFINE d == Anniversary(date, n)
           e == Anniversary(date, n + 1)
           i == MonthIndex(d)
<1>1. /\ d \in Int /\ i = MonthIndex(date) + 12 * n /\ MonthIndex(date) \in Int
      /\ Day(d) = IF n = 0 THEN Day(date) ELSE CappedDay(date)
  BY AnniversaryIs, DateInMonth
<1>2. /\ e \in Int /\ MonthIndex(e) = MonthIndex(date) + 12 * (n + 1)
      /\ Day(e) = CappedDay(date)
  BY AnniversaryIs
<1>3. ASSUME NEW m \in Nat, n < m
      PROVE  d < Anniversary(date, m)
  <2> DEFINE c == Anniversary(date, m)
  <2>1. c \in Int /\ MonthIndex(c) = MonthIndex(date) + 12 * m
    BY AnniversaryIs
  <2> HIDE DEF c, d
  <2>2. MonthIndex(d) < MonthIndex(c)
    BY <1>1, <1>3, <2>1
  <2>3. ~ c <= d
    BY <1>1, <2>1, <2>2, DatesInOrder
  <2> QED
    BY <1>1, <2>1, <2>3 DEF c
<1>4. e - d <= 366
  <2> HIDE DEF d, e
  <2>1. i \in Int /\ MonthIndex(e) = i + 12
    BY <1>1, <1>2
  <2>2. d = MonthStart(i) + Day(d) - 1 /\ e = MonthStart(i + 12) + Day(e) - 1
        /\ Day(d) \in Int /\ Day(e) \in Int
    BY <1>1, <1>2, <2>1, DayOfDate
  <2>3. Day(e) <= Day(d)
    <3>1. CappedDay(date) \in Int /\ Day(date) \in Int /\ CappedDay(date) <= Day(date)
      BY CappedDayFits
    <3> QED
      BY <1>1, <1>2, <3>1
  <2>4. /\ MonthStart(i) \in Int /\ MonthStart(i + 12) \in Int
        /\ MonthStart(i + 12) - MonthStart(i) <= 366
    BY <2>1, TwelveMonths
  <2> HIDE DEF i
  <2> QED
    BY <2>2, <2>3, <2>4
<1> QED
  BY <1>3, <1>4

LEMMA AnniversariesAre ==
  ASSUME NEW s \in Int, NEW e \in Int, s <= e
  PROVE  /\ Year(e) - Year(s) \in Nat
         /\ Anniversaries(s, e)
              = [n \in 0 .. Year(e) - Year(s) + 1 |-> Anniversary(s, n)]
<1> DEFINE N == Year(e) - Year(s) + 1
           Steps(g) == g = [n \in 0 .. N |-> IF n = 0 THEN s ELSE AddYears(g[n - 1], 1)]
           it == [n \in 0 .. N |-> Anniversary(s, n)]
           g0 == CHOOSE g : Steps(g)
<1>1. Year(e) - Year(s) \in Nat /\ N \in Nat
  BY YearsOfDates
<1>2. Anniversaries(s, e) = g0
  BY DEF Anniversaries
<1> HIDE DEF N
<1>3. Steps(it)
  <2>1. ASSUME NEW n \in 0 .. N
        PROVE  it[n] = IF n = 0 THEN s ELSE AddYears(it[n - 1], 1)
    <3>1. CASE n = 0
      BY <3>1 DEF Anniversary
    <3>2. CASE n # 0
      <4>1. n - 1 \in Nat /\ n - 1 \in 0 .. N /\ (n - 1) + 1 = n
        BY <1>1, <3>2
      <4>2. AddYears(Anniversary(s, n - 1), 1) = Anniversary(s, (n - 1) + 1)
        BY <4>1, NextAnniversary
      <4> QED
        BY <3>2, <4>1, <4>2
    <3> QED
      BY <3>1, <3>2
  <2> QED
    BY <2>1
<1>4. Steps(g0)
  <2> HIDE DEF Steps
  <2> QED
    BY <1>3
<1> HIDE DEF g0, it
<1>5. g0 = it
  <2> DEFINE T == {n \in Nat : n <= N => g0[n] = it[n]}
  <2>1. ASSUME NEW n \in 0 .. N
        PROVE  /\ g0[n] = IF n = 0 THEN s ELSE AddYears(g0[n - 1], 1)
               /\ it[n] = IF n = 0 THEN s ELSE AddYears(it[n - 1], 1)
    BY <1>3, <1>4
  <2>2. 0 \in T
    <3>1. 0 \in 0 .. N
      BY <1>1
    <3> QED
      BY <2>1, <3>1
  <2>3. ASSUME NEW n \in T
        PROVE  n + 1 \in T
    <3>1. n \in Nat /\ n + 1 \in Nat /\ (n + 1) - 1 = n
      OBVIOUS
    <3>2. n + 1 <= N => n + 1 \in 0 .. N /\ g0[n] = it[n]
      BY <1>1, <3>1
    <3>3. n + 1 <= N => g0[n + 1] = it[n + 1]
      BY <2>1, <3>1, <3>2
    <3> QED
      BY <3>1, <3>3
  <2>4. \A n \in Nat : n \in T
    <3> HIDE DEF T
    <3>1. T \in SUBSET Nat
      BY DEF T
    <3> QED
      BY <2>2, <2>3, <3>1, NatInduct
  <2>5. \A n \in 0 .. N : g0[n] = it[n]
    BY <1>1, <2>4
  <2>6. /\ g0 = [n \in 0 .. N |-> g0[n]] /\ it = [n \in 0 .. N |-> it[n]]
    BY <1>3, <1>4
  <2> HIDE DEF T, Steps
  <2> QED
    BY <2>5, <2>6
<1> QED
  BY <1>1, <1>2, <1>5 DEF it, N

(* A date not before another is after one anniversary of it and before the *)
(* next, and of no other.                                                  *)
LEMMA WholeYearsExist ==
  ASSUME NEW s \in Int, NEW e \in Int, s <= e
  PROVE  \E w \in Nat : /\ w <= Year(e) - Year(s)
                        /\ Anniversary(s, w) <= e /\ e < Anniversary(s, w + 1)
<1> DEFINE w == Year(e) - Year(s)
<1>1. w \in Nat /\ Year(e) \in Int /\ Year(s) \in Int
  BY YearsOfDates
<1> HIDE DEF w
<1>2. ASSUME NEW n \in Nat
      PROVE  /\ Anniversary(s, n) \in Int
             /\ n > w => e < Anniversary(s, n)
             /\ n < w => Anniversary(s, n) <= e
  <2> DEFINE d == Anniversary(s, n)
  <2>1. d \in Int /\ Year(d) = Year(s) + n
    BY AnniversaryIs
  <2> HIDE DEF d
  <2>2. (d <= e => Year(d) <= Year(e)) /\ (e <= d => Year(e) <= Year(d))
    BY <2>1, YearsOfDates
  <2>3. n > w => ~ d <= e
    BY <1>1, <2>1, <2>2 DEF w
  <2>4. n < w => ~ e <= d
    BY <1>1, <2>1, <2>2 DEF w
  <2> QED
    BY <2>1, <2>3, <2>4 DEF d
<1>3. w + 1 \in Nat /\ e < Anniversary(s, w + 1) /\ Anniversary(s, w) \in Int
  BY <1>1, <1>2
<1>4. CASE Anniversary(s, w) <= e
  BY <1>1, <1>3, <1>4 DEF w
<1>5. CASE ~ Anniversary(s, w) <= e
  <2>1. w # 0
    BY <1>5 DEF Anniversary
  <2>2. w - 1 \in Nat /\ w - 1 < w /\ w - 1 <= w /\ (w - 1) + 1 = w
    BY <1>1, <2>1
  <2>3. Anniversary(s, w - 1) <= e /\ e < Anniversary(s, (w - 1) + 1)
    BY <1>2, <1>3, <1>5, <2>2
  <2> QED
    BY <2>2, <2>3 DEF w
<1> QED
  BY <1>4, <1>5

LEMMA WholeYearsAreUnique ==
  ASSUME NEW s \in Int, NEW e \in Int, NEW v \in Nat, NEW w \in Nat,
         Anniversary(s, v) <= e, e < Anniversary(s, v + 1),
         Anniversary(s, w) <= e, e < Anniversary(s, w + 1)
  PROVE  v = w
<1>1. ASSUME NEW m \in Nat, NEW n \in Nat, m < n, e < Anniversary(s, m + 1),
             Anniversary(s, n) <= e
      PROVE  FALSE
  <2>1. m + 1 \in Nat /\ (m + 1 = n \/ m + 1 < n)
    BY <1>1
  <2>2. Anniversary(s, m + 1) \in Int /\ Anniversary(s, n) \in Int
    BY <2>1, AnniversaryIs
  <2>3. m + 1 < n => Anniversary(s, m + 1) < Anniversary(s, n)
    BY <2>1, AnniversariesAscend
  <2>4. m + 1 = n => Anniversary(s, m + 1) = Anniversary(s, n)
    OBVIOUS
  <2> QED
    BY <1>1, <2>1, <2>2, <2>3, <2>4
<1>2. ~ v < w
  BY <1>1
<1>3. ~ w < v
  BY <1>1
<1> QED
  BY <1>2, <1>3

LEMMA AfbIs ==
  ASSUME NEW s \in Int, NEW e \in Int, s <= e, NEW w \in Nat,
         Anniversary(s, w) <= e, e < Anniversary(s, w + 1)
  PROVE  AfbParts(s, e) = w * YearParts + LeapParts(Anniversary(s, w), e)
<1> DEFINE N == Year(e) - Year(s) + 1
           after == Anniversaries(s, e)
           Whole(n) == after[n] <= e /\ e < after[n + 1]
<1>1. N - 1 \in Nat /\ N \in Nat /\ after = [n \in 0 .. N |-> Anniversary(s, n)]
      /\ Year(e) \in Int /\ Year(s) \in Int
  <2>1. Year(e) - Year(s) \in Nat /\ after = [n \in 0 .. N |-> Anniversary(s, n)]
    BY AnniversariesAre
  <2>2. Year(e) \in Int /\ Year(s) \in Int
    BY YearsOfDates
  <2> HIDE DEF after
  <2> QED
    BY <2>1, <2>2
<1>2. w <= N - 1
  <2>1. PICK v \in Nat : v <= Year(e) - Year(s)
                         /\ Anniversary(s, v) <= e /\ e < Anniversary(s, v + 1)
    BY WholeYearsExist
  <2>2. v = w
    BY <2>1, WholeYearsAreUnique
  <2> QED
    BY <1>1, <2>1, <2>2
<1>3. e < Anniversary(s, N) /\ Anniversary(s, N) \in Int
  <2>1. Anniversary(s, N) \in Int /\ Year(Anniversary(s, N)) = Year(s) + N
    BY <1>1, AnniversaryIs
  <2>2. ~ Anniversary(s, N) <= e
    <3> DEFINE d == Anniversary(s, N)
    <3>1. d \in Int /\ Year(d) = Year(e) + 1
      BY <1>1, <2>1
    <3> HIDE DEF d
    <3>2. d <= e => Year(d) <= Year(e)
      BY <3>1, YearsOfDates
    <3> QED
      BY <1>1, <3>1, <3>2 DEF d
  <2> QED
    BY <2>1, <2>2
<1> HIDE DEF N, after
<1>4. DOMAIN after = 0 .. N /\ \A n \in 0 .. N : after[n] = Anniversary(s, n)
  BY <1>1
<1>5. w \in DOMAIN after /\ Whole(w)
  <2>1. w \in 0 .. N /\ w + 1 \in 0 .. N
    BY <1>1, <1>2
  <2> QED
    BY <1>4, <2>1
<1>6. ASSUME NEW n \in DOMAIN after, Whole(n)
      PROVE  n = w
  <2>1. n \in Nat /\ n <= N /\ after[n] = Anniversary(s, n)
    BY <1>1, <1>4
  <2>2. n # N
    BY <1>3, <1>6, <2>1
  <2>3. n + 1 \in 0 .. N
    BY <1>1, <2>1, <2>2
  <2>4. Anniversary(s, n) <= e /\ e < Anniversary(s, n + 1)
    BY <1>4, <1>6, <2>1, <2>3
  <2> QED
    BY <2>1, <2>4, WholeYearsAreUnique
<1>7. WholeYears(after, e) = w
  <2>1. WholeYears(after, e) = CHOOSE n \in DOMAIN after : Whole(n)
    BY DEF WholeYears
  <2> HIDE DEF Whole
  <2> QED
    BY <1>5, <1>6, <2>1
<1>8. after[w] = Anniversary(s, w)
  BY <1>4, <1>5
<1> QED
  BY <1>7, <1>8 DEF AfbParts, PartsSince, PartsAfter, after

LEMMA AfbAscends ==
  ASSUME NEW s \in Int, NEW e \in Int, s <= e
  PROVE  /\ AfbParts(s, e) \in Int /\ AfbParts(s, s) = 0
         /\ AfbParts(s, e) <= AfbParts(s, e + 1)
<1>0. ASSUME NEW n \in Nat
      PROVE  n * YearParts \in Int /\ (n + 1) * YearParts = n * YearParts + YearParts
             /\ YearParts \in Int
  BY Units
<1>1. PICK w \in Nat : /\ w <= Year(e) - Year(s)
                       /\ Anniversary(s, w) <= e /\ e < Anniversary(s, w + 1)
  BY WholeYearsExist
<1> DEFINE d == Anniversary(s, w)
           next == Anniversary(s, w + 1)
           rest == LeapParts(d, e)
<1>2. d \in Int /\ next \in Int /\ next - d <= 366 /\ w + 1 \in Nat
  BY AnniversaryIs, AnniversariesAscend
<1>3. d <= e /\ e < next
  BY <1>1
<1> HIDE DEF d, next
<1>4. AfbParts(s, e) = w * YearParts + rest
  BY <1>1, AfbIs DEF d
<1>5. rest \in Int /\ rest <= LeapParts(d, e + 1) /\ rest <= YearParts
      /\ LeapParts(d, e + 1) \in Int
  <2>1. e - d < 366 /\ e + 1 \in Int /\ d <= e + 1
    BY <1>2, <1>3
  <2>2. LeapParts(d, e + 1) \in Int
    BY <1>2, <2>1, LeapPartsAscend
  <2> QED
    BY <1>2, <1>3, <2>1, <2>2, LeapPartsAscend
<1>6. AfbParts(s, e) <= AfbParts(s, e + 1)
  <2>1. CASE e + 1 < next
    <3>1. Anniversary(s, w) <= e + 1 /\ e + 1 < Anniversary(s, w + 1)
      BY <1>2, <1>3, <2>1 DEF d, next
    <3>2. AfbParts(s, e + 1) = w * YearParts + LeapParts(d, e + 1)
      BY <3>1, AfbIs DEF d
    <3> HIDE DEF rest
    <3> QED
      BY <1>0, <1>4, <1>5, <3>2
  <2>2. CASE e + 1 = next
    <3>1. Anniversary(s, w + 1) < Anniversary(s, (w + 1) + 1)
          /\ Anniversary(s, (w + 1) + 1) \in Int
      BY <1>2, AnniversariesAscend, AnniversaryIs
    <3>2. Anniversary(s, w + 1) <= e + 1 /\ e + 1 < Anniversary(s, (w + 1) + 1)
      BY <1>2, <2>2, <3>1 DEF next
    <3>3. AfbParts(s, e + 1) = (w + 1) * YearParts + LeapParts(next, e + 1)
      BY <1>2, <3>2, AfbIs DEF next
    <3>4. LeapParts(next, e + 1) = 0
      BY <1>2, <2>2, LeapPartsAscend
    <3> HIDE DEF rest
    <3> QED
      BY <1>0, <1>4, <1>5, <3>3, <3>4
  <2> QED
    BY <1>2, <1>3, <2>1, <2>2
<1>7. AfbParts(s, s) = 0
  <2>1. Anniversary(s, 0) = s
    BY DEF Anniversary
  <2>2. Anniversary(s, 0) < Anniversary(s, 1) /\ 0 + 1 = 1
    BY AnniversariesAscend
  <2>3. AfbParts(s, s) = 0 * YearParts + LeapParts(s, s)
    BY <2>1, <2>2, AfbIs
  <2> QED
    BY <2>3, LeapPartsAscend, Units
<1>8. AfbParts(s, e) \in Int
  BY <1>0, <1>4, <1>5
<1> QED
  BY <1>6, <1>7, <1>8

LEMMA AfbYearLater ==
  ASSUME NEW s \in Int
  PROVE  AfbParts(s, AddYears(s, 1)) = YearParts
<1> DEFINE e == AddYears(s, 1)
<1>1. e = Anniversary(s, 1)
  <2>1. Anniversary(s, 0) = s /\ 0 + 1 = 1
    BY DEF Anniversary
  <2> QED
    BY <2>1, NextAnniversary
<1>2. e \in Int /\ s <= e
  BY YearLater
<1>3. e < Anniversary(s, 1 + 1)
  BY <1>1, AnniversariesAscend
<1> HIDE DEF e
<1>4. AfbParts(s, e) = 1 * YearParts + LeapParts(e, e)
  BY <1>1, <1>2, <1>3, AfbIs
<1>5. LeapParts(e, e) = 0
  BY <1>2, LeapPartsAscend
<1> QED
  BY <1>4, <1>5, Units DEF e

(* Every convention but ICMA reads nothing on the first day and then never *)
(* falls.                                                                  *)
LEMMA MeterForward ==
  ASSUME NEW convention \in DayCountConvention \ {"ACT_ACT_ICMA"}, NEW frequency,
         NEW a \in Int, NEW b \in Int, a <= b
  PROVE  /\ PartsForward(convention, frequency, a, b) \in Int
         /\ PartsForward(convention, frequency, a, a) = 0
         /\ (convention = "ACT_365_LEAP" => b - a < 366) =>
              PartsForward(convention, frequency, a, b)
                <= PartsForward(convention, frequency, a, b + 1)
<1>1. CASE convention = "ACT_360"
  BY <1>1, Units DEF PartsForward
<1>2. CASE convention = "ACT_365_FIXED"
  BY <1>2, Units DEF PartsForward
<1>3. CASE convention = "ACT_365_LEAP"
  BY <1>3, LeapPartsAscend DEF PartsForward
<1>4. CASE convention = "ACT_ACT_AFB"
  BY <1>4, AfbAscends DEF PartsForward
<1>5. CASE convention = "ACT_ACT_ISDA"
  <2>1. \A d \in Int, e \in Int : d <= e =>
          PartsForward(convention, frequency, d, e) = IsdaMark(e) - IsdaMark(d)
    BY <1>5, IsdaTelescopes DEF PartsForward
  <2>2. IsdaMark(a) \in Int /\ IsdaMark(b) \in Int /\ IsdaMark(b + 1) \in Int
        /\ IsdaMark(b) <= IsdaMark(b + 1)
    BY IsdaMarkIs, IsdaMarksAscend
  <2> QED
    BY <2>1, <2>2
<1>6. CASE convention \in PlainThirty
  <2>1. ThirtyMark(convention, a) \in Int /\ ThirtyMark(convention, b) \in Int
        /\ ThirtyMark(convention, b + 1) \in Int
        /\ ThirtyMark(convention, b) <= ThirtyMark(convention, b + 1)
    BY <1>6, ThirtyMarksAscend
  <2> DEFINE x == ThirtyMark(convention, a)
             y == ThirtyMark(convention, b)
             z == ThirtyMark(convention, b + 1)
  <2>2. /\ PartsForward(convention, frequency, a, b) = 4453 * (y - x)
        /\ PartsForward(convention, frequency, a, b + 1) = 4453 * (z - x)
        /\ PartsForward(convention, frequency, a, a) = 4453 * (x - x)
    BY <1>6, PlainThirtyParts
  <2> HIDE DEF x, y, z
  <2> QED
    BY <2>1, <2>2 DEF x, y, z
<1>7. CASE convention = "THIRTY_360_US"
  BY <1>7, UsAscends
<1> QED
  BY <1>1, <1>2, <1>3, <1>4, <1>5, <1>6, <1>7 DEF DayCountConvention, PlainThirty

(* Six of them look at each date alone.                                    *)
LEMMA MeterMarks ==
  ASSUME NEW convention \in {"ACT_360", "ACT_365_FIXED", "ACT_ACT_ISDA"} \union PlainThirty,
         NEW frequency
  PROVE  \E mark \in [Int -> Int] : \A a \in Int, b \in Int : a <= b =>
           PartsForward(convention, frequency, a, b) = mark[b] - mark[a]
<1>1. CASE convention = "ACT_360"
  <2> DEFINE mark == [d \in Int |-> 4453 * d]
  <2>1. \A a \in Int, b \in Int : a <= b =>
          PartsForward(convention, frequency, a, b) = mark[b] - mark[a]
    BY <1>1, Units DEF PartsForward
  <2>2. mark \in [Int -> Int]
    OBVIOUS
  <2> HIDE DEF mark
  <2> QED
    BY <2>1, <2>2
<1>2. CASE convention = "ACT_365_FIXED"
  <2> DEFINE mark == [d \in Int |-> 4392 * d]
  <2>1. \A a \in Int, b \in Int : a <= b =>
          PartsForward(convention, frequency, a, b) = mark[b] - mark[a]
    BY <1>2, Units DEF PartsForward
  <2>2. mark \in [Int -> Int]
    OBVIOUS
  <2> HIDE DEF mark
  <2> QED
    BY <2>1, <2>2
<1>3. CASE convention = "ACT_ACT_ISDA"
  <2> DEFINE mark == [d \in Int |-> IsdaMark(d)]
  <2>1. \A a \in Int, b \in Int : a <= b =>
          PartsForward(convention, frequency, a, b) = mark[b] - mark[a]
    BY <1>3, IsdaTelescopes DEF PartsForward
  <2>2. mark \in [Int -> Int]
    BY IsdaMarkIs
  <2> HIDE DEF mark
  <2> QED
    BY <2>1, <2>2
<1>4. CASE convention \in PlainThirty
  <2> DEFINE mark == [d \in Int |-> 4453 * ThirtyMark(convention, d)]
  <2>1. \A d \in Int : ThirtyMark(convention, d) \in Int
    BY <1>4, ThirtyMarksAscend
  <2>2. ASSUME NEW a \in Int, NEW b \in Int, a <= b
        PROVE  PartsForward(convention, frequency, a, b) = mark[b] - mark[a]
    <3>1. PartsForward(convention, frequency, a, b)
            = 4453 * (ThirtyMark(convention, b) - ThirtyMark(convention, a))
      BY <1>4, <2>2, PlainThirtyParts
    <3> QED
      BY <2>1, <3>1
  <2>3. mark \in [Int -> Int]
    BY <2>1
  <2> HIDE DEF mark
  <2> QED
    BY <2>2, <2>3
<1> QED
  BY <1>1, <1>2, <1>3, <1>4

(* From a date to the same date a year later.                              *)
LEMMA MeterYearLater ==
  ASSUME NEW convention \in {"ACT_ACT_AFB", "THIRTY_360_E_ISDA", "THIRTY_360_GERMAN",
         "THIRTY_360_US"},
         NEW frequency, NEW s \in Int, IsEndOfMonth(s) = IsEndOfMonth(AddYears(s, 1))
  PROVE  PartsForward(convention, frequency, s, AddYears(s, 1)) = YearParts
<1> DEFINE e == AddYears(s, 1)
<1>1. /\ e \in Int /\ s <= e /\ MonthIndex(e) = MonthIndex(s) + 12 /\ Month(e) = Month(s)
      /\ Day(e) = Day(s) \/ (IsLastDayOfFeb(s) /\ IsLastDayOfFeb(e))
      /\ IsEndOfMonth(s) = IsEndOfMonth(e) /\ MonthIndex(s) \in Int
  BY YearLater, DateInMonth
<1> HIDE DEF e
<1>2. /\ IsEndOfMonth(s) <=> IsEndOfMonth(e)
      /\ IsLastDayOfFeb(s) <=> IsLastDayOfFeb(e)
      /\ IsLastDayOfFeb(s) => IsEndOfMonth(s)
  BY <1>1 DEF IsLastDayOfFeb, IsEndOfMonth
<1>3. CASE convention = "ACT_ACT_AFB"
  BY <1>3, AfbYearLater DEF PartsForward, e
<1>4. CASE convention \in {"THIRTY_360_E_ISDA", "THIRTY_360_GERMAN"}
  <2>1. DayOfThirty(convention, s) = DayOfThirty(convention, e)
    <3>1. MonthEndToThirty(s) = MonthEndToThirty(e)
      BY <1>1, <1>2 DEF MonthEndToThirty, ToThirty
    <3>2. GermanDay(s) = GermanDay(e)
      BY <1>1, <1>2 DEF GermanDay
    <3> QED
      BY <1>4, <3>1, <3>2 DEF DayOfThirty
  <2>2. convention \in PlainThirty
    BY <1>4 DEF PlainThirty
  <2>3. PartsForward(convention, frequency, s, e)
          = 4453 * (ThirtyMark(convention, e) - ThirtyMark(convention, s))
    BY <1>1, <2>2, PlainThirtyParts
  <2> DEFINE day == DayOfThirty(convention, s)
  <2>4. day \in 1 .. 30
    BY <2>2, DaysOfThirty
  <2>5. day \in Int
    <3> HIDE DEF day
    <3> QED
      BY <2>4
  <2>6. ThirtyMark(convention, e) = 30 * MonthIndex(e) + day
        /\ ThirtyMark(convention, s) = 30 * MonthIndex(s) + day
    BY <2>1 DEF ThirtyMark
  <2> HIDE DEF day
  <2> QED
    BY <1>1, <2>3, <2>5, <2>6, Units DEF e
<1>5. CASE convention = "THIRTY_360_US"
  <2>1. UsDays(s, e)[2] = UsDays(s, e)[1] /\ UsDays(s, e)[1] \in Int
    BY <1>1, <1>2, UsDaysAre
  <2>2. PartsForward("THIRTY_360_US", frequency, s, e)
          = 4453 * (30 * (MonthIndex(e) - MonthIndex(s)) + UsDays(s, e)[2] - UsDays(s,
          e)[1])
    BY <1>1, UsParts
  <2> DEFINE day == UsDays(s, e)[1]
  <2>3. PartsForward("THIRTY_360_US", frequency, s, e)
          = 4453 * (30 * (MonthIndex(e) - MonthIndex(s)) + day - day) /\ day \in Int
    BY <2>1, <2>2
  <2> HIDE DEF day
  <2> QED
    BY <1>1, <1>5, <2>3, Units DEF e
<1> QED
  BY <1>3, <1>4, <1>5
=============================================================================
