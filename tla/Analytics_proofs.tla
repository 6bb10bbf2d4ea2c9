-------------------------- MODULE Analytics_proofs --------------------------
(***************************************************************************)
(* The library under the engine: root solvers, for every function and      *)
(* every step proposed; overnight and index-linked coupons, for every note *)
(* and every index, in whatever order fixings are published and revised;   *)
(* calendars under edit, day counts from any date on, every bond that the  *)
(* constructors accept, and the tables of every portfolio.                 *)
(***************************************************************************)
EXTENDS MCAnalytics, BusinessDays_proofs

LEMMA Values ==
  ASSUME TypeOK
  PROVE  /\ \A p \in Point : f[p] \in Int
         /\ lo \in Int /\ hi \in Int /\ x \in Int /\ Size \in Nat
         /\ lo \in Point /\ hi \in Point /\ x \in Point
<1>1. f \in [Point -> Value] /\ lo \in Point /\ hi \in Point /\ x \in Point
  BY DEF TypeOK
<1>2. Value \subseteq Int /\ Size \in Nat
  BY ConstantsAssumption
<1>3. \A p \in Point : f[p] \in Int
  BY <1>1, <1>2
<1>4. Point \subseteq Int
  BY <1>2 DEF Point
<1> QED
  BY <1>1, <1>2, <1>3, <1>4

(* Between two points of the grid there is only the grid.                  *)
LEMMA MidpointInside ==
  ASSUME NEW p \in Point, NEW q \in Point, p <= q
  PROVE  /\ (p + q) \div 2 \in Point
         /\ p <= (p + q) \div 2 /\ (p + q) \div 2 <= q
         /\ p < q => (p + q) \div 2 < q
         /\ q - p > 1 => p < (p + q) \div 2 /\ (p + q) \div 2 < q
BY ConstantsAssumption DEF Point

LEMMA InteriorInside ==
  ASSUME NEW l \in Point, NEW h \in Point, NEW p \in l + 1 .. h - 1
  PROVE  p \in Point /\ l < p /\ p < h
BY ConstantsAssumption DEF Point

(* Of two values the better one is one of the two.                         *)
LEMMA BetterOfTwo ==
  ASSUME NEW p, NEW q
  PROVE  Better(p, q) \in {p, q}
BY DEF Better

LEMMA InitInvariant ==
  Init => IInv
BY ConstantsAssumption DEF Init, IInv, TypeOK, StartsWide, BracketKept, RootIsRoot, Point,
     Status

(* A point at which the function is small is a root.                       *)
LEMMA SmallIsRoot ==
  ASSUME NEW p \in Point, AbsValue(f[p]) <= Tolerance
  PROVE  IsRoot(p)
BY DEF IsRoot

(* A point of a bracket as narrow as the tolerance is a root.              *)
LEMMA NarrowIsRoot ==
  ASSUME NEW l \in Point, NEW h \in Point, NEW p \in Point,
         l <= p, p <= h, h - l <= Tolerance, Opposite(f[l], f[h])
  PROVE  IsRoot(p)
BY DEF IsRoot

LEMMA StartStep ==
  ASSUME IInv, Start
  PROVE  IInv'
<1>0. TypeOK /\ f' = f /\ solver' = solver /\ status = "start"
  BY DEF IInv, Start
<1>1. /\ lo \in Point /\ hi \in Point /\ x \in Point /\ f[lo] \in Int /\ f[hi] \in Int
  BY <1>0, Values
<1>2. ASSUME NEW p \in {lo, hi}, ReturnEnd(p)
      PROVE  IInv'
  <2>1. x' = p /\ status' = "converged" /\ lo' = lo /\ hi' = hi /\ iterations' = iterations
    BY <1>2 DEF ReturnEnd
  <2>2. AbsValue(f[p]) <= Tolerance
    BY <1>2, ConstantsAssumption DEF ReturnEnd, AbsValue
  <2>3. IsRoot(p)
    BY <1>1, <2>2, SmallIsRoot
  <2>4. IsRoot(x)'
    BY <1>0, <2>1, <2>3 DEF IsRoot
  <2> QED
    BY <1>0, <1>1, <2>1, <2>4 DEF IInv, TypeOK, StartsWide, BracketKept, RootIsRoot, Status
<1>3. CASE RejectBracket
  BY <1>0, <1>3 DEF RejectBracket, IInv, TypeOK, StartsWide, BracketKept, RootIsRoot, Status
<1>4. CASE BeginIteration
  <2>1. status' = "running" /\ lo' = lo /\ hi' = hi /\ iterations' = iterations
    BY <1>4 DEF BeginIteration
  <2>2. lo = 0 /\ hi = Size
    BY <1>0 DEF IInv, StartsWide
  <2>3. lo < hi /\ Opposite(f[lo], f[hi])
    BY <1>4, <2>2, ConstantsAssumption DEF BeginIteration
  <2>4. Midpoint \in Point
    BY <1>1, <2>3, MidpointInside, ConstantsAssumption DEF Midpoint, Point
  <2>5. lo + 1 .. hi - 1 \subseteq Point
    BY <1>1, ConstantsAssumption DEF Point
  <2>6. x' \in Point
    BY <1>1, <1>4, <2>4, <2>5, BetterOfTwo DEF BeginIteration
  <2>7. solver = "brent" => x' \in {lo, hi}
    BY <1>4, BetterOfTwo DEF BeginIteration
  <2>9. solver = "hybrid" => lo <= x' /\ x' < hi
    BY <1>1, <1>4, <2>3, MidpointInside, Values, <1>0 DEF BeginIteration, Midpoint
  <2>8. Opposite(f'[lo'], f'[hi']) /\ lo' < hi'
    BY <1>0, <2>1, <2>3
  <2> QED
    BY <1>0, <1>1, <2>1, <2>6, <2>7, <2>8, <2>9
       DEF IInv, TypeOK, StartsWide, BracketKept, RootIsRoot, Status
<1> QED
  BY <1>2, <1>3, <1>4 DEF Start

(* A point that is returned while the solver runs.                         *)
LEMMA ReturnStep ==
  ASSUME IInv, status = "running", NEW p \in Point, IsRoot(p),
         Return(p), UNCHANGED <<f, solver>>
  PROVE  IInv'
<1>1. /\ x' = p /\ status' = "converged" /\ lo' = lo /\ hi' = hi /\ iterations' = iterations
      /\ f' = f /\ solver' = solver
  BY DEF Return
<1>2. IsRoot(x)'
  BY <1>1 DEF IsRoot
<1> QED
  BY <1>1, <1>2 DEF IInv, TypeOK, StartsWide, BracketKept, RootIsRoot, Status

(* A point of the bracket splits it in two, and the part that is kept      *)
(* changes sign.                                                           *)
LEMMA TightenKeeps ==
  ASSUME TypeOK, lo < hi, Opposite(f[lo], f[hi]),
         NEW p \in Point, lo <= p, p < hi, f[p] # 0, Tighten(p), f' = f
  PROVE  /\ lo' \in Point /\ hi' \in Point
         /\ lo' < hi' /\ Opposite(f'[lo'], f'[hi'])
<1>1. /\ f[lo] \in Int /\ f[hi] \in Int /\ f[p] \in Int
      /\ lo \in Int /\ hi \in Int /\ lo \in Point /\ hi \in Point
  BY Values
<1>2. p \in Int
  BY ConstantsAssumption DEF Point
<1>3. CASE Opposite(f[lo], f[p])
  <2>1. lo' = lo /\ hi' = p
    BY <1>3 DEF Tighten
  <2>2. lo # p
    BY <1>1, <1>3 DEF Opposite
  <2> QED
    BY <1>1, <1>2, <1>3, <2>1, <2>2
<1>4. CASE ~ Opposite(f[lo], f[p])
  <2>1. lo' = p /\ hi' = hi
    BY <1>4 DEF Tighten
  <2>2. Opposite(f[p], f[hi])
    BY <1>1, <1>4 DEF Opposite
  <2> QED
    BY <1>1, <1>2, <2>1, <2>2
<1> QED
  BY <1>3, <1>4

LEMMA BisectionKeeps ==
  ASSUME IInv, BisectionStep
  PROVE  IInv'
<1>0. /\ TypeOK /\ f' = f /\ solver' = solver /\ status = "running" /\ solver = "bisection"
      /\ lo < hi /\ Opposite(f[lo], f[hi])
  BY DEF IInv, BracketKept, BisectionStep, Iterating
<1>1. /\ lo \in Int /\ hi \in Int /\ lo \in Point /\ hi \in Point
      /\ \A p \in Point : f[p] \in Int
  BY <1>0, Values
<1>2. /\ Midpoint \in Point /\ lo <= Midpoint /\ Midpoint < hi
  BY <1>0, <1>1, MidpointInside DEF Midpoint
<1>3. CASE AbsValue(f[Midpoint]) <= Tolerance \/ hi - lo <= Tolerance
  <2>1. IsRoot(Midpoint)
    BY <1>0, <1>1, <1>2, <1>3, SmallIsRoot, NarrowIsRoot
  <2>2. Return(Midpoint)
    BY <1>3 DEF BisectionStep
  <2> QED
    BY <1>0, <1>2, <2>1, <2>2, ReturnStep
<1>4. CASE ~ (AbsValue(f[Midpoint]) <= Tolerance \/ hi - lo <= Tolerance)
  <2>1. /\ Tighten(Midpoint) /\ x' = Midpoint
        /\ iterations' = iterations + 1 /\ status' = status
    BY <1>4 DEF BisectionStep
  <2>2. f[Midpoint] # 0
    BY <1>4, ConstantsAssumption DEF AbsValue
  <2>3. lo' \in Point /\ hi' \in Point /\ lo' < hi' /\ Opposite(f'[lo'], f'[hi'])
    BY <1>0, <1>2, <2>1, <2>2, TightenKeeps
  <2> QED
    BY <1>0, <1>2, <2>1, <2>3 DEF IInv, TypeOK, StartsWide, BracketKept, RootIsRoot
<1> QED
  BY <1>3, <1>4

LEMMA HybridKeeps ==
  ASSUME IInv, HybridStep
  PROVE  IInv'
<1>0. /\ TypeOK /\ f' = f /\ solver' = solver /\ status = "running" /\ solver = "hybrid"
      /\ lo < hi /\ Opposite(f[lo], f[hi]) /\ lo <= x /\ x < hi /\ x \in Point
  BY DEF IInv, TypeOK, BracketKept, HybridStep, Iterating
<1>1. CASE AbsValue(f[x]) <= Tolerance
  BY <1>0, <1>1, SmallIsRoot, ReturnStep DEF HybridStep
<1>2. CASE ~ AbsValue(f[x]) <= Tolerance
  <2>1. Tighten(x) /\ iterations' = iterations + 1
    BY <1>2 DEF HybridStep
  <2>2. f[x] # 0
    BY <1>2, ConstantsAssumption DEF AbsValue
  <2>3. lo' \in Point /\ hi' \in Point /\ lo' < hi' /\ Opposite(f'[lo'], f'[hi'])
    BY <1>0, <2>1, <2>2, TightenKeeps
  <2>4. CASE /\ x' \in (lo' + 1 .. hi' - 1) \cup {(lo' + hi') \div 2}
             /\ status' = status
    <3>0. lo' \in Point /\ hi' \in Point /\ lo' < hi'
      BY <2>3
    <3>1. lo' \in Int /\ hi' \in Int /\ 0 <= lo' /\ hi' <= Size /\ lo' <= hi'
      BY <3>0, ConstantsAssumption DEF Point
    <3>2. /\ (lo' + hi') \div 2 \in Point
          /\ lo' <= (lo' + hi') \div 2 /\ (lo' + hi') \div 2 < hi'
      BY <3>0, <3>1, MidpointInside
    <3>3. x' \in Point /\ lo' <= x' /\ x' < hi'
      <4>1. CASE x' \in lo' + 1 .. hi' - 1
        <5>1. lo' < x' /\ x' < hi' /\ x' \in Point
          BY <3>0, <4>1, InteriorInside
        <5> QED
          BY <3>1, <5>1, ConstantsAssumption DEF Point
      <4>2. CASE x' = (lo' + hi') \div 2
        BY <3>2, <4>2
      <4> QED
        BY <2>4, <4>1, <4>2
    <3> QED
      BY <1>0, <2>1, <2>3, <2>4, <3>3 DEF IInv, TypeOK, StartsWide, BracketKept, RootIsRoot
  <2>5. CASE x' = x /\ status' = "raised"
    BY <1>0, <2>1, <2>3, <2>5
       DEF IInv, TypeOK, StartsWide, BracketKept, RootIsRoot, Status
  <2> QED
    BY <1>2, <2>4, <2>5 DEF HybridStep
<1> QED
  BY <1>1, <1>2

(* Whichever end a point between the two replaces, the ends that are left  *)
(* have opposite signs and the better one of them is the iterate.          *)
LEMMA BrentReplaceKeeps ==
  ASSUME TypeOK, lo < hi, Opposite(f[lo], f[hi]), x \in {lo, hi},
         NEW s \in Point, lo < s, s < hi, BrentReplace(s), f' = f
  PROVE  /\ lo' \in Point /\ hi' \in Point /\ x' \in {lo', hi'}
         /\ lo' < hi' /\ Opposite(f'[lo'], f'[hi'])
<1>1. /\ f[lo] \in Int /\ f[hi] \in Int /\ f[s] \in Int
      /\ lo \in Int /\ hi \in Int /\ lo \in Point /\ hi \in Point
  BY Values
<1>2. s \in Int
  BY ConstantsAssumption DEF Point
<1>3. Worse \in {lo, hi} /\ Worse # x /\ Opposite(f[Worse], f[x])
  BY <1>1 DEF Worse, Opposite
<1> DEFINE crossed == f[s] # 0 /\ Opposite(f[Worse], f[s])
           a == IF crossed THEN Worse ELSE s
           b == IF crossed THEN s ELSE x
<1>4. a \in {lo, hi, s} /\ b \in {lo, hi, s} /\ a # b
  BY <1>1, <1>2, <1>3
<1>5. Opposite(f[a], f[b])
  <2>1. CASE crossed
    BY <2>1
  <2>2. CASE ~ crossed
    BY <1>1, <1>3, <2>2 DEF Opposite
  <2> QED
    BY <2>1, <2>2
<1>6. a \in Point /\ b \in Point /\ a \in Int /\ b \in Int
  BY <1>1, <1>2, <1>4
<1>7. /\ lo' = IF a < b THEN a ELSE b
      /\ hi' = IF a < b THEN b ELSE a
      /\ x' = Better(a, b)
  BY DEF BrentReplace
<1>8. x' \in {a, b}
  BY <1>7, BetterOfTwo
<1>9. f[a] \in Int /\ f[b] \in Int
  BY <1>6, Values
<1> HIDE DEF crossed, a, b
<1>10. CASE a < b
  BY <1>5, <1>6, <1>7, <1>8, <1>10
<1>11. CASE ~ a < b
  <2>1. b < a
    BY <1>4, <1>6, <1>11
  <2>2. lo' = b /\ hi' = a
    BY <1>7, <1>11
  <2>3. Opposite(f[b], f[a])
    BY <1>5, <1>9 DEF Opposite
  <2> QED
    BY <1>6, <1>8, <2>1, <2>2, <2>3
<1> QED
  BY <1>10, <1>11

LEMMA BrentKeeps ==
  ASSUME IInv, BrentStep
  PROVE  IInv'
<1>0. /\ TypeOK /\ f' = f /\ solver' = solver /\ status = "running" /\ solver = "brent"
      /\ lo < hi /\ Opposite(f[lo], f[hi]) /\ x \in {lo, hi}
  BY DEF IInv, BracketKept, BrentStep, Iterating
<1>1. lo \in Int /\ hi \in Int /\ lo \in Point /\ hi \in Point /\ x \in Point
  BY <1>0, Values
<1>2. CASE AbsValue(f[x]) <= Tolerance \/ hi - lo <= Tolerance
  <2>1. IsRoot(x)
    BY <1>0, <1>1, <1>2, SmallIsRoot, NarrowIsRoot
  <2> QED
    BY <1>0, <1>1, <1>2, <2>1, ReturnStep DEF BrentStep
<1>3. CASE ~ (AbsValue(f[x]) <= Tolerance \/ hi - lo <= Tolerance)
  <2>1. /\ \E s \in Interpolated \cup {Midpoint} : BrentReplace(s)
        /\ iterations' = iterations + 1 /\ status' = status
    BY <1>3 DEF BrentStep
  <2>2. PICK s \in Interpolated \cup {Midpoint} : BrentReplace(s)
    BY <2>1
  <2>3. hi - lo > 1
    BY <1>1, <1>3, ConstantsAssumption
  <2>4. Midpoint \in Point /\ lo < Midpoint /\ Midpoint < hi
    BY <1>0, <1>1, <2>3, MidpointInside DEF Midpoint
  <2>5. Interpolated \subseteq lo + 1 .. hi - 1
    BY DEF Interpolated
  <2>6. s \in Point /\ lo < s /\ s < hi
    <3>1. CASE s = Midpoint
      BY <2>4, <3>1
    <3>2. CASE s \in lo + 1 .. hi - 1
      BY <1>1, <3>2, ConstantsAssumption DEF Point
    <3> QED
      BY <2>2, <2>5, <3>1, <3>2
  <2>7. /\ lo' \in Point /\ hi' \in Point /\ x' \in {lo', hi'}
        /\ lo' < hi' /\ Opposite(f'[lo'], f'[hi'])
    BY <1>0, <2>2, <2>6, BrentReplaceKeeps
  <2> QED
    BY <1>0, <2>1, <2>7 DEF IInv, TypeOK, StartsWide, BracketKept, RootIsRoot
<1> QED
  BY <1>2, <1>3

LEMMA NextInvariant ==
  IInv /\ [Next]_vars => IInv'
<1> SUFFICES ASSUME IInv, [Next]_vars
             PROVE  IInv'
  OBVIOUS
<1>1. CASE Start
  BY <1>1, StartStep
<1>2. CASE BisectionStep
  BY <1>2, BisectionKeeps
<1>3. CASE HybridStep
  BY <1>3, HybridKeeps
<1>4. CASE BrentStep
  BY <1>4, BrentKeeps
<1>5. CASE GiveUp
  BY <1>5 DEF GiveUp, IInv, TypeOK, StartsWide, BracketKept, RootIsRoot, Status
<1>6. CASE UNCHANGED vars
  <2>1. \A p \in Point : IsRoot(p)' <=> IsRoot(p)
    BY <1>6 DEF vars, IsRoot
  <2> QED
    BY <1>6, <2>1 DEF vars, IInv, TypeOK, StartsWide, BracketKept, RootIsRoot
<1> QED
  BY <1>1, <1>2, <1>3, <1>4, <1>5, <1>6 DEF Next

-----------------------------------------------------------------------------
(* Bisection: after k iterations the bracket is no wider than Size halved  *)
(* k times, rounding up.                                                   *)
Narrowing(width) ==
  /\ width \in [1 .. MaxIterations -> Point]
  /\ Halving(width) /\ width[MaxIterations] <= Tolerance

Halved ==
  solver = "bisection" =>
    /\ status # "failed"
    /\ status = "start" => iterations = 0
    /\ status = "running" =>
         /\ iterations + 1 \in 1 .. MaxIterations
         /\ \A width : Narrowing(width) => hi - lo <= width[iterations + 1]

LEMMA InitHalved ==
  Init => Halved
BY DEF Init, Halved

(* Each of the two halves is at most one more than half.                   *)
LEMMA HalfIsHalf ==
  ASSUME IInv, solver = "bisection", status = "running",
         Tighten(Midpoint), NEW w \in Int, NEW v \in Int, hi - lo <= w, 2 * v >= w
  PROVE  hi' - lo' <= v
<1>1. lo \in Int /\ hi \in Int
  BY Values DEF IInv
<1>2. \/ lo' = lo /\ hi' = (lo + hi) \div 2
      \/ lo' = (lo + hi) \div 2 /\ hi' = hi
  BY DEF Tighten, Midpoint
<1> QED
  BY <1>1, <1>2

LEMMA BisectionHalves ==
  ASSUME IInv, Halved, Enough, BisectionStep
  PROVE  Halved'
<1>1. /\ solver = "bisection" /\ solver' = solver /\ status = "running"
      /\ iterations + 1 \in 1 .. MaxIterations /\ iterations \in Nat
      /\ \A width : Narrowing(width) => hi - lo <= width[iterations + 1]
  BY DEF BisectionStep, Iterating, Halved, IInv, TypeOK
<1>2. CASE AbsValue(f[Midpoint]) <= Tolerance \/ hi - lo <= Tolerance
  BY <1>1, <1>2 DEF BisectionStep, Return, Halved
<1>3. CASE ~ (AbsValue(f[Midpoint]) <= Tolerance \/ hi - lo <= Tolerance)
  <2>1. Tighten(Midpoint) /\ iterations' = iterations + 1 /\ status' = status
    BY <1>3 DEF BisectionStep
  <2>2. lo \in Int /\ hi \in Int
    BY Values DEF IInv
  <2>3. PICK width : Narrowing(width)
    BY DEF Enough, Narrowing
  <2>4. MaxIterations \in Nat \ {0} /\ Point \subseteq Int /\ Tolerance \in Nat
    BY ConstantsAssumption DEF Point
  <2>5. iterations + 1 # MaxIterations
    <3>1. hi - lo <= width[iterations + 1]
      BY <1>1, <2>3
    <3>2. width[MaxIterations] <= Tolerance /\ width[MaxIterations] \in Int
      <4>1. MaxIterations \in 1 .. MaxIterations
        BY <2>4
      <4>2. width \in [1 .. MaxIterations -> Point] /\ width[MaxIterations] <= Tolerance
        BY <2>3 DEF Narrowing
      <4>3. width[MaxIterations] \in Point
        BY <4>1, <4>2
      <4> QED
        BY <2>4, <4>2, <4>3
    <3> QED
      BY <1>3, <2>2, <2>4, <3>1, <3>2
  <2>6. iterations + 2 \in 1 .. MaxIterations
    BY <1>1, <2>4, <2>5
  <2>7. ASSUME NEW w, Narrowing(w)
        PROVE  hi' - lo' <= w[iterations' + 1]
    <3>1. w[iterations + 1] \in Int /\ w[iterations + 2] \in Int
      BY <1>1, <2>4, <2>6, <2>7 DEF Narrowing
    <3>2. 2 * w[(iterations + 1) + 1] >= w[iterations + 1]
      BY <1>1, <2>4, <2>5, <2>7 DEF Narrowing, Halving
    <3>3. hi - lo <= w[iterations + 1] /\ (iterations + 1) + 1 = iterations + 2
      BY <1>1, <2>7
    <3> QED
      BY <1>1, <2>1, <3>1, <3>2, <3>3, HalfIsHalf
  <2> QED
    BY <1>1, <2>1, <2>6, <2>7 DEF Halved
<1> QED
  BY <1>2, <1>3

LEMMA NextHalved ==
  ASSUME IInv, Halved, Enough, [Next]_vars
  PROVE  Halved'
<1>1. CASE Start
  <2>1. MaxIterations \in Nat \ {0}
    BY ConstantsAssumption
  <2>2. /\ solver' = solver /\ status = "start" /\ status' # "failed" /\ status' # "start"
        /\ lo' = lo /\ hi' = hi /\ iterations' = iterations
    BY <1>1 DEF Start, ReturnEnd, RejectBracket, BeginIteration
  <2>3. lo = 0 /\ hi = Size /\ Size \in Nat
    BY <2>2, ConstantsAssumption DEF IInv, StartsWide
  <2>4. \A width : Narrowing(width) => hi - lo <= width[0 + 1]
    BY <2>3 DEF Narrowing, Halving
  <2> QED
    BY <2>1, <2>2, <2>4 DEF Halved
<1>2. CASE BisectionStep
  BY <1>2, BisectionHalves
<1>3. CASE HybridStep \/ BrentStep
  BY <1>3 DEF HybridStep, BrentStep, Iterating, Halved
<1>4. CASE GiveUp
  <2>1. solver # "bisection"
    BY <1>4, ConstantsAssumption DEF GiveUp, Halved
  <2> QED
    BY <1>4, <2>1 DEF GiveUp, Halved
<1>5. CASE UNCHANGED vars
  BY <1>5 DEF vars, Halved
<1> QED
  BY <1>1, <1>2, <1>3, <1>4, <1>5 DEF Next

-----------------------------------------------------------------------------
(* A step of the run is a step of the solver, or leaves it alone.          *)
LEMMA SolverSteps ==
  ASSUME [PartNext]_all
  PROVE  [Next]_vars
BY DEF PartNext, BondNext, all, solving, vars

LEMMA SolverStarts ==
  ASSUME PartInit, part = "solver"
  PROVE  Init
BY DEF PartInit

LEMMA PartIsKept ==
  ASSUME [PartNext]_all
  PROVE  part' = part /\ (part # "solver" => UNCHANGED vars)
BY DEF PartNext, BondNext, all, solving, vars

(* Where another part is explored the solver does not start.               *)
SolverInv ==
  IF part = "solver" THEN IInv /\ (Enough => Halved) ELSE status = "start"

(* The ends of the bracket keep opposite signs, the iterate stays between  *)
(* them, and after every round of bisection the bracket is no wider than   *)
(* halving makes it: bisection, hybrid and brent.                          *)
THEOREM SolverInvariant == PartSpec => []SolverInv
<1>1. PartInit => SolverInv
  <2> SUFFICES ASSUME PartInit PROVE SolverInv
    OBVIOUS
  <2>1. CASE part = "solver"
    BY <2>1, SolverStarts, InitInvariant, InitHalved DEF SolverInv
  <2>2. CASE part # "solver"
    BY <2>2 DEF PartInit, SolverInv, SolverRest
  <2> QED
    BY <2>1, <2>2
<1>2. SolverInv /\ [PartNext]_all => SolverInv'
  <2> SUFFICES ASSUME SolverInv, [PartNext]_all PROVE SolverInv'
    OBVIOUS
  <2>1. [Next]_vars /\ part' = part
    BY SolverSteps, PartIsKept
  <2>2. CASE part = "solver"
    BY <2>1, <2>2, NextInvariant, NextHalved DEF SolverInv
  <2>3. CASE part # "solver"
    BY <2>1, <2>3, PartIsKept DEF SolverInv, vars
  <2> QED
    BY <2>2, <2>3
<1> QED
  BY <1>1, <1>2, PTL DEF PartSpec

(* Whatever the function and the steps proposed for it, the root that      *)
(* bisection, hybrid or brent returns is one, within the tolerance.        *)
THEOREM RootIsRootHolds == PartSpec => []RootIsRoot
<1>1. SolverInv => RootIsRoot
  BY DEF SolverInv, IInv, RootIsRoot
<1> QED
  BY <1>1, SolverInvariant, PTL

(* With enough iterations for the width of its bracket bisection never     *)
(* gives up, whatever the function.                                        *)
THEOREM BisectionConvergesHolds == PartSpec => []BisectionConverges
<1>1. SolverInv => BisectionConverges
  BY DEF SolverInv, Halved, BisectionConverges
<1> QED
  BY <1>1, SolverInvariant, PTL

-----------------------------------------------------------------------------
-----------------------------------------------------------------------------
(* The reference index.                                                    *)

LEMMA CpiParameters ==
  /\ IndexNames \in Seq(STRING) /\ DOMAIN IndexNames \subseteq Nat
  /\ IndexLag \in Nat /\ IndexMonth \subseteq Nat /\ IndexValue \subseteq Nat \ {0}
BY PartsAssumption DEF Cpi!CpiConstants

CpiTypeOK ==
  /\ fixings \in [(DOMAIN IndexNames) \X IndexMonth -> IndexValue \cup {0}]
  /\ method \in {"MONTHLY", "LINEAR"}

CpiInv == part = "cpi" => CpiTypeOK

LEMMA CpiSteps ==
  ASSUME [PartNext]_all, part = "cpi"
  PROVE  Cpi!Next \/ UNCHANGED <<fixings, method>>
BY DEF PartNext, BondNext, all

LEMMA CpiStaysTyped ==
  ASSUME CpiTypeOK, Cpi!Next
  PROVE  CpiTypeOK'
<1>1. PICK name \in DOMAIN IndexNames, month \in IndexMonth, value \in IndexValue :
        Cpi!AddFixing(name, month, value)
  BY DEF Cpi!Next
<1> QED
  BY <1>1 DEF Cpi!AddFixing, CpiTypeOK

(* The fixing store holds a fixing or none for every name and month:       *)
(* add_fixing writes no other.                                             *)
THEOREM CpiInvariant == PartSpec => []CpiInv
<1>1. PartInit => CpiInv
  BY DEF PartInit, CpiInv, CpiTypeOK, Cpi!Init, Cpi!Missing
<1>2. CpiInv /\ [PartNext]_all => CpiInv'
  <2> SUFFICES ASSUME CpiInv, [PartNext]_all, part' = "cpi"
               PROVE  CpiTypeOK'
    BY DEF CpiInv
  <2>1. part = "cpi" /\ CpiTypeOK
    BY PartIsKept DEF CpiInv
  <2>2. CASE Cpi!Next
    BY <2>1, <2>2, CpiStaysTyped
  <2>3. CASE UNCHANGED <<fixings, method>>
    BY <2>1, <2>3 DEF CpiTypeOK
  <2> QED
    BY <2>1, <2>2, <2>3, CpiSteps
<1> QED
  BY <1>1, <1>2, PTL DEF PartSpec

(* The fixing that is looked up is that of the first name that has one.    *)
LEMMA LookupIsFirst ==
  ASSUME CpiTypeOK, NEW month, Cpi!Names(month) # {}
  PROVE  \E n \in Cpi!Names(month) :
           /\ n \in DOMAIN IndexNames /\ month \in IndexMonth
           /\ \A k \in Cpi!Names(month) : n <= k
           /\ Cpi!Lookup(month) = fixings[n, month]
           /\ fixings[n, month] \in Nat \ {0}
<1> DEFINE S == Cpi!Names(month)
<1> DEFINE IsFirst(n) == n \in S /\ \A k \in S : n <= k
<1>1. S \in SUBSET Nat
  BY CpiParameters DEF Cpi!Names
<1>2. \E n \in S : \A k \in S : n <= k
  BY <1>1, LeastNat
<1>3. PICK n : n = CHOOSE m \in S : \A k \in S : m <= k
  OBVIOUS
<1>4. n \in S /\ \A k \in S : n <= k
  BY <1>2, <1>3
<1>5. Cpi!Lookup(month) = fixings[n, month]
  BY <1>3 DEF Cpi!Lookup
<1>6. <<n, month>> \in DOMAIN fixings /\ fixings[n, month] # 0
  BY <1>4 DEF Cpi!Names, Cpi!Missing
<1>7. n \in DOMAIN IndexNames /\ month \in IndexMonth
  <2>1. DOMAIN fixings = (DOMAIN IndexNames) \X IndexMonth
    BY DEF CpiTypeOK
  <2>2. <<n, month>> \in (DOMAIN IndexNames) \X IndexMonth
    BY <1>6, <2>1
  <2> QED
    BY <2>2
<1>8. fixings[n, month] \in Nat \ {0}
  <2>1. fixings[<<n, month>>] \in IndexValue \cup {0}
    BY <1>7 DEF CpiTypeOK
  <2> QED
    BY <1>6, <2>1, CpiParameters
<1> QED
  BY <1>4, <1>5, <1>7, <1>8

LEMMA LookupIsFirstNext ==
  ASSUME CpiTypeOK', NEW month, Cpi!Names(month)' # {}
  PROVE  \E n \in Cpi!Names(month)' :
           /\ \A k \in Cpi!Names(month)' : n <= k
           /\ Cpi!Lookup(month)' = fixings'[n, month]
           /\ Cpi!Lookup(month)' # Cpi!Missing
<1>1. Cpi!Names(month)' \in SUBSET Nat
  BY CpiParameters DEF Cpi!Names
<1>2. \E n \in Cpi!Names(month)' : \A k \in Cpi!Names(month)' : n <= k
  BY <1>1, LeastNat
<1>3. PICK n : n = CHOOSE m \in Cpi!Names(month)' : \A k \in Cpi!Names(month)' : m <= k
  OBVIOUS
<1>4. n \in Cpi!Names(month)' /\ \A k \in Cpi!Names(month)' : n <= k
  BY <1>2, <1>3
<1>5. Cpi!Lookup(month)' = fixings'[n, month]
  BY <1>3 DEF Cpi!Lookup
<1>6. fixings'[n, month] # Cpi!Missing
  BY <1>4 DEF Cpi!Names, Cpi!Missing
<1> QED
  BY <1>4, <1>5, <1>6

LEMMA LookupType ==
  ASSUME CpiTypeOK, NEW month
  PROVE  /\ Cpi!Lookup(month) \in Nat
         /\ Cpi!Lookup(month) # Cpi!Missing <=> Cpi!Names(month) # {}
<1>1. CASE Cpi!Names(month) = {}
  BY <1>1 DEF Cpi!Lookup, Cpi!Missing
<1>2. CASE Cpi!Names(month) # {}
  BY <1>2, LookupIsFirst DEF Cpi!Missing
<1> QED
  BY <1>1, <1>2

(* A month has days.                                                       *)
LEMMA MonthHasDays ==
  ASSUME NEW month \in Int
  PROVE  Cpi!DaysIn(month) \in Nat \ {0}
<1>1. (month % 12) + 1 \in 1 .. 12
  OBVIOUS
<1>2. ASSUME NEW y, NEW m \in 1 .. 12
      PROVE  Cpi!MonthLength(y, m) \in Nat \ {0}
  BY <1>2 DEF Cpi!MonthLength
<1> QED
  BY <1>1, <1>2 DEF Cpi!DaysIn

-----------------------------------------------------------------------------
(* From day to day the linear index of a month grows by the same amount.   *)
LEMMA StepWithin ==
  ASSUME CpiTypeOK, method = "LINEAR", NEW month \in Int, NEW day \in Int
  PROVE  Cpi!Scaled(month, day + 1) - Cpi!Scaled(month, day)
           = Cpi!Second(month) - Cpi!First(month)
<1> DEFINE a == Cpi!First(month)
           b == Cpi!Second(month)
           n == Cpi!DaysIn(month)
<1>1. a \in Int /\ b \in Int /\ n \in Int
  BY LookupType, MonthHasDays DEF Cpi!First, Cpi!Second
<1>2. \A d \in Int : Cpi!Scaled(month, d) = a * n + (b - a) * (d - 1)
  BY DEF Cpi!Scaled, Cpi!DayOffset
<1>3. (b - a) * ((day + 1) - 1) = (b - a) * (day - 1) + (b - a)
  BY <1>1
<1>4. /\ Cpi!Scaled(month, day + 1) = a * n + (b - a) * ((day + 1) - 1)
      /\ Cpi!Scaled(month, day) = a * n + (b - a) * (day - 1)
  BY <1>2
<1>5. a * n \in Int /\ (b - a) * (day - 1) \in Int /\ b - a \in Int
  BY <1>1
<1> HIDE DEF a, b, n
<1>6. Cpi!Scaled(month, day + 1) - Cpi!Scaled(month, day) = b - a
  BY <1>3, <1>4, <1>5
<1> QED
  BY <1>6 DEF a, b

LEMMA SecondIsNextFirst ==
  ASSUME NEW month \in Int
  PROVE  Cpi!First(month + 1) = Cpi!Second(month)
<1>1. (month + 1) - IndexLag = month + 1 - IndexLag
  BY CpiParameters
<1> QED
  BY <1>1 DEF Cpi!First, Cpi!Second

(* The first day of a month is worth its own first fixing, the second of   *)
(* the month before.                                                       *)
LEMMA StepOverMonthEnd ==
  ASSUME CpiTypeOK, method = "LINEAR", NEW month \in Int
  PROVE  (Cpi!Scaled(month + 1, 1) \div Cpi!DaysIn(month + 1)) * Cpi!DaysIn(month)
           - Cpi!Scaled(month, Cpi!DaysIn(month))
             = Cpi!Second(month) - Cpi!First(month)
<1> DEFINE a == Cpi!First(month)
           b == Cpi!Second(month)
           c == Cpi!Second(month + 1)
           n == Cpi!DaysIn(month)
           m == Cpi!DaysIn(month + 1)
<1>1. /\ a \in Int /\ b \in Int /\ c \in Int
      /\ n \in Int /\ m \in Nat \ {0}
  BY LookupType, MonthHasDays DEF Cpi!First, Cpi!Second
<1>2. Cpi!First(month + 1) = b
  BY SecondIsNextFirst
<1>3. Cpi!Scaled(month + 1, 1) = b * m + (c - b) * (1 - 1)
  BY <1>2 DEF Cpi!Scaled, Cpi!DayOffset
<1>4. Cpi!Scaled(month, n) = a * n + (b - a) * (n - 1)
  BY DEF Cpi!Scaled, Cpi!DayOffset
<1> HIDE DEF a, b, c, n, m
<1>5. Cpi!Scaled(month + 1, 1) = b * m
  BY <1>1, <1>3
<1>6. (b * m) \div m = b
  BY <1>1
<1>7. a * n + (b - a) * (n - 1) = b * n - (b - a)
  BY <1>1
<1>8. b * n \in Int /\ b - a \in Int
  BY <1>1
<1>9. b * n - (b * n - (b - a)) = b - a
  BY <1>8
<1>10. (Cpi!Scaled(month + 1, 1) \div m) * n - Cpi!Scaled(month, n) = b - a
  BY <1>4, <1>5, <1>6, <1>7, <1>9
<1> QED
  BY <1>10 DEF a, b, m, n

(* The linear index has no jump, whatever the fixings and the lengths of   *)
(* the months.                                                             *)
THEOREM CpiHasNoJumpHolds == PartSpec => []CpiHasNoJump
<1>1. CpiInv => CpiHasNoJump
  <2> SUFFICES ASSUME CpiInv, part = "cpi", method = "LINEAR",
                      NEW month \in {m \in Cpi!SettlementMonth : Cpi!Defined(m)}
               PROVE  LET step == Cpi!Second(month) - Cpi!First(month)
                      IN  /\ \A day \in 1 .. Cpi!DaysIn(month) - 1 :
                               Cpi!Scaled(month, day + 1) - Cpi!Scaled(month, day) = step
                          /\ Cpi!Defined(month + 1) =>
                               (Cpi!Scaled(month + 1, 1) \div Cpi!DaysIn(month + 1))
                                   * Cpi!DaysIn(month)
                                 - Cpi!Scaled(month, Cpi!DaysIn(month)) = step
    BY DEF CpiHasNoJump, Cpi!CpiHasNoJump
  <2>1. CpiTypeOK
    BY DEF CpiInv
  <2>2. month \in Int
    BY CpiParameters DEF Cpi!SettlementMonth
  <2> QED
    BY <2>1, <2>2, StepWithin, StepOverMonthEnd
<1> QED
  BY <1>1, CpiInvariant, PTL

-----------------------------------------------------------------------------
(* A fixing leaves the look-up of a month alone unless it is in that month *)
(* and under the name that is looked up or one before it.                  *)
LEMMA LookupStays ==
  ASSUME CpiTypeOK, NEW name \in DOMAIN IndexNames, NEW m \in IndexMonth,
         NEW value \in IndexValue, Cpi!AddFixing(name, m, value),
         NEW month, Cpi!Names(month) # {}
  PROVE  /\ Cpi!Lookup(month)' # Cpi!Missing
         /\ ~ Cpi!Replaced(month) => Cpi!Lookup(month)' = Cpi!Lookup(month)
<1> DEFINE at == <<name, m>>
<1>0. /\ fixings' = [fixings EXCEPT ![at] = value] /\ CpiTypeOK'
      /\ DOMAIN fixings = (DOMAIN IndexNames) \X IndexMonth
      /\ DOMAIN fixings' = DOMAIN fixings /\ at \in DOMAIN fixings
      /\ DOMAIN IndexNames \subseteq Nat
  BY CpiStaysTyped, CpiParameters DEF Cpi!AddFixing, Cpi!Next, CpiTypeOK
<1>1. PICK n \in Cpi!Names(month) :
        /\ n \in DOMAIN IndexNames /\ month \in IndexMonth
        /\ \A k \in Cpi!Names(month) : n <= k
        /\ Cpi!Lookup(month) = fixings[n, month]
        /\ fixings[n, month] \in Nat \ {0}
  BY LookupIsFirst
<1>2. value # 0
  BY CpiParameters
<1>3. \A k : k \in Cpi!Names(month)' <=>
              k \in Cpi!Names(month) \/ (k = name /\ month = m)
  <2>1. ASSUME NEW k \in DOMAIN IndexNames
        PROVE  fixings'[<<k, month>>] = IF k = name /\ month = m THEN value
                                        ELSE fixings[<<k, month>>]
    <3>1. <<k, month>> \in DOMAIN fixings
      BY <1>0, <1>1
    <3>2. <<k, month>> = at <=> k = name /\ month = m
      OBVIOUS
    <3> HIDE DEF at
    <3> QED
      BY <1>0, <3>1, <3>2
  <2>2. \A k \in DOMAIN IndexNames : <<k, month>> \in DOMAIN fixings
    BY <1>0, <1>1
  <2> HIDE DEF at
  <2> QED
    BY <1>0, <1>2, <2>1, <2>2 DEF Cpi!Names, Cpi!Missing
<1>4. n \in Cpi!Names(month)'
  BY <1>3
<1>5. ASSUME ~ Cpi!Replaced(month)
      PROVE  Cpi!Lookup(month)' = Cpi!Lookup(month)
  <2>1. \A k \in DOMAIN IndexNames :
          (\A j \in Cpi!Names(month) : k <= j) => fixings'[k, month] = fixings[k, month]
    BY <1>5, <1>1 DEF Cpi!Replaced
  <2>2. \A k \in Cpi!Names(month)' : n <= k
    <3>0. /\ name \in Nat /\ n \in Nat
          /\ \A j \in Cpi!Names(month) : j \in Nat /\ n <= j
      BY <1>0, <1>1 DEF Cpi!Names
    <3>1. ASSUME name < n, month = m
          PROVE  FALSE
      <4>1. (\A j \in Cpi!Names(month) : name <= j) /\ name \notin Cpi!Names(month)
        BY <3>0, <3>1
      <4>2. fixings[name, month] = 0
        BY <1>0, <3>1, <4>1 DEF Cpi!Names, Cpi!Missing
      <4>3. fixings'[name, month] = value
        BY <1>0, <3>1
      <4> QED
        BY <1>2, <2>1, <4>1, <4>2, <4>3
    <3>2. month = m => n <= name
      BY <3>0, <3>1
    <3> QED
      BY <1>3, <3>0, <3>2
  <2>3. fixings'[n, month] = fixings[n, month]
    BY <1>1, <2>1
  <2>4. PICK j \in Cpi!Names(month)' :
          /\ \A k \in Cpi!Names(month)' : j <= k
          /\ Cpi!Lookup(month)' = fixings'[j, month]
    BY <1>0, <1>4, LookupIsFirstNext
  <2>5. j = n
    <3>1. j <= n /\ n <= j /\ j \in Nat /\ n \in Nat
      BY <1>0, <1>1, <1>4, <2>2, <2>4 DEF Cpi!Names
    <3> QED
      BY <3>1
  <2> QED
    BY <1>1, <2>3, <2>4, <2>5
<1>6. Cpi!Lookup(month)' # Cpi!Missing
  BY <1>0, <1>4, LookupIsFirstNext
<1> QED
  BY <1>5, <1>6

LEMMA IndexStays ==
  ASSUME CpiTypeOK, Cpi!Next
  PROVE  Cpi!KeepsIndex
<1> SUFFICES ASSUME NEW month \in {m \in Cpi!SettlementMonth : Cpi!Defined(m)}
             PROVE  /\ Cpi!Defined(month)'
                    /\ ~ Cpi!Replaced(month - IndexLag)
                       /\ ~ Cpi!Replaced(month + 1 - IndexLag) =>
                         Cpi!Scaled(month, 2)' = Cpi!Scaled(month, 2)
  BY DEF Cpi!KeepsIndex
<1>1. PICK name \in DOMAIN IndexNames, m \in IndexMonth, value \in IndexValue :
        Cpi!AddFixing(name, m, value)
  BY DEF Cpi!Next
<1>2. CpiTypeOK' /\ method' = method /\ method \in {"MONTHLY", "LINEAR"}
  BY <1>1, CpiStaysTyped DEF Cpi!AddFixing, CpiTypeOK
<1>3. ASSUME NEW at, Cpi!Lookup(at) # Cpi!Missing
      PROVE  /\ Cpi!Lookup(at)' # Cpi!Missing
             /\ ~ Cpi!Replaced(at) => Cpi!Lookup(at)' = Cpi!Lookup(at)
  BY <1>1, <1>3, LookupType, LookupStays
<1>4. Cpi!First(month) # Cpi!Missing
      /\ (method = "LINEAR" => Cpi!Second(month) # Cpi!Missing)
  BY DEF Cpi!Defined
<1>5. /\ Cpi!First(month)' # Cpi!Missing
      /\ ~ Cpi!Replaced(month - IndexLag) => Cpi!First(month)' = Cpi!First(month)
  BY <1>3, <1>4 DEF Cpi!First
<1>6. method = "LINEAR" =>
        /\ Cpi!Second(month)' # Cpi!Missing
        /\ ~ Cpi!Replaced(month + 1 - IndexLag) => Cpi!Second(month)' = Cpi!Second(month)
  BY <1>3, <1>4 DEF Cpi!Second
<1>7. Cpi!Defined(month)'
  BY <1>2, <1>5, <1>6 DEF Cpi!Defined, Cpi!Missing
<1>8. ASSUME ~ Cpi!Replaced(month - IndexLag), ~ Cpi!Replaced(month + 1 - IndexLag)
      PROVE  Cpi!Scaled(month, 2)' = Cpi!Scaled(month, 2)
  <2>1. CASE method = "MONTHLY"
    BY <1>2, <1>5, <1>8, <2>1 DEF Cpi!Scaled
  <2>2. CASE method = "LINEAR"
    BY <1>2, <1>5, <1>6, <1>8, <2>2 DEF Cpi!Scaled
  <2> QED
    BY <1>2, <2>1, <2>2
<1> QED
  BY <1>7, <1>8

(* An index that has been paid on stays until a fixing it was made from is *)
(* revised, or one under a name that comes before is published.            *)
THEOREM CpiStaysHolds == PartSpec => CpiStays
<1>1. CpiInv /\ [PartNext]_all => [part = "cpi" => Cpi!KeepsIndex]_all
  <2> SUFFICES ASSUME CpiInv, PartNext, part = "cpi", ~ UNCHANGED all
               PROVE  Cpi!KeepsIndex
    OBVIOUS
  <2>1. CpiTypeOK
    BY DEF CpiInv
  <2>2. Cpi!Next
    BY DEF PartNext, BondNext
  <2> QED
    BY <2>1, <2>2, IndexStays
<1> QED
  BY <1>1, CpiInvariant, PTL DEF PartSpec, CpiStays

-----------------------------------------------------------------------------
(* The overnight coupon.  Dates are told apart from projections.           *)

CouponTypeOK ==
  /\ note \in Note /\ observed = Coupon!ObservedDates(note)
  /\ today \in Nat /\ fixings \subseteq Nat \ {0}

CouponInv == part = "coupon" => CouponTypeOK

LEMMA CouponSteps ==
  ASSUME [PartNext]_all, part = "coupon"
  PROVE  Coupon!Next \/ UNCHANGED <<note, observed, today, fixings>>
BY DEF PartNext, BondNext, all, coupon

LEMMA ObservedAreDates ==
  ASSUME CouponTypeOK
  PROVE  /\ DOMAIN observed = Coupon!SegmentStarts(note)
         /\ \A day \in DOMAIN observed : observed[day] \in Nat \ {0}
         /\ Coupon!RequiredFixingDates \subseteq Nat \ {0}
         /\ note.projection \in {0, 0 - 1}
<1>1. /\ Coupon!IsNote(note)
      /\ \A day \in Coupon!SegmentStarts(note) : Coupon!ObservedDates(note)[day] \in Nat \ {0}
  BY PartsAssumption DEF Coupon!NoteConstants, CouponTypeOK
<1>2. DOMAIN observed = Coupon!SegmentStarts(note)
  BY DEF CouponTypeOK, Coupon!ObservedDates
<1>3. \A day \in DOMAIN observed : observed[day] \in Nat \ {0}
  BY <1>1, <1>2 DEF CouponTypeOK
<1>4. Coupon!RequiredFixingDates \subseteq Nat \ {0}
  BY <1>3 DEF Coupon!RequiredFixingDates
<1> QED
  BY <1>1, <1>2, <1>3, <1>4 DEF Coupon!IsNote, Coupon!Curve, Coupon!CurrentRate

LEMMA CouponStaysTyped ==
  ASSUME CouponTypeOK, Coupon!Next
  PROVE  CouponTypeOK'
<1>1. CASE Coupon!NextDay
  BY <1>1 DEF Coupon!NextDay, CouponTypeOK, Coupon!ObservedDates
<1>2. ASSUME NEW date \in Coupon!RequiredFixingDates, Coupon!AddFixing(date)
      PROVE  CouponTypeOK'
  BY <1>2, ObservedAreDates DEF Coupon!AddFixing, CouponTypeOK
<1> QED
  BY <1>1, <1>2 DEF Coupon!Next

(* The observed date of every accrual day of a note is the one its         *)
(* constructor computed, and fixings are those of dates.                   *)
THEOREM CouponInvariant == PartSpec => []CouponInv
<1>1. PartInit => CouponInv
  <2> SUFFICES ASSUME PartInit, part = "coupon" PROVE CouponTypeOK
    BY DEF CouponInv
  <2>1. Coupon!Init
    BY DEF PartInit
  <2>2. note.start \in Nat
    BY <2>1, PartsAssumption DEF Coupon!Init, Coupon!NoteConstants
  <2> QED
    BY <2>1, <2>2 DEF Coupon!Init, CouponTypeOK
<1>2. CouponInv /\ [PartNext]_all => CouponInv'
  <2> SUFFICES ASSUME CouponInv, [PartNext]_all, part' = "coupon"
               PROVE  CouponTypeOK'
    BY DEF CouponInv
  <2>1. part = "coupon" /\ CouponTypeOK
    BY PartIsKept DEF CouponInv
  <2>2. CASE Coupon!Next
    BY <2>1, <2>2, CouponStaysTyped
  <2>3. CASE UNCHANGED <<note, observed, today, fixings>>
    BY <2>1, <2>3 DEF CouponTypeOK
  <2> QED
    BY <2>1, <2>2, <2>3, CouponSteps
<1> QED
  BY <1>1, <1>2, PTL DEF PartSpec

LEMMA FixedRatesStay ==
  ASSUME CouponTypeOK, Coupon!Next
  PROVE  Coupon!KeepsFixedRates
<1> SUFFICES ASSUME NEW day \in DOMAIN observed, Coupon!Rate(day) \in fixings
             PROVE  Coupon!Rate(day)' = Coupon!Rate(day)
  BY DEF Coupon!KeepsFixedRates
<1>1. observed[day] \in Nat \ {0} /\ note.projection \in {0, 0 - 1}
      /\ fixings \subseteq Nat \ {0}
  BY ObservedAreDates DEF CouponTypeOK
<1>2. Coupon!Known(observed[day]) /\ observed[day] \in fixings
  BY <1>1 DEF Coupon!Rate
<1>3. /\ observed' = observed /\ fixings \subseteq fixings'
      /\ today \in Nat /\ today' \in Nat /\ today <= today'
  BY DEF Coupon!Next, Coupon!NextDay, Coupon!AddFixing, CouponTypeOK
<1>4. Coupon!Known(observed[day])' /\ observed'[day] \in fixings'
  BY <1>1, <1>2, <1>3 DEF Coupon!Known
<1>5. Coupon!Rate(day) = observed[day] /\ Coupon!Rate(day)' = observed'[day]
  BY <1>2, <1>4 DEF Coupon!Rate
<1> QED
  BY <1>3, <1>5

(* A day that has its fixing keeps it, whatever is published later and     *)
(* however the note projects.                                              *)
THEOREM RateSettlesHolds == PartSpec => RateSettles
<1>1. CouponInv /\ [PartNext]_all => [part = "coupon" => Coupon!KeepsFixedRates]_all
  <2> SUFFICES ASSUME CouponInv, PartNext, part = "coupon", ~ UNCHANGED all
               PROVE  Coupon!KeepsFixedRates
    OBVIOUS
  <2>1. CouponTypeOK
    BY DEF CouponInv
  <2>2. Coupon!Next
    BY DEF PartNext, BondNext
  <2> QED
    BY <2>1, <2>2, FixedRatesStay
<1> QED
  BY <1>1, CouponInvariant, PTL DEF PartSpec, RateSettles

-----------------------------------------------------------------------------
(* The dates of a coupon are counted by its own calendar.                  *)

LEMMA CouponCounts ==
  /\ \A S : Coupon!Cardinality(S) = Cardinality(S) /\ Coupon!Max(S) = Max(S)
     /\ Coupon!Min(S) = Min(S)
  /\ \A c, d : Coupon!IsOpen(c, d) <=> IsOpen(c, d)
  /\ \A c : Coupon!IsCalendar(c) <=> IsCalendar(c)
<1>1. ASSUME NEW S
      PROVE  Coupon!Cardinality(S) = Cardinality(S) /\ Coupon!Max(S) = Max(S)
             /\ Coupon!Min(S) = Min(S)
  <2>1. Coupon!Cardinality(S) = Cardinality(S)
    BY Zenon DEF Coupon!Cardinality, Cardinality
  <2>2. Coupon!Max(S) = Max(S)
    BY Zenon DEF Coupon!Max, Max
  <2>3. Coupon!Min(S) = Min(S)
    BY Zenon DEF Coupon!Min, Min
  <2> QED
    BY <2>1, <2>2, <2>3
<1>2. \A c, d : Coupon!IsOpen(c, d) <=> IsOpen(c, d)
  BY Zenon DEF Coupon!IsOpen, IsOpen, Coupon!Weekday, Weekday
<1>3. \A S : Coupon!IsFiniteSet(S) <=> IsFiniteSet(S)
  BY Zenon DEF Coupon!IsFiniteSet, IsFiniteSet
<1>4. \A c : Coupon!IsCalendar(c) <=> IsCalendar(c)
  BY <1>3, Zenon DEF Coupon!IsCalendar, IsCalendar
<1> QED
  BY <1>1, <1>2, <1>4

LEMMA CouponDays ==
  /\ \A c, S : Coupon!OpenDays(c, S) = OpenDays(c, S)
  /\ \A c, d : Coupon!Preceding(c, d) = Preceding(c, d)
  /\ \A c, d, n : Coupon!AddBusinessDays(c, d, n) = AddBusinessDays(c, d, n)
<1>1. \A c : Coupon!Reach(c) = Reach(c)
  BY CouponCounts, Zenon DEF Coupon!Reach, Reach
<1>2. ASSUME NEW c, NEW S
      PROVE  Coupon!OpenDays(c, S) = OpenDays(c, S)
  BY Zenon DEF Coupon!OpenDays, OpenDays, Coupon!IsOpen, IsOpen, Coupon!Weekday, Weekday
<1>3. ASSUME NEW c, NEW d
      PROVE  Coupon!Preceding(c, d) = Preceding(c, d)
  BY Zenon DEF Coupon!Preceding, Preceding, Coupon!Max, Max, Coupon!Reach, Reach,
               Coupon!Cardinality, Cardinality, Coupon!IsOpen, IsOpen, Coupon!Weekday,
               Weekday
<1>4. ASSUME NEW c, NEW d, NEW n
      PROVE  Coupon!AddBusinessDays(c, d, n) = AddBusinessDays(c, d, n)
  BY Zenon DEF Coupon!AddBusinessDays, AddBusinessDays, Coupon!OpenDays, OpenDays,
       Coupon!Reach, Reach,
               Coupon!Cardinality, Cardinality, Coupon!IsOpen, IsOpen, Coupon!Weekday,
               Weekday
<1> QED
  BY <1>2, <1>3, <1>4

-----------------------------------------------------------------------------
(* The days a coupon reads.                                                *)

Days(n) == Coupon!SegmentStarts(n)

LEMMA NoteTypes ==
  ASSUME CouponTypeOK
  PROVE  /\ IsCalendar(note.calendar) /\ note.start \in Nat /\ note.end \in Nat
            /\ note.start < note.end
         /\ note.lookback \in Nat /\ note.lockout \in Nat
         /\ note.shift \in {"NONE", "LOOKBACK", "OBSERVATION_SHIFT"}
         /\ Days(note) = OpenDays(note.calendar, note.start .. note.end - 1)
         /\ Days(note) \in SUBSET Int /\ IsFiniteSet(Days(note))
         /\ \A day \in Days(note) :
              note.start <= day /\ day < note.end /\ IsOpen(note.calendar, day)
<1>1. /\ Coupon!IsNote(note) /\ note.start \in Nat /\ note.end \in Nat
  BY PartsAssumption DEF Coupon!NoteConstants, CouponTypeOK
<1>2. /\ IsCalendar(note.calendar) /\ note.start < note.end
      /\ note.lookback \in Nat /\ note.lockout \in Nat
      /\ note.shift \in {"NONE", "LOOKBACK", "OBSERVATION_SHIFT"}
  BY <1>1, CouponCounts DEF Coupon!IsNote
<1>3. Days(note) = OpenDays(note.calendar, note.start .. note.end - 1)
  BY CouponDays DEF Days, Coupon!SegmentStarts
<1>4. Days(note) \in SUBSET Int /\ IsFiniteSet(Days(note))
  <2>1. note.start \in Int /\ note.end \in Int
    BY <1>1
  <2>2. /\ IsFiniteSet(OpenDays(note.calendar, note.start .. note.end - 1))
        /\ OpenDays(note.calendar, note.start .. note.end - 1) \in SUBSET Int
    BY <2>1, CountType
  <2> QED
    BY <1>3, <2>2
<1>5. \A day \in Days(note) :
        note.start <= day /\ day < note.end /\ IsOpen(note.calendar, day)
  BY <1>1, <1>3 DEF OpenDays
<1> QED
  BY <1>1, <1>2, <1>3, <1>4, <1>5

(* The last day of the period, and how many there are from a day on.       *)
LEMMA LastDay ==
  ASSUME CouponTypeOK, Days(note) # {}
  PROVE  LET last == Max(Days(note))
         IN  /\ last \in Days(note) /\ \A day \in Days(note) : day <= last
             /\ \A day \in Days(note) :
                  Coupon!FromEnd(note, day) = Count(note.calendar, day, last) + 1
<1> DEFINE last == Max(Days(note))
           c == note.calendar
<1>1. last \in Days(note) /\ \A day \in Days(note) : day <= last
  <2>1. note.end \in Int /\ Days(note) \in SUBSET Int
    BY NoteTypes
  <2>2. \A day \in Days(note) : day <= note.end
    BY <2>1, NoteTypes
  <2> QED
    BY <2>1, <2>2, LastDate
<1>2. ASSUME NEW day \in Days(note)
      PROVE  Coupon!FromEnd(note, day) = Count(c, day, last) + 1
  <2> DEFINE S == {d \in Days(note) : d >= day}
  <2>1. Coupon!FromEnd(note, day) = Cardinality(S)
    BY CouponCounts DEF Coupon!FromEnd, Days
  <2>2. day \in Int /\ last \in Int /\ day <= last /\ note.start \in Int /\ note.end \in Int
    BY <1>1, NoteTypes
  <2>3. S = OpenDays(c, day .. last - 1) \cup {last}
    <3>1. ASSUME NEW d
          PROVE  d \in S <=> d \in OpenDays(c, day .. last - 1) \cup {last}
      <4>1. d \in S => d \in OpenDays(c, day .. last - 1) \cup {last}
        BY <1>1, <2>2, NoteTypes DEF OpenDays
      <4>2. d \in OpenDays(c, day .. last - 1) => d \in S
        <5> HAVE d \in OpenDays(c, day .. last - 1)
        <5>1. d \in Int /\ day <= d /\ d < last /\ IsOpen(c, d)
          BY <2>2 DEF OpenDays
        <5>2. note.start <= d /\ d < note.end
          BY <1>1, <2>2, <5>1, NoteTypes
        <5> QED
          BY <2>2, <5>1, <5>2, NoteTypes DEF OpenDays
      <4>3. last \in S
        BY <1>1, <2>2
      <4> QED
        BY <4>1, <4>2, <4>3
    <3> QED
      BY <3>1
  <2>4. last \notin OpenDays(c, day .. last - 1)
    BY <2>2 DEF OpenDays
  <2>5. IsFiniteSet(OpenDays(c, day .. last - 1)) /\ Count(c, day, last) \in Nat
    BY <2>2, CountType
  <2>6. Cardinality(OpenDays(c, day .. last - 1) \cup {last})
          = Cardinality(OpenDays(c, day .. last - 1)) + 1
    BY <2>4, <2>5, FS_AddElement
  <2>7. Count(c, day, last) = Cardinality(OpenDays(c, day .. last - 1))
    BY DEF Count
  <2> QED
    BY <2>1, <2>3, <2>6, <2>7
<1> QED
  BY <1>1, <1>2

(* The locked day of every day leaves the lockout behind it.               *)
LEMMA LockedBack ==
  ASSUME CouponTypeOK, NEW day \in Days(note), note.lockout < Cardinality(Days(note))
  PROVE  LET locked == Coupon!LockedDay(note, day)
         IN  locked \in Days(note) /\ note.lockout < Coupon!FromEnd(note, locked)
<1> DEFINE m == note.lockout + 1
           IsLocked(d) == Coupon!FromEnd(note, d) = m
<1>1. note.lockout \in Nat /\ Cardinality(Days(note)) \in Nat
  BY NoteTypes, FS_CardinalityType
<1>2. Coupon!Min({note.lockout + 1, Coupon!Cardinality(Days(note))}) = m
  <2> DEFINE T == {note.lockout + 1, Cardinality(Days(note))}
  <2>1. Min(T) \in T /\ \A t \in T : Min(T) <= t
    <3>1. T \in SUBSET Int /\ T # {} /\ \A t \in T : 0 <= t
      BY <1>1
    <3>2. 0 \in Int
      OBVIOUS
    <3> HIDE DEF T
    <3> QED
      BY <3>1, <3>2, FirstDate
  <2>2. Min(T) = m
    BY <1>1, <2>1
  <2> QED
    BY <2>2, CouponCounts
<1>3. CASE Coupon!FromEnd(note, day) > note.lockout
  <2>1. Coupon!LockedDay(note, day) = day
    BY <1>3 DEF Coupon!LockedDay
  <2> QED
    BY <1>3, <2>1
<1>4. CASE ~ (Coupon!FromEnd(note, day) > note.lockout)
  <2>1. Coupon!LockedDay(note, day) = CHOOSE d \in Days(note) : IsLocked(d)
    BY <1>2, <1>4 DEF Coupon!LockedDay, Days
  <2>2. \E d \in Days(note) : IsLocked(d)
    <3>1. /\ note.start \in Int /\ note.end \in Int
          /\ Days(note) \in SUBSET (note.start .. note.end)
      <4>1. note.start \in Int /\ note.end \in Int
        BY NoteTypes
      <4>2. \A d \in Days(note) : d \in note.start .. note.end
        BY <4>1, NoteTypes
      <4> QED
        BY <4>1, <4>2
    <3>2. \A k \in Nat \ {0} : k <= Cardinality(Days(note)) =>
            \E d \in Days(note) : Cardinality({s \in Days(note) : s >= d}) = k
      BY <3>1, NthDateFromEnd
    <3>3. m \in Nat \ {0} /\ m <= Cardinality(Days(note))
      BY <1>1
    <3>4. PICK d \in Days(note) : Cardinality({s \in Days(note) : s >= d}) = m
      BY <3>2, <3>3
    <3>5. IsLocked(d)
      BY <3>4, CouponCounts DEF Coupon!FromEnd, Days
    <3> QED
      BY <3>5
  <2>3. Coupon!LockedDay(note, day) \in Days(note) /\ IsLocked(Coupon!LockedDay(note, day))
    BY <2>1, <2>2
  <2> QED
    BY <1>1, <2>3
<1> QED
  BY <1>3, <1>4

(* What is observed for a day is an open day with all of the notice        *)
(* between it and the last day of the period.                              *)
LEMMA ObservedEarly ==
  ASSUME CouponTypeOK, NEW day \in Days(note), note.lockout < Cardinality(Days(note))
  PROVE  LET date == Coupon!ObservedDates(note)[day]
             last == Max(Days(note))
         IN  /\ date \in Int /\ date <= last
             /\ Coupon!Notice(note) <= Count(note.calendar, date, last)
<1> DEFINE c == note.calendar
           last == Max(Days(note))
           locked == Coupon!LockedDay(note, day)
           back == IF note.shift = "NONE" THEN 0 ELSE note.lookback
           date == Coupon!ObservationDate(note, locked)
<1>1. Coupon!ObservedDates(note)[day] = date
  BY DEF Coupon!ObservedDates, Days
<1>2. locked \in Days(note) /\ note.lockout < Coupon!FromEnd(note, locked)
  BY LockedBack
<1>3. /\ last \in Days(note) /\ locked <= last
      /\ Coupon!FromEnd(note, locked) = Count(c, locked, last) + 1
  BY <1>2, LastDay
<1>4. /\ IsCalendar(c) /\ locked \in Int /\ last \in Int /\ IsOpen(c, locked)
      /\ note.lookback \in Nat /\ note.lockout \in Nat /\ back \in Nat
      /\ Count(c, locked, last) \in Nat
  BY <1>2, <1>3, NoteTypes, CountType
<1>5. note.lockout <= Count(c, locked, last)
  BY <1>2, <1>3, <1>4
<1> DEFINE shifted == AddBusinessDays(c, locked, 0 - back)
<1> HIDE DEF locked, last, back
<1>6. shifted \in Int /\ shifted <= locked /\ IsOpen(c, shifted)
      /\ Count(c, shifted, locked) = back
  BY <1>4, BackCounts
<1>7. date = Preceding(c, shifted)
  <2>1. date = Preceding(c, IF note.shift = "NONE" THEN locked
                            ELSE AddBusinessDays(c, locked, 0 - note.lookback))
    BY CouponDays DEF Coupon!ObservationDate
  <2>2. CASE note.shift = "NONE"
    <3>1. shifted = locked
      BY <2>2 DEF AddBusinessDays, back
    <3> QED
      BY <2>1, <2>2, <3>1
  <2>3. CASE note.shift # "NONE"
    BY <2>1, <2>3 DEF back
  <2> QED
    BY <2>2, <2>3
<1> HIDE DEF date
<1>8. date = shifted
  <2> HIDE DEF shifted
  <2>1. /\ Preceding(c, shifted) \in Int /\ Preceding(c, shifted) <= shifted
        /\ shifted <= Preceding(c, shifted)
    BY <1>4, <1>6, PrecedingIsLast
  <2> QED
    BY <1>6, <1>7, <2>1
<1> HIDE DEF shifted
<1>9. Count(c, shifted, last) = back + Count(c, locked, last)
  BY <1>3, <1>4, <1>6, CountsAdd
<1>10. Coupon!Notice(note) = back + note.lockout
  BY DEF Coupon!Notice, back
<1>11. date \in Int /\ date <= last /\ Coupon!Notice(note) <= Count(c, date, last)
  BY <1>3, <1>4, <1>5, <1>6, <1>8, <1>9, <1>10
<1> QED
  BY <1>1, <1>11 DEF last

(* A segment ends after its own day and no later than the next open day:   *)
(* the segments leave no day out.                                          *)
LEMMA SegmentsCover ==
  ASSUME CouponTypeOK, Days(note) # {}
  PROVE  UNION {day .. Coupon!SegmentEnd(note, day) - 1 : day \in Days(note)}
           = Min(Days(note)) .. note.end - 1
<1> DEFINE c == note.calendar
           S == Days(note)
           first == Min(S)
           next(day) == AddBusinessDays(c, day, 1)
           last(day) == Coupon!SegmentEnd(note, day)
<1>1. /\ S \in SUBSET Int /\ note.start \in Int /\ note.end \in Int /\ IsCalendar(c)
      /\ \A day \in S : note.start <= day /\ day < note.end /\ IsOpen(c, day)
      /\ S = OpenDays(c, note.start .. note.end - 1)
  BY NoteTypes
<1>2. first \in S /\ \A day \in S : first <= day
  BY <1>1, FirstDate
<1>3. ASSUME NEW day \in S
      PROVE  /\ next(day) \in Int /\ day < next(day)
             /\ \A d \in Int : day < d /\ d < next(day) => ~ IsOpen(c, d)
  <2>1. /\ next(day) \in Int /\ day < next(day) /\ IsOpen(c, next(day))
        /\ Cardinality(OpenDays(c, day + 1 .. next(day))) = 1
    BY <1>1, <1>3, DaysAhead
  <2>2. ASSUME NEW d \in Int, day < d, d < next(day), IsOpen(c, d)
        PROVE  FALSE
    <3> DEFINE T == OpenDays(c, day + 1 .. next(day))
    <3>1. d \in T /\ next(day) \in T
      BY <1>1, <1>3, <2>1, <2>2 DEF OpenDays
    <3>2. IsFiniteSet(T)
      <4>1. T \in SUBSET (day + 1 .. next(day)) /\ day + 1 \in Int
        BY <1>1, <1>3 DEF OpenDays
      <4>2. \A a \in Int : T \in SUBSET (a .. next(day)) => IsFiniteSet(T)
        BY <2>1, BetweenIsFinite
      <4> QED
        BY <4>1, <4>2
    <3>3. \E y : T = {y}
      BY <2>1, <3>2, FS_Singleton
    <3>4. d = next(day)
      BY <3>1, <3>3
    <3> QED
      BY <2>1, <2>2, <3>4
  <2> QED
    BY <2>1, <2>2
<1>4. \A day \in S : last(day) = Earlier(next(day), note.end)
  BY CouponDays DEF Coupon!SegmentEnd, Coupon!Earlier, Earlier
<1> HIDE DEF last, next
<1>5. ASSUME NEW day \in S, NEW d \in day .. last(day) - 1
      PROVE  d \in first .. note.end - 1
  <2>1. last(day) \in Int /\ last(day) <= note.end
    BY <1>1, <1>3, <1>4 DEF Earlier
  <2>2. day \in Int /\ first \in Int /\ first <= day
    BY <1>1, <1>2
  <2> HIDE DEF first, S
  <2> QED
    BY <1>1, <2>1, <2>2
<1>6. ASSUME NEW d \in first .. note.end - 1
      PROVE  \E day \in S : d \in day .. last(day) - 1
  <2> DEFINE T == {day \in S : day <= d}
  <2>1. d \in Int /\ first <= d /\ d < note.end /\ first \in Int
    BY <1>1, <1>2
  <2>2. T # {} /\ T \in SUBSET Int /\ \A t \in T : t <= d
    BY <1>1, <1>2, <2>1
  <2>3. PICK day \in T : \A t \in T : t <= day
    BY <2>1, <2>2, LastDate
  <2>4. day \in S /\ day \in Int /\ day <= d /\ next(day) \in Int /\ day < next(day)
    BY <1>1, <1>3, <2>3
  <2>5. ASSUME next(day) <= d
        PROVE  FALSE
    <3>1. IsOpen(c, next(day))
      BY <1>1, <2>4, DaysAhead DEF next
    <3>2. next(day) \in S
      BY <1>1, <2>1, <2>4, <2>5, <3>1 DEF OpenDays
    <3>3. next(day) \in T
      BY <2>5, <3>2
    <3> QED
      BY <2>3, <2>4, <3>3
  <2>6. d < last(day)
    BY <1>1, <1>4, <2>1, <2>4, <2>5 DEF Earlier
  <2>7. last(day) \in Int
    BY <1>1, <1>4, <2>4 DEF Earlier
  <2>8. d \in day .. last(day) - 1
    BY <2>1, <2>4, <2>6, <2>7
  <2> QED
    BY <2>4, <2>8
<1>7. UNION {day .. last(day) - 1 : day \in S} = first .. note.end - 1
  <2>1. \A d : d \in UNION {day .. last(day) - 1 : day \in S} => d \in first .. note.end - 1
    BY <1>5
  <2>2. \A d : d \in first .. note.end - 1 => d \in UNION {day .. last(day) - 1 : day \in S}
    BY <1>6
  <2> QED
    BY <2>1, <2>2
<1> QED
  BY <1>7 DEF last

(* The coupon is known as many business days ahead as lookback and lockout *)
(* promise, for every calendar, period, shift and order of publication.    *)
THEOREM CouponKnownAheadHolds == PartSpec => []CouponKnownAhead
<1>1. CouponInv => CouponKnownAhead
  <2> SUFFICES ASSUME CouponInv, part = "coupon"
               PROVE  Coupon!CouponKnownAhead
    BY DEF CouponKnownAhead
  <2>1. CouponTypeOK
    BY DEF CouponInv
  <2> DEFINE S == Days(note)
             last == Max(S)
             c == note.calendar
             notice == Coupon!Notice(note)
             limit == AddBusinessDays(c, last, 0 - notice)
  <2>2. DOMAIN observed = S
    BY <2>1, ObservedAreDates DEF Days
  <2> SUFFICES ASSUME notice < Cardinality(S), today > limit,
                      {d \in Coupon!RequiredFixingDates : d < today} \subseteq fixings
               PROVE  Coupon!FixedDays = Min(S) .. note.end - 1
    BY <2>2, CouponCounts, CouponDays DEF Coupon!CouponKnownAhead
  <2>3. /\ notice \in Nat /\ note.lockout \in Nat /\ note.lockout <= notice
        /\ Cardinality(S) \in Nat /\ IsFiniteSet(S) /\ IsCalendar(c)
    <3>1. IsFiniteSet(S) /\ Cardinality(S) \in Nat
      BY <2>1, NoteTypes, FS_CardinalityType
    <3> QED
      BY <2>1, <3>1, NoteTypes DEF Coupon!Notice
  <2>4. S # {} /\ note.lockout < Cardinality(S)
    BY <2>3, FS_EmptySet
  <2>5. last \in S /\ last \in Int /\ IsOpen(c, last)
    BY <2>1, <2>4, LastDay, NoteTypes
  <2>6. limit \in Int /\ limit <= last /\ IsOpen(c, limit) /\ Count(c, limit, last) = notice
    BY <2>3, <2>5, BackCounts
  <2>7. ASSUME NEW day \in S
        PROVE  Coupon!Rate(day) \in fixings
    <3>1. observed[day] = Coupon!ObservedDates(note)[day] /\ today \in Nat
      BY <2>1 DEF CouponTypeOK
    <3>2. /\ observed[day] \in Int /\ observed[day] <= last
          /\ notice <= Count(c, observed[day], last)
      BY <2>1, <2>4, <3>1, ObservedEarly
    <3> HIDE DEF last, limit, notice
    <3>3. observed[day] <= limit
      BY <2>5, <2>6, <3>2, MoreIsEarlier
    <3>4. observed[day] < today
      BY <2>6, <3>1, <3>2, <3>3
    <3>5. observed[day] \in Coupon!RequiredFixingDates
      BY <2>2 DEF Coupon!RequiredFixingDates
    <3>6. observed[day] \in fixings
      BY <3>4, <3>5
    <3>7. Coupon!Known(observed[day])
      BY <3>1, <3>2, <3>4 DEF Coupon!Known
    <3> QED
      BY <3>6, <3>7 DEF Coupon!Rate
  <2>8. {d \in DOMAIN observed : Coupon!Rate(d) \in fixings} = S
    BY <2>2, <2>7
  <2>9. Coupon!FixedDays = UNION {day .. Coupon!SegmentEnd(note, day) - 1 : day \in S}
    BY <2>8 DEF Coupon!FixedDays
  <2> QED
    BY <2>1, <2>4, <2>9, SegmentsCover
<1> QED
  BY <1>1, CouponInvariant, PTL

-----------------------------------------------------------------------------
(* Calendars.                                                              *)

(* A calendar that is open on more days.                                   *)
LEMMA OpenMore ==
  ASSUME NEW c, NEW d, IsCalendar(d), OpensEveryMonth(d), IsFiniteSet(c.holidays),
         c.weekend \subseteq d.weekend, c.holidays \subseteq d.holidays
  PROVE  IsCalendar(c) /\ OpensMonthly(c)
<1>1. IsCalendar(c)
  BY DEF IsCalendar
<1>2. \A day : IsOpen(d, day) => IsOpen(c, day)
  BY DEF IsOpen
<1>3. OpensEveryMonth(c)
  BY <1>2 DEF OpensEveryMonth
<1> QED
  BY <1>1, <1>3, MonthsAreOpen

CalendarTypeOK ==
  /\ own \in [weekend : WeekendType, holidays : SUBSET Holiday]
  /\ other \in [weekend : {{5, 6}}, holidays : SUBSET Holiday]

(* The calendars are edited by holidays only.                              *)
CalendarInv == part = "calendar" => CalendarTypeOK

LEMMA CalendarSteps ==
  ASSUME [PartNext]_all, part = "calendar"
  PROVE  CalendarNext \/ UNCHANGED calendars
BY DEF PartNext, BondNext, all, calendars

LEMMA CalendarStaysTyped ==
  ASSUME CalendarTypeOK, CalendarNext
  PROVE  CalendarTypeOK'
<1>1. ASSUME NEW date \in Holiday, AddHoliday(date)
      PROVE  CalendarTypeOK'
  BY <1>1 DEF AddHoliday, CalendarTypeOK
<1>2. ASSUME NEW date \in Holiday, RemoveHoliday(date)
      PROVE  CalendarTypeOK'
  BY <1>2 DEF RemoveHoliday, CalendarTypeOK
<1>3. CASE MergeFrom
  BY <1>3 DEF MergeFrom, Merged, CalendarTypeOK
<1> QED
  BY <1>1, <1>2, <1>3 DEF CalendarNext

THEOREM CalendarInvariant == PartSpec => []CalendarInv
<1>1. PartInit => CalendarInv
  <2> SUFFICES ASSUME PartInit, part = "calendar" PROVE CalendarTypeOK
    BY DEF CalendarInv
  <2>1. CalendarInit
    BY DEF PartInit
  <2> QED
    BY <2>1 DEF CalendarInit, WeekendOnly, CalendarTypeOK, WeekendType
<1>2. CalendarInv /\ [PartNext]_all => CalendarInv'
  <2> SUFFICES ASSUME CalendarInv, [PartNext]_all, part' = "calendar" PROVE CalendarTypeOK'
    BY DEF CalendarInv
  <2>1. part = "calendar" /\ CalendarTypeOK
    BY PartIsKept DEF CalendarInv
  <2>2. CASE CalendarNext
    BY <2>1, <2>2, CalendarStaysTyped
  <2>3. CASE UNCHANGED calendars
    BY <2>1, <2>3 DEF calendars, CalendarTypeOK
  <2> QED
    BY <2>1, <2>2, <2>3, CalendarSteps
<1> QED
  BY <1>1, <1>2, PTL DEF PartSpec

(* Whatever is a holiday, the calendars are such that a search ends in the *)
(* month or the next one.                                                  *)
LEMMA CalendarsOpen ==
  ASSUME CalendarTypeOK, NEW c \in Calendars
  PROVE  IsCalendar(c) /\ OpensMonthly(c)
<1> DEFINE most == [weekend |-> UNION WeekendType, holidays |-> Holiday]
<1>1. IsFiniteSet(Holiday) /\ OpensEveryMonth(most)
  BY PartsAssumption DEF CalendarConstants
<1>2. most.weekend = UNION WeekendType /\ most.holidays = Holiday
  OBVIOUS
<1>3. 0 \notin UNION WeekendType /\ 0 \in 0 .. 6
  BY DEF WeekendType
<1>4. IsCalendar(most)
  BY <1>1, <1>2, <1>3 DEF IsCalendar
<1>5. /\ own.weekend \in WeekendType /\ own.holidays \subseteq Holiday
      /\ other.weekend = {5, 6} /\ other.holidays \subseteq Holiday
  BY DEF CalendarTypeOK
<1>6. {5, 6} \in WeekendType
  BY DEF WeekendType
<1>7. c.weekend \subseteq UNION WeekendType /\ c.holidays \subseteq Holiday
  <2>1. CASE c = own
    BY <1>5, <2>1
  <2>2. CASE c = Joint({own, other})
    <3>1. c.weekend = own.weekend \cup other.weekend
      BY <2>2 DEF Joint
    <3>2. c.holidays = own.holidays \cup other.holidays
      BY <2>2 DEF Joint
    <3> QED
      BY <1>5, <1>6, <3>1, <3>2
  <2> QED
    BY <2>1, <2>2 DEF Calendars
<1>8. IsFiniteSet(c.holidays)
  BY <1>1, <1>7, FS_Subset
<1> HIDE DEF most
<1> QED
  BY <1>1, <1>2, <1>4, <1>7, <1>8, OpenMore

(* In any calendar that can be edited together from the holidays, and in   *)
(* its joint with the usual weekend: adjusting by any convention ends on   *)
(* an open day, is its own fixed point, keeps the order of dates and, by   *)
(* the modified conventions, the month; counting undoes adding; and a      *)
(* later trade does not settle earlier (Calendar.adjust, add_business_days,*)
(* business_days_between, SettlementRules.settlement_date).                *)
THEOREM BusinessDaysKeepOrderHolds == PartSpec => []BusinessDaysKeepOrder
<1>1. CalendarInv => BusinessDaysKeepOrder
  <2> SUFFICES ASSUME CalendarTypeOK, NEW c \in Calendars
               PROVE  /\ \A convention \in Convention :
                           KeepsOrder(c, convention, [d \in Around |-> Adjust(c, d,
                           convention)])
                      /\ \A d \in Around :
                           /\ \A n \in Lag :
                                (n > 0 \/ IsOpen(c, d)) =>
                                  BusinessDaysBetween(c, d, AddBusinessDays(c, d, n)) = n
                           /\ \A rule \in SettlementRule :
                                SettlesInOrder(c, rule, d, SettlementDate(c, rule, d))
    BY DEF CalendarInv, BusinessDaysKeepOrder, AdjustKeepsOrder, LagKeepsOrder
  <2>1. IsCalendar(c) /\ OpensMonthly(c)
    BY CalendarsOpen
  <2>2. \A d \in Around : d \in Int /\ d + 1 \in Int /\ d <= d + 1
    BY DEF Around
  <2>3. ASSUME NEW convention \in Convention
        PROVE  KeepsOrder(c, convention, [d \in Around |-> Adjust(c, d, convention)])
    <3> SUFFICES ASSUME NEW d \in Around
                 PROVE  /\ convention # "UNADJUSTED" => IsOpen(c, Adjust(c, d, convention))
                        /\ Adjust(c, Adjust(c, d, convention), convention)
                             = Adjust(c, d, convention)
                        /\ d + 1 \in Around =>
                             Adjust(c, d, convention) <= Adjust(c, d + 1, convention)
                        /\ convention \in
                               {"MODIFIED_FOLLOWING", "MODIFIED_PRECEDING",
                               "END_OF_MONTH"} =>
                             Month(Adjust(c, d, convention)) = Month(d)
      BY DEF KeepsOrder
    <3>1. d \in Int /\ d + 1 \in Int /\ d <= d + 1
      BY <2>2
    <3> QED
      BY <2>1, <3>1, AdjustOpens, AdjustTwice, AdjustAscends, AdjustInMonth
  <2>4. ASSUME NEW d \in Around, NEW n \in Lag, n > 0 \/ IsOpen(c, d)
        PROVE  BusinessDaysBetween(c, d, AddBusinessDays(c, d, n)) = n
    <3>1. n \in Int
      BY PartsAssumption DEF CalendarConstants
    <3> QED
      BY <2>1, <2>2, <2>4, <3>1, CountingUndoesAdding
  <2>5. ASSUME NEW d \in Around, NEW rule \in SettlementRule
        PROVE  SettlesInOrder(c, rule, d, SettlementDate(c, rule, d))
    BY <2>1, <2>2, SettlesAscending DEF SettlesInOrder
  <2> QED
    BY <2>3, <2>4, <2>5
<1> QED
  BY <1>1, CalendarInvariant, PTL

-----------------------------------------------------------------------------
(* The meter of accruals: read backwards a day count is negated, and what  *)
(* has marks adds up over any date.                                        *)
Metered == DayCountConvention \ {"ACT_ACT_ICMA"}

LEMMA ReadingIs ==
  ASSUME NEW convention \in Metered, NEW a \in Int, NEW b \in Int, a <= b
  PROVE  /\ Reading(convention, a, b) = PartsForward(convention, 2, a, b)
         /\ Reading(convention, b, a) = 0 - PartsForward(convention, 2, a, b)
         /\ Reading(convention, a, b) \in Int
<1> DEFINE parts == PartsForward(convention, 2, a, b)
<1>1. parts \in Int /\ (a = b => parts = 0)
  BY MeterForward DEF Metered
<1> HIDE DEF parts
<1>2. Reading(convention, a, b) = 1 * parts
  BY DEF Reading, YearFraction, Sign, Earlier, Later, parts
<1>3. Reading(convention, b, a) = (IF b <= a THEN 1 ELSE -1) * parts
  <2>1. Earlier(b, a) = a /\ Later(b, a) = b
    BY DEF Earlier, Later
  <2> QED
    BY <2>1 DEF Reading, YearFraction, Sign, parts
<1> QED
  BY <1>1, <1>2, <1>3 DEF parts

LEMMA ReadingsAdd ==
  ASSUME NEW convention \in Additive, NEW a \in Int, NEW b \in Int, NEW c \in Int
  PROVE  Reading(convention, a, b) + Reading(convention, b, c) = Reading(convention, a, c)
<1>1. convention \in Metered
      /\ convention \in {"ACT_360", "ACT_365_FIXED", "ACT_ACT_ISDA"} \union PlainThirty
  BY DEF Additive, Metered, DayCountConvention, PlainThirty
<1>2. PICK mark \in [Int -> Int] : \A d \in Int, e \in Int : d <= e =>
        PartsForward(convention, 2, d, e) = mark[e] - mark[d]
  BY <1>1, MeterMarks
<1>3. ASSUME NEW d \in Int, NEW e \in Int
      PROVE  Reading(convention, d, e) = mark[e] - mark[d] /\ mark[d] \in Int
  <2>1. mark[d] \in Int /\ mark[e] \in Int
    OBVIOUS
  <2>2. CASE d <= e
    BY <1>1, <1>2, <2>2, ReadingIs
  <2>3. CASE e <= d
    <3>1. Reading(convention, d, e) = 0 - PartsForward(convention, 2, e, d)
      BY <1>1, <2>3, ReadingIs
    <3> QED
      BY <1>2, <2>1, <2>3, <3>1
  <2> QED
    BY <2>1, <2>2, <2>3
<1> QED
  BY <1>3

LEMMA MeterIsRead ==
  ASSUME MeterConstants, start \in StartDate, end \in Int, start <= end
  PROVE  MeterAddsUp
<1>1. start \in Int /\ \A d \in StartDate : d \in Int
  BY DEF MeterConstants
<1>2. ASSUME NEW convention \in Metered
      PROVE  MeterReads(convention, Reading(convention, start, end))
  <2>1. /\ Reading(convention, start, end) = PartsForward(convention, 2, start, end)
        /\ Reading(convention, start, end + 1) = PartsForward(convention, 2, start, end + 1)
        /\ Reading(convention, end, start) = 0 - Reading(convention, start, end)
    <3>1. end + 1 \in Int /\ start <= end + 1
      BY <1>1
    <3> QED
      BY <1>1, <3>1, ReadingIs
  <2>2. (convention = "ACT_365_LEAP" => end - start < 366) =>
          Reading(convention, start, end) <= Reading(convention, start, end + 1)
    BY <1>1, <2>1, MeterForward DEF Metered
  <2>3. ASSUME convention \in Additive, NEW between \in StartDate
        PROVE  Reading(convention, start, between) + Reading(convention, between, end)
                 = Reading(convention, start, end)
    BY <1>1, <2>3, ReadingsAdd
  <2>4. ASSUME IsYearLater,
               convention \in {"ACT_ACT_AFB", "THIRTY_360_E_ISDA", "THIRTY_360_GERMAN",
               "THIRTY_360_US"}
        PROVE  Reading(convention, start, end) = YearParts
    <3>1. end = AddYears(start, 1) /\ IsEndOfMonth(start) = IsEndOfMonth(AddYears(start, 1))
      BY <2>4 DEF IsYearLater
    <3>2. PartsForward(convention, 2, start, AddYears(start, 1)) = YearParts
      BY <1>1, <2>4, <3>1, MeterYearLater
    <3> QED
      BY <2>1, <3>1, <3>2
  <2> QED
    BY <2>1, <2>2, <2>3, <2>4 DEF MeterReads
<1> QED
  BY <1>2 DEF MeterAddsUp, Metered

MeterInv == part = "meter" => start \in StartDate /\ end \in Int /\ start <= end

LEMMA MeterInvariant == PartSpec => []MeterInv
<1>1. PartInit => MeterInv
  <2> SUFFICES ASSUME PartInit, part = "meter"
               PROVE  start \in StartDate /\ end \in Int /\ start <= end
    BY DEF MeterInv
  <2>1. start \in StartDate /\ end = start
    BY DEF PartInit, MeterInit
  <2>2. start \in Int
    BY <2>1, PartsAssumption DEF MeterConstants
  <2> QED
    BY <2>1, <2>2
<1>2. MeterInv /\ [PartNext]_all => MeterInv'
  <2> SUFFICES ASSUME MeterInv, [PartNext]_all, part' = "meter"
               PROVE  start' \in StartDate /\ end' \in Int /\ start' <= end'
    BY DEF MeterInv
  <2>1. start \in StartDate /\ end \in Int /\ start <= end
    BY PartIsKept DEF MeterInv
  <2>2. MeterNext \/ UNCHANGED meter
    BY PartIsKept DEF PartNext, BondNext, all
  <2>3. start \in Int
    BY <2>1, PartsAssumption DEF MeterConstants
  <2> QED
    BY <2>1, <2>2, <2>3 DEF MeterNext, ReadNextDay, meter
<1> QED
  BY <1>1, <1>2, PTL DEF PartSpec

(* From every start date and on every day after it day counts add up and   *)
(* do not run back (AccrualMeter).                                         *)
THEOREM AccrualsAddUpHolds == PartSpec => []AccrualsAddUp
<1>1. MeterInv => AccrualsAddUp
  BY MeterIsRead, PartsAssumption DEF MeterInv, AccrualsAddUp
<1> QED
  BY <1>1, MeterInvariant, PTL

-----------------------------------------------------------------------------
(* Schedules.                                                              *)
LEMMA BondFacts ==
  ASSUME NEW b \in Bond
  PROVE  /\ b.start \in Int /\ b.end \in Int /\ b.start < b.end
         /\ b.months \in {1, 3, 6, 12} /\ Anchor(b) \in Int
         /\ b.first_regular_date \in Int /\ b.penultimate_date \in Int
         /\ IsCalendar(b.calendar) /\ OpensMonthly(b.calendar)
            /\ b.convention \in Convention
<1>1. IsBond(b) /\ IsScheduleConfig(b)
  BY PartsAssumption DEF IsBond
<1>2. IsCalendar(b.calendar) /\ OpensMonthly(b.calendar) /\ b.convention \in Convention
  BY <1>1, MonthsAreOpen DEF IsScheduleConfig
<1>3. /\ b.start \in Int /\ b.end \in Int /\ b.start < b.end
      /\ b.months \in {1, 3, 6, 12}
      /\ b.first_regular_date \in Int /\ b.penultimate_date \in Int
  BY <1>1 DEF IsScheduleConfig, MonthsPerPeriod
<1>4. Anchor(b) \in Int
  BY <1>3 DEF Anchor, StartPoint
<1> QED
  BY <1>2, <1>3, <1>4

(* Does the end-of-month rule keep the dates rolled from the anchor?       *)
KeepsEnd(b) == b.end_of_month /\ IsEndOfMonth(Anchor(b))

LEMMA RolledIs ==
  ASSUME NEW b, NEW d \in Int, NEW n \in Int
  PROVE  /\ Rolled(b, d, n) \in Int
         /\ MonthIndex(Rolled(b, d, n)) = MonthIndex(d) + n
         /\ KeepsEnd(b) => IsEndOfMonth(Rolled(b, d, n))
         /\ ~KeepsEnd(b) => Day(Rolled(b, d, n)) = DayIn(MonthIndex(d) + n, Day(d))
<1> DEFINE m == AddMonths(d, n)
<1>1. m \in Int /\ MonthIndex(m) = MonthIndex(d) + n
      /\ Day(m) = DayIn(MonthIndex(d) + n, Day(d))
  BY MovedByMonths
<1>2. Rolled(b, d, n) = IF KeepsEnd(b) THEN EndOfMonth(m) ELSE m
  BY DEF Rolled, KeepsEnd
<1> HIDE DEF m
<1>3. /\ EndOfMonth(m) \in Int /\ MonthIndex(EndOfMonth(m)) = MonthIndex(m)
      /\ Day(EndOfMonth(m)) = IndexLength(MonthIndex(m))
  BY <1>1, MonthEnd
<1>4. IsEndOfMonth(EndOfMonth(m))
  <2>1. /\ EndOfMonth(EndOfMonth(m)) \in Int
        /\ MonthIndex(EndOfMonth(EndOfMonth(m))) = MonthIndex(EndOfMonth(m))
        /\ Day(EndOfMonth(EndOfMonth(m))) = IndexLength(MonthIndex(EndOfMonth(m)))
    BY <1>3, MonthEnd
  <2>2. EndOfMonth(EndOfMonth(m)) = EndOfMonth(m)
    BY <1>3, <2>1, SameMonthSameDay
  <2> QED
    BY <2>2 DEF IsEndOfMonth
<1> QED
  BY <1>1, <1>2, <1>3, <1>4

LEMMA RollsAscend ==
  ASSUME NEW b, NEW d \in Int, NEW e \in Int, d <= e, NEW n \in Int
  PROVE  Rolled(b, d, n) <= Rolled(b, e, n)
<1>1. AddMonths(d, n) \in Int /\ AddMonths(e, n) \in Int
      /\ AddMonths(d, n) <= AddMonths(e, n)
  BY MovedByMonths, MovesAscend
<1>2. EndOfMonth(AddMonths(d, n)) <= EndOfMonth(AddMonths(e, n))
  BY <1>1, MovesAscend
<1> QED
  BY <1>1, <1>2 DEF Rolled

(* A whole number of periods from the anchor, and on its day of the month  *)
(* or as near to it as the shortest month on the way allows.               *)
IsRegular(b, d) ==
  /\ d \in Int
  /\ (MonthIndex(d) - MonthIndex(Anchor(b))) % b.months = 0
  /\ KeepsEnd(b) => IsEndOfMonth(d)
  /\ ~KeepsEnd(b) =>
       /\ Day(d) <= Day(Anchor(b))
       /\ Day(d) = Day(Anchor(b)) \/ (28 <= Day(d) /\ 28 < Day(Anchor(b)))

LEMMA AnchorIsRegular ==
  ASSUME NEW b \in Bond
  PROVE  IsRegular(b, Anchor(b))
<1> DEFINE a == Anchor(b)
<1>1. a \in Int /\ MonthIndex(a) \in Int /\ Day(a) \in Int
  BY BondFacts, DateInMonth, DayOfDate
<1>2. (MonthIndex(a) - MonthIndex(a)) % b.months = 0
  <2> DEFINE i == MonthIndex(a)
  <2>1. i - i = 0
    BY <1>1
  <2>2. 0 % b.months = 0
    BY BondFacts
  <2> QED
    BY <2>1, <2>2
<1> QED
  BY <1>1, <1>2 DEF IsRegular, KeepsEnd

LEMMA RolledIsRegular ==
  ASSUME NEW b \in Bond, NEW d, IsRegular(b, d), NEW n \in {b.months, 0 - b.months}
  PROVE  IsRegular(b, Rolled(b, d, n))
<1> DEFINE a == Anchor(b)
           r == Rolled(b, d, n)
           m == b.months
           i == MonthIndex(d)
           k == MonthIndex(a)
<1>1. m \in {1, 3, 6, 12} /\ a \in Int /\ n \in {m, 0 - m} /\ n \in Int
  BY BondFacts
<1>2. d \in Int /\ i \in Int /\ k \in Int /\ Day(d) \in Int /\ Day(a) \in Int
  BY <1>1, DateInMonth, DayOfDate DEF IsRegular
<1>3. /\ r \in Int /\ MonthIndex(r) = i + n /\ (KeepsEnd(b) => IsEndOfMonth(r))
      /\ ~KeepsEnd(b) => Day(r) = DayIn(i + n, Day(d))
  BY <1>1, <1>2, RolledIs
<1>4. (i - k) % m = 0
  BY DEF IsRegular
<1>5. IndexLength(i + n) \in Int /\ 28 <= IndexLength(i + n)
  <2>1. i + n \in Int
    BY <1>1, <1>2
  <2> QED
    BY <2>1, MonthsInARow
<1>6. ASSUME ~KeepsEnd(b)
      PROVE  /\ Day(r) <= Day(a)
             /\ Day(r) = Day(a) \/ (28 <= Day(r) /\ 28 < Day(a))
  <2>1. Day(d) <= Day(a) /\ (Day(d) = Day(a) \/ (28 <= Day(d) /\ 28 < Day(a)))
    BY <1>6 DEF IsRegular
  <2>2. Day(r) = IF Day(d) < IndexLength(i + n) THEN Day(d) ELSE IndexLength(i + n)
    BY <1>3, <1>6 DEF DayIn
  <2> HIDE DEF a, r, i
  <2> QED
    BY <1>2, <1>5, <2>1, <2>2
<1> HIDE DEF a, r, m, i, k
<1>7. ((i + n) - k) % m = 0
  <2>1. CASE m = 1
    BY <1>1, <1>2, <1>4, <2>1
  <2>2. CASE m = 3
    BY <1>1, <1>2, <1>4, <2>2
  <2>3. CASE m = 6
    BY <1>1, <1>2, <1>4, <2>3
  <2>4. CASE m = 12
    BY <1>1, <1>2, <1>4, <2>4
  <2> QED
    BY <1>1, <2>1, <2>2, <2>3, <2>4
<1>8. (MonthIndex(r) - k) % m = 0
  BY <1>3, <1>7
<1> QED
  BY <1>3, <1>6, <1>8 DEF IsRegular, a, r, m, k

(* A period later and a period earlier.                                    *)
LEMMA RollsAway ==
  ASSUME NEW b \in Bond, NEW d \in Int
  PROVE  /\ Rolled(b, d, b.months) \in Int /\ d <= Rolled(b, d, b.months)
         /\ Rolled(b, d, 0 - b.months) \in Int /\ Rolled(b, d, 0 - b.months) <= d
<1> DEFINE m == b.months
           r == Rolled(b, d, m)
           s == Rolled(b, d, 0 - m)
<1>1. m \in Int /\ 0 - m \in Int /\ 0 < m /\ MonthIndex(d) \in Int
  BY BondFacts, DateInMonth
<1>2. r \in Int /\ MonthIndex(r) = MonthIndex(d) + m /\ s \in Int
      /\ MonthIndex(s) = MonthIndex(d) + (0 - m)
  BY <1>1, RolledIs
<1> HIDE DEF m, r, s
<1>3. MonthIndex(d) < MonthIndex(r) /\ MonthIndex(s) < MonthIndex(d)
  BY <1>1, <1>2
<1>4. d <= r /\ s <= d
  BY <1>2, <1>3, DatesInOrder
<1> QED
  BY <1>2, <1>4 DEF m, r, s

(* A penultimate date after the end is taken once and for all: the loop is *)
(* back at it for ever.                                                    *)
RollsForEver ==
  /\ ~generated /\ ~UsesForwardGeneration(bond)
  /\ current = bond.penultimate_date /\ current > bond.end
  /\ Rolled(bond, bond.end, 0 - bond.months) > bond.start

(* A date of the schedule is one of the ends, the anchor, a regular date   *)
(* between the ends, or the penultimate date.                              *)
IsScheduled(date) ==
  \/ date \in {bond.start, bond.end, Anchor(bond)}
  \/ /\ IsRegular(bond, date) /\ date <= bond.end
     /\ bond.start <= date \/ Anchor(bond) <= date
  \/ /\ ~UsesForwardGeneration(bond) /\ bond.start <= date
     /\ date = bond.penultimate_date

(* The loop is on a regular date, on the penultimate one, or at the start. *)
LoopOK ==
  IF UsesForwardGeneration(bond)
  THEN IsRegular(bond, current) /\ Anchor(bond) <= current
  ELSE /\ \/ IsRegular(bond, current)
          \/ current = bond.penultimate_date
          \/ current <= bond.start
       /\ current > bond.end => RollsForEver

BondTypeOK ==
  /\ bond \in Bond /\ current \in Int /\ generated \in BOOLEAN
  /\ {bond.start, bond.end, Anchor(bond)} \subseteq dates
  /\ \A date \in dates :
       /\ date \in Int /\ IsScheduled(date)
       /\ date > bond.end => RollsForEver \/ date = Anchor(bond)
  /\ LoopOK
  /\ today \in Int /\ bond.start <= today

(* No other part generates a schedule.                                     *)
BondInv == IF part = "bond" THEN BondTypeOK ELSE generated = FALSE

LEMMA RollForwardKeeps ==
  ASSUME BondTypeOK, RollForward, UNCHANGED today
  PROVE  BondTypeOK'
<1> DEFINE r == Rolled(bond, current, bond.months)
<1>1. /\ ~generated /\ UsesForwardGeneration(bond) /\ current < bond.end
      /\ current' = r /\ bond' = bond /\ generated' = generated
      /\ dates' = IF r < bond.end THEN dates \cup {r} ELSE dates
  BY DEF RollForward
<1>2. bond \in Bond /\ current \in Int /\ IsRegular(bond, current)
      /\ Anchor(bond) <= current
  BY <1>1 DEF BondTypeOK, LoopOK
<1>3. IsRegular(bond, r) /\ r \in Int /\ current <= r
  BY <1>2, RolledIsRegular, RollsAway
<1>4. /\ Anchor(bond) \in Int /\ bond.end \in Int
  BY <1>2, BondFacts
<1> HIDE DEF r
<1>5. Anchor(bond) <= r
  BY <1>2, <1>3, <1>4
<1>6. LoopOK'
  BY <1>1, <1>3, <1>5 DEF LoopOK
<1>7. ASSUME NEW date \in dates'
      PROVE  /\ date \in Int /\ IsScheduled(date)'
             /\ date > bond.end => date = Anchor(bond)
  <2>1. CASE date \in dates
    BY <1>1, <2>1 DEF BondTypeOK, IsScheduled, RollsForEver
  <2>2. CASE date = r /\ r < bond.end
    BY <1>1, <1>3, <1>4, <1>5, <2>2 DEF IsScheduled
  <2> QED
    BY <1>1, <2>1, <2>2
<1>8. {bond.start, bond.end, Anchor(bond)} \subseteq dates'
  BY <1>1 DEF BondTypeOK
<1> QED
  BY <1>1, <1>3, <1>6, <1>7, <1>8 DEF BondTypeOK

LEMMA RollBackwardKeeps ==
  ASSUME BondTypeOK, RollBackward, UNCHANGED today
  PROVE  BondTypeOK'
<1> DEFINE back == 0 - bond.months
           r == Rolled(bond, current, back)
           p == bond.penultimate_date
           Taken == p # NoDate /\ r <= p /\ r > bond.start
<1>1. /\ ~generated /\ ~UsesForwardGeneration(bond) /\ current > bond.start
      /\ current' = (IF Taken THEN p ELSE r) /\ bond' = bond /\ generated' = generated
      /\ dates' = IF current' > bond.start THEN dates \cup {current'} ELSE dates
  BY DEF RollBackward
<1>2. bond \in Bond /\ current \in Int
  BY DEF BondTypeOK
<1>3. /\ bond.start \in Int /\ bond.end \in Int /\ p \in Int /\ back \in Int
      /\ bond.start < bond.end
  BY <1>2, BondFacts
<1>4. r \in Int /\ r <= current
  BY <1>2, RollsAway
<1>5. /\ IsRegular(bond, current) \/ current = p
      /\ current > bond.end => RollsForEver
  BY <1>1, <1>2, <1>3 DEF BondTypeOK, LoopOK
<1>6. IsRegular(bond, current) => IsRegular(bond, r)
  BY <1>2, RolledIsRegular
<1>7. current <= bond.end => r <= Rolled(bond, bond.end, back)
  BY <1>2, <1>3, RollsAscend
<1>8. bond.end <= current => Rolled(bond, bond.end, back) <= r
  BY <1>2, <1>3, RollsAscend
<1>9. Rolled(bond, bond.end, back) \in Int
  BY <1>3, RolledIs
<1>10. p >= 0
  <2>1. IsBond(bond)
    BY <1>2, PartsAssumption
  <2>2. p \in Nat
    BY <2>1 DEF IsBond, IsScheduleConfig
  <2> QED
    BY <2>2
<1> HIDE DEF r
<1>11. current' \in Int
  BY <1>1, <1>3, <1>4
<1>12. ASSUME current > bond.end
       PROVE  r > bond.start /\ r <= p /\ current = p
  BY <1>3, <1>4, <1>5, <1>8, <1>9, <1>12 DEF RollsForEver
<1>13. \/ current' = p /\ current' > bond.start /\ Taken
       \/ current' <= bond.start
       \/ IsRegular(bond, current') /\ current' <= bond.end /\ current' > bond.start
  <2>1. CASE Taken
    BY <1>1, <1>3, <1>4, <2>1
  <2>2. CASE ~Taken /\ current = p
    <3>1. p # NoDate
      <4>1. IsBond(bond)
        BY <1>2, PartsAssumption
      <4>2. bond.start \in Nat
        BY <4>1 DEF IsBond, IsScheduleConfig
      <4> QED
        BY <1>1, <2>2, <4>2 DEF NoDate
    <3>2. r <= bond.start
      BY <1>3, <1>4, <2>2, <3>1
    <3> QED
      BY <1>1, <2>2, <3>2
  <2>3. CASE ~Taken /\ IsRegular(bond, current) /\ current <= bond.end
    BY <1>1, <1>2, <1>3, <1>4, <1>6, <2>3
  <2>4. CASE ~Taken /\ current > bond.end
    BY <1>12, <2>2, <2>4
  <2> QED
    BY <1>2, <1>3, <1>5, <2>1, <2>2, <2>3, <2>4
<1>14. current' > bond.end => RollsForEver'
  <2> SUFFICES ASSUME current' > bond.end PROVE RollsForEver'
    OBVIOUS
  <2>1. current' = p /\ Taken
    BY <1>3, <1>11, <1>13
  <2>2. Rolled(bond, bond.end, back) > bond.start
    <3>1. CASE current <= bond.end
      BY <1>3, <1>4, <1>7, <1>9, <2>1, <3>1
    <3>2. CASE current > bond.end
      BY <1>5, <3>2 DEF RollsForEver
    <3> QED
      BY <1>2, <1>3, <3>1, <3>2
  <2> QED
    BY <1>1, <2>1, <2>2 DEF RollsForEver
<1>15. LoopOK'
  BY <1>1, <1>11, <1>13, <1>14 DEF LoopOK
<1>16. RollsForEver => RollsForEver'
  <2> SUFFICES ASSUME RollsForEver PROVE RollsForEver'
    OBVIOUS
  <2>1. current > bond.end /\ current = p
    BY DEF RollsForEver
  <2>2. IsBond(bond)
    BY <1>2, PartsAssumption
  <2>3. p # NoDate
    BY <1>1, <1>2, <1>3, <2>1, <2>2 DEF NoDate, IsBond, IsScheduleConfig
  <2>4. current' = p
    BY <1>1, <1>12, <2>1, <2>3
  <2> QED
    BY <1>1, <2>1, <2>4 DEF RollsForEver
<1>17. ASSUME NEW date \in dates'
       PROVE  /\ date \in Int /\ IsScheduled(date)'
              /\ date > bond.end => RollsForEver' \/ date = Anchor(bond)
  <2>1. CASE date \in dates
    <3>1. /\ date \in Int /\ IsScheduled(date)
          /\ date > bond.end => RollsForEver \/ date = Anchor(bond)
      BY <2>1 DEF BondTypeOK
    <3>2. IsScheduled(date)'
      BY <1>1, <3>1 DEF IsScheduled
    <3> QED
      BY <1>16, <3>1, <3>2
  <2>2. CASE date = current' /\ current' > bond.start
    <3>1. IsScheduled(date)'
      BY <1>1, <1>3, <1>11, <1>13, <2>2 DEF IsScheduled
    <3> QED
      BY <1>11, <1>14, <2>2, <3>1
  <2> QED
    BY <1>1, <2>1, <2>2
<1>18. {bond.start, bond.end, Anchor(bond)} \subseteq dates'
  BY <1>1 DEF BondTypeOK
<1> QED
  BY <1>1, <1>11, <1>15, <1>17, <1>18 DEF BondTypeOK

LEMMA BondSteps ==
  ASSUME [PartNext]_all, part = "bond"
  PROVE  LifeNext \/ UNCHANGED life
BY DEF PartNext, BondNext, all, life

LEMMA OthersRest ==
  ASSUME [PartNext]_all, part # "bond"
  PROVE  UNCHANGED generated
BY DEF PartNext, BondNext, all, schedule

LEMMA BondStarts ==
  ASSUME LifeInit
  PROVE  BondTypeOK
<1>1. /\ bond \in Bond /\ dates = {bond.start, bond.end, Anchor(bond)}
      /\ current = Anchor(bond) /\ generated = FALSE /\ today = bond.start
  BY DEF LifeInit, ScheduleInit
<1>2. /\ bond.start \in Int /\ bond.end \in Int /\ bond.start < bond.end
         /\ Anchor(bond) \in Int
      /\ IsRegular(bond, Anchor(bond))
  BY <1>1, BondFacts, AnchorIsRegular
<1>3. ~UsesForwardGeneration(bond) => Anchor(bond) = bond.end
  BY DEF Anchor
<1>4. LoopOK
  BY <1>1, <1>2, <1>3 DEF LoopOK
<1>5. \A date \in dates :
        /\ date \in Int /\ IsScheduled(date)
        /\ date > bond.end => date = Anchor(bond)
  BY <1>1, <1>2 DEF IsScheduled
<1>6. {bond.start, bond.end, Anchor(bond)} \subseteq dates /\ generated \in BOOLEAN
  BY <1>1
<1>7. current \in Int /\ today \in Int /\ bond.start <= today
  BY <1>1, <1>2
<1> QED
  BY <1>1, <1>4, <1>5, <1>6, <1>7 DEF BondTypeOK

THEOREM BondInvariant == PartSpec => []BondInv
<1>1. PartInit => BondInv
  <2> SUFFICES ASSUME PartInit PROVE BondInv
    OBVIOUS
  <2>1. part = "bond" => LifeInit
    BY DEF PartInit
  <2>2. part # "bond" => generated = FALSE
    BY DEF PartInit, LifeRest
  <2> QED
    BY <2>1, <2>2, BondStarts DEF BondInv
<1>2. BondInv /\ [PartNext]_all => BondInv'
  <2> SUFFICES ASSUME BondInv, [PartNext]_all, part' = "bond" PROVE BondTypeOK'
    BY PartIsKept, OthersRest DEF BondInv
  <2>1. part = "bond" /\ BondTypeOK
    BY PartIsKept DEF BondInv
  <2>2. CASE RollForward /\ UNCHANGED today
    BY <2>1, <2>2, RollForwardKeeps
  <2>3. CASE RollBackward /\ UNCHANGED today
    BY <2>1, <2>3, RollBackwardKeeps
  <2>4. CASE EndOfLoop /\ UNCHANGED today
    <3>1. ~RollsForEver
      <4>1. bond.start \in Int /\ bond.end \in Int /\ bond.start < bond.end
            /\ current \in Int
        BY <2>1, BondFacts DEF BondTypeOK
      <4> QED
        BY <2>4, <4>1 DEF EndOfLoop, RollsForEver
    <3>2. UNCHANGED <<bond, dates, current, today>> /\ generated' = TRUE
      BY <2>4 DEF EndOfLoop
    <3> QED
      BY <2>1, <3>1, <3>2 DEF BondTypeOK, LoopOK, IsScheduled, RollsForEver
  <2>5. CASE NextDay
    <3>1. bond.start \in Int /\ today \in Int /\ bond.start <= today
      BY <2>1, BondFacts DEF BondTypeOK
    <3>2. UNCHANGED <<bond, dates, current, generated>> /\ today' = today + 1
      BY <2>5 DEF NextDay, schedule
    <3>3. today' \in Int /\ bond.start <= today'
      BY <3>1, <3>2
    <3> QED
      BY <2>1, <3>2, <3>3 DEF BondTypeOK, LoopOK, IsScheduled, RollsForEver
  <2>6. CASE UNCHANGED life
    BY <2>1, <2>6 DEF life, schedule, BondTypeOK, LoopOK, IsScheduled, RollsForEver
  <2> QED
    BY <2>1, <2>2, <2>3, <2>4, <2>5, <2>6, BondSteps DEF LifeNext, Generate
<1> QED
  BY <1>1, <1>2, PTL DEF PartSpec

-----------------------------------------------------------------------------
(* The dates of a schedule in their order.                                 *)
LEMMA RanksAscend ==
  ASSUME NEW S, IsFiniteSet(S), S \in SUBSET Int, NEW d \in S, NEW e \in S, d < e
  PROVE  /\ Cardinality({s \in S : s <= d}) \in Nat
         /\ Cardinality({s \in S : s <= e}) \in Nat
         /\ Cardinality({s \in S : s <= d}) < Cardinality({s \in S : s <= e})
<1> DEFINE U == {s \in S : s <= d}
           V == {s \in S : s <= e}
<1>1. IsFiniteSet(U) /\ IsFiniteSet(V)
  BY FS_Subset
<1>2. e \notin U /\ U \cup {e} \subseteq V
  <2>1. d \in Int /\ e \in Int
    OBVIOUS
  <2>2. e \notin U
    BY <2>1
  <2>3. ASSUME NEW s \in U PROVE s \in V
    BY <2>1
  <2>4. e \in V
    BY <2>1
  <2> HIDE DEF U, V
  <2> QED
    BY <2>2, <2>3, <2>4
<1>3. IsFiniteSet(U \cup {e}) /\ Cardinality(U \cup {e}) = Cardinality(U) + 1
  BY <1>1, <1>2, FS_AddElement
<1>4. Cardinality(U \cup {e}) <= Cardinality(V)
  BY <1>1, <1>2, FS_Subset
<1>5. Cardinality(U) \in Nat /\ Cardinality(V) \in Nat
  BY <1>1, FS_CardinalityType
<1> HIDE DEF U, V
<1>6. Cardinality(U) < Cardinality(V)
  BY <1>3, <1>4, <1>5
<1> QED
  BY <1>5, <1>6 DEF U, V

LEMMA DatesAreFinite ==
  ASSUME BondTypeOK
  PROVE  /\ IsFiniteSet(dates) /\ dates \in SUBSET Int /\ Cardinality(dates) \in Nat
         /\ \E from \in Int : \E upto \in Int : dates \in SUBSET (from .. upto)
<1> DEFINE from == IF bond.start <= Anchor(bond) THEN bond.start ELSE Anchor(bond)
           to == IF bond.end >= Anchor(bond) THEN bond.end ELSE Anchor(bond)
           upto == IF to >= bond.penultimate_date THEN to ELSE bond.penultimate_date
<1>1. /\ bond.start \in Int /\ bond.end \in Int /\ Anchor(bond) \in Int
      /\ bond.penultimate_date \in Int /\ bond.start < bond.end
  BY BondFacts DEF BondTypeOK
<1>2. ASSUME NEW date \in dates PROVE date \in Int /\ from <= date /\ date <= upto
  BY <1>1, <1>2 DEF BondTypeOK, IsScheduled
<1>3. from \in Int /\ upto \in Int
  BY <1>1
<1> HIDE DEF from, upto
<1>4. dates \in SUBSET (from .. upto)
  BY <1>2, <1>3
<1> QED
  BY <1>3, <1>4, BetweenIsFinite

LEMMA DatesByRank ==
  ASSUME BondTypeOK
  PROVE  /\ Len(Unadjusted) = Cardinality(dates) /\ Len(Unadjusted) \in Nat
         /\ \A i \in 1 .. Len(Unadjusted) :
              /\ Unadjusted[i] \in dates /\ Unadjusted[i] \in Int
              /\ Cardinality({e \in dates : e <= Unadjusted[i]}) = i
<1> DEFINE n == Cardinality(dates)
           Nth(i) == CHOOSE d \in dates : Cardinality({e \in dates : e <= d}) = i
<1>1. IsFiniteSet(dates) /\ dates \in SUBSET Int /\ n \in Nat
  BY DatesAreFinite
<1>2. Unadjusted = [i \in 1 .. n |-> Nth(i)]
  BY DEF Unadjusted
<1> HIDE DEF Nth
<1>3. Len(Unadjusted) = n
  BY <1>1, <1>2
<1>4. ASSUME NEW i \in 1 .. n
      PROVE  Nth(i) \in dates /\ Cardinality({e \in dates : e <= Nth(i)}) = i
  <2>1. \E d \in dates : Cardinality({e \in dates : e <= d}) = i
    <3>1. PICK from \in Int : \E upto \in Int : dates \in SUBSET (from .. upto)
      BY DatesAreFinite
    <3>2. PICK upto \in Int : dates \in SUBSET (from .. upto)
      BY <3>1
    <3>3. i \in Nat \ {0} /\ i <= n
      BY <1>1
    <3>4. \A k \in Nat \ {0} : k <= Cardinality(dates) =>
            \E d \in dates : Cardinality({e \in dates : e <= d}) = k
      BY <3>2, NthDate
    <3> QED
      BY <3>3, <3>4
  <2> QED
    BY <2>1 DEF Nth
<1> QED
  BY <1>1, <1>2, <1>3, <1>4

LEMMA DatesInARow ==
  ASSUME BondTypeOK
  PROVE  /\ \A i \in 1 .. Len(Unadjusted) : \A j \in 1 .. Len(Unadjusted) :
              i < j <=> Unadjusted[i] < Unadjusted[j]
         /\ \A date \in dates : \E i \in 1 .. Len(Unadjusted) : Unadjusted[i] = date
<1> DEFINE Rank(d) == Cardinality({e \in dates : e <= d})
           n == Len(Unadjusted)
<1>1. IsFiniteSet(dates) /\ dates \in SUBSET Int
  BY DatesAreFinite
<1>2. n = Cardinality(dates) /\ n \in Nat
  BY DatesByRank
<1>3. \A i \in 1 .. n : Unadjusted[i] \in dates /\ Unadjusted[i] \in Int
      /\ Rank(Unadjusted[i]) = i
  BY DatesByRank
<1>4. \A d \in dates : \A e \in dates : d < e => Rank(d) < Rank(e)
  BY <1>1, RanksAscend
<1>5. ASSUME NEW d \in dates PROVE Rank(d) \in 1 .. n
  <2> DEFINE U == {e \in dates : e <= d}
  <2>1. U \subseteq dates /\ d \in U
    BY <1>1
  <2>2. IsFiniteSet(U) /\ Cardinality(U) \in Nat /\ Cardinality(U) <= Cardinality(dates)
    BY <1>1, <2>1, FS_Subset, FS_CardinalityType
  <2>3. Cardinality(U) # 0
    BY <2>1, <2>2, FS_EmptySet
  <2>4. Rank(d) = Cardinality(U)
    OBVIOUS
  <2> HIDE DEF U, Rank
  <2> QED
    BY <1>2, <2>2, <2>3, <2>4
<1> HIDE DEF Rank, n
<1>6. ASSUME NEW i \in 1 .. n, NEW j \in 1 .. n
      PROVE  i < j <=> Unadjusted[i] < Unadjusted[j]
  <2> DEFINE d == Unadjusted[i]
             e == Unadjusted[j]
  <2>1. d \in dates /\ d \in Int /\ Rank(d) = i /\ e \in dates /\ e \in Int /\ Rank(e) = j
    BY <1>3
  <2>2. d < e => i < j
    BY <1>4, <2>1
  <2>3. e < d => j < i
    BY <1>4, <2>1
  <2>4. d = e => i = j
    BY <2>1
  <2> HIDE DEF d, e
  <2>5. i \in Int /\ j \in Int
    BY <1>2
  <2>6. i < j <=> d < e
    BY <2>1, <2>2, <2>3, <2>4, <2>5
  <2> QED
    BY <2>6 DEF d, e
<1>7. ASSUME NEW date \in dates
      PROVE  \E i \in 1 .. n : Unadjusted[i] = date
  <2> DEFINE i == Rank(date)
             e == Unadjusted[i]
  <2>1. i \in 1 .. n
    BY <1>5
  <2>2. e \in dates /\ e \in Int /\ Rank(e) = i
    BY <1>3, <2>1
  <2>3. date \in Int
    BY <1>1
  <2>4. ~(date < e) /\ ~(e < date)
    <3>1. i \in Int
      BY <1>2, <2>1
    <3>2. date < e => Rank(date) < Rank(e)
      BY <1>4, <2>2
    <3>3. e < date => Rank(e) < Rank(date)
      BY <1>4, <2>2
    <3> QED
      BY <2>2, <3>1, <3>2, <3>3
  <2> HIDE DEF i, e
  <2>5. e = date
    BY <2>2, <2>3, <2>4
  <2> QED
    BY <2>1, <2>5 DEF e
<1> QED
  BY <1>6, <1>7 DEF n

(* Payment dates are in the order of the dates they are adjusted from, and *)
(* an open day is its own.                                                 *)
LEMMA PayDates ==
  ASSUME BondTypeOK, NEW d \in Int
  PROVE  /\ PayDate(d) \in Int
         /\ bond.convention # "UNADJUSTED" => IsOpen(bond.calendar, PayDate(d))
         /\ IsOpen(bond.calendar, d) => PayDate(d) = d
         /\ \A e \in Int : d <= e => PayDate(d) <= PayDate(e)
<1>1. /\ IsCalendar(bond.calendar) /\ OpensMonthly(bond.calendar)
      /\ bond.convention \in Convention
  BY BondFacts DEF BondTypeOK
<1>2. \A e : PayDate(e) = Adjust(bond.calendar, e, bond.convention)
  BY DEF PayDate
<1> QED
  BY <1>1, <1>2, AdjustOpens, AdjustStays, AdjustAscends

(* Periods lie between one date and the next.                              *)
LEMMA Periods ==
  ASSUME BondTypeOK, NEW i \in Period
  PROVE  /\ i \in 1 .. Len(Unadjusted) /\ i - 1 \in 1 .. Len(Unadjusted) /\ i \in Int
         /\ AccrualStart(i) \in dates /\ AccrualStart(i) \in Int
         /\ AccrualEnd(i) \in dates /\ AccrualEnd(i) \in Int
         /\ AccrualStart(i) < AccrualEnd(i)
         /\ \A date \in dates : ~(AccrualStart(i) < date /\ date < AccrualEnd(i))
<1>1. Len(Unadjusted) \in Nat /\ \A j \in 1 .. Len(Unadjusted) :
        Unadjusted[j] \in dates /\ Unadjusted[j] \in Int
  BY DatesByRank
<1>2. i \in 1 .. Len(Unadjusted) /\ i - 1 \in 1 .. Len(Unadjusted) /\ i \in Int /\ i - 1 < i
  BY <1>1 DEF Period
<1>3. AccrualStart(i) = Unadjusted[i - 1] /\ AccrualEnd(i) = Unadjusted[i]
  BY DEF AccrualStart, AccrualEnd
<1>4. Unadjusted[i - 1] < Unadjusted[i]
  BY <1>2, DatesInARow
<1>5. ASSUME NEW date \in dates, Unadjusted[i - 1] < date, date < Unadjusted[i]
      PROVE  FALSE
  <2>1. PICK j \in 1 .. Len(Unadjusted) : Unadjusted[j] = date
    BY DatesInARow
  <2>2. i - 1 < j /\ j < i
    BY <1>2, <1>5, <2>1, DatesInARow
  <2> QED
    BY <1>1, <1>2, <2>2
<1> QED
  BY <1>1, <1>2, <1>3, <1>4, <1>5

LEMMA WholePeriods ==
  ASSUME NEW b \in Bond, NEW d, IsRegular(b, d)
  PROVE  LET target == AddMonths(Anchor(b), PeriodsApart(b, d) * b.months)
         IN  /\ d \in Int /\ target \in Int /\ MonthIndex(target) = MonthIndex(d)
             /\ Day(target) = DayIn(MonthIndex(d), Day(Anchor(b)))
<1> DEFINE a == Anchor(b)
           m == b.months
           n == PeriodsApart(b, d)
           i == MonthIndex(d)
           k == MonthIndex(a)
<1>1. m \in {1, 3, 6, 12} /\ a \in Int /\ d \in Int
  BY BondFacts DEF IsRegular
<1>2. /\ i \in Int /\ k \in Int /\ Year(d) \in Int /\ Month(d) \in Int
      /\ Year(a) \in Int /\ Month(a) \in Int
  BY <1>1, DateInMonth
<1>3. n = (i - k) \div m
  <2>1. i = 12 * Year(d) + Month(d) - 1 /\ k = 12 * Year(a) + Month(a) - 1
    BY DEF MonthIndex
  <2>2. (12 * Year(d) + Month(d)) - (12 * Year(a) + Month(a)) = i - k
    <3> HIDE DEF a, i, k
    <3> QED
      BY <1>2, <2>1
  <2> QED
    BY <2>2 DEF PeriodsApart
<1>4. (i - k) % m = 0
  BY DEF IsRegular
<1> HIDE DEF m, n, i, k
<1>5. n * m \in Int /\ k + n * m = i
  <2>1. CASE m = 1
    BY <1>1, <1>2, <1>3, <1>4, <2>1
  <2>2. CASE m = 3
    BY <1>1, <1>2, <1>3, <1>4, <2>2
  <2>3. CASE m = 6
    BY <1>1, <1>2, <1>3, <1>4, <2>3
  <2>4. CASE m = 12
    BY <1>1, <1>2, <1>3, <1>4, <2>4
  <2> QED
    BY <1>1, <2>1, <2>2, <2>3, <2>4
<1> DEFINE target == AddMonths(a, n * m)
<1>6. /\ target \in Int /\ MonthIndex(target) = k + n * m
      /\ Day(target) = DayIn(k + n * m, Day(a))
  BY <1>1, <1>5, MovedByMonths DEF k
<1> QED
  BY <1>1, <1>5, <1>6 DEF n, m, i, k

LEMMA RegularDates ==
  ASSUME BondTypeOK, NEW date \in dates, IsRegular(bond, date)
  PROVE  LET target == AddMonths(Anchor(bond), PeriodsApart(bond, date) * bond.months)
         IN  /\ KeepsEnd(bond) => date = EndOfMonth(target)
             /\ ~KeepsEnd(bond) => date \in target - 3 .. target
             /\ Day(Anchor(bond)) <= 28 /\ ~KeepsEnd(bond) => date = target
<1> DEFINE a == Anchor(bond)
           i == MonthIndex(date)
           target == AddMonths(a, PeriodsApart(bond, date) * bond.months)
<1>1. bond \in Bond
  BY DEF BondTypeOK
<1>2. date \in Int /\ target \in Int /\ MonthIndex(target) = i
      /\ Day(target) = DayIn(i, Day(a))
  BY <1>1, WholePeriods
<1>3. a \in Int /\ i \in Int /\ Day(a) \in Int
  BY <1>1, <1>2, BondFacts, DateInMonth, DayOfDate
<1>4. /\ Day(date) \in Int /\ Day(date) <= IndexLength(i)
      /\ date = MonthStart(i) + Day(date) - 1 /\ target = MonthStart(i) + Day(target) - 1
  BY <1>2, DayOfDate
<1>5. /\ IndexLength(i) \in Int /\ IndexLength(i) >= 28 /\ IndexLength(i) <= 31
      /\ MonthStart(i) \in Int
  BY <1>3, MonthsInARow
<1>6. KeepsEnd(bond) => date = EndOfMonth(target)
  <2> SUFFICES ASSUME KeepsEnd(bond) PROVE date = EndOfMonth(target)
    OBVIOUS
  <2>1. date = EndOfMonth(date)
    BY DEF IsRegular, IsEndOfMonth
  <2>2. EndOfMonth(date) = MonthStart(MonthIndex(date) + 1) - 1
    BY <1>2, EndOfMonthIs
  <2>3. EndOfMonth(target) = MonthStart(MonthIndex(target) + 1) - 1
    BY <1>2, EndOfMonthIs
  <2> QED
    BY <1>2, <2>1, <2>2, <2>3
<1>7. ASSUME ~KeepsEnd(bond)
      PROVE  date \in target - 3 .. target /\ (Day(a) <= 28 => date = target)
  <2>1. Day(date) <= Day(a) /\ (Day(date) = Day(a) \/ (28 <= Day(date) /\ 28 < Day(a)))
    BY <1>7 DEF IsRegular
  <2>2. Day(target) = IF Day(a) < IndexLength(i) THEN Day(a) ELSE IndexLength(i)
    BY <1>2 DEF DayIn
  <2> HIDE DEF a, i, target
  <2> QED
    BY <1>2, <1>3, <1>4, <1>5, <2>1, <2>2
<1> QED
  BY <1>6, <1>7

(* Whatever the bond: rolling from date to date keeps the day of the month *)
(* of the anchor as far as the months allow; no date lies outside start to *)
(* end; and payment dates are in the order of their periods and open       *)
(* (_generate_forward, _generate_backward, Schedule.generate).             *)
THEOREM ScheduleIsRegularHolds == PartSpec => []ScheduleIsRegular
<1>1. BondInv => ScheduleIsRegular
  <2> SUFFICES ASSUME BondTypeOK, generated
               PROVE  ScheduleIsRegular
    BY DEF BondInv, ScheduleIsRegular
  <2>1. bond \in Bond /\ ~RollsForEver
    BY DEF BondTypeOK, RollsForEver
  <2>2. /\ bond.start \in Int /\ bond.end \in Int /\ bond.start < bond.end
        /\ Anchor(bond) \in Int /\ bond.first_regular_date \in Int
    BY <2>1, BondFacts
  <2>3. ASSUME NEW date \in dates \ {bond.start, bond.end, Anchor(bond),
               bond.penultimate_date}
        PROVE  IsRegular(bond, date)
    BY <2>3 DEF BondTypeOK, IsScheduled
  <2>4. ASSUME bond.first_regular_date \in {NoDate} \cup bond.start .. bond.end,
               NEW date \in dates
        PROVE  bond.start <= date /\ date <= bond.end
    <3>1. bond.start <= Anchor(bond) /\ Anchor(bond) <= bond.end
      BY <2>2, <2>4 DEF Anchor, StartPoint
    <3>2. /\ date \in Int /\ IsScheduled(date)
          /\ date > bond.end => date = Anchor(bond)
      BY <2>1, <2>4 DEF BondTypeOK
    <3> QED
      BY <2>2, <3>1, <3>2 DEF IsScheduled
  <2>5. ASSUME NEW i \in Period
        PROVE  /\ PayDate(Unadjusted[i - 1]) <= PayDate(Unadjusted[i])
               /\ bond.convention # "UNADJUSTED" =>
                    IsOpen(bond.calendar, PayDate(Unadjusted[i]))
    <3>1. /\ Unadjusted[i - 1] \in Int /\ Unadjusted[i] \in Int
          /\ Unadjusted[i - 1] < Unadjusted[i]
      BY Periods DEF AccrualStart, AccrualEnd
    <3>2. Unadjusted[i - 1] <= Unadjusted[i]
      BY <3>1
    <3> QED
      BY <3>1, <3>2, PayDates
  <2>6. ASSUME NEW date \in dates \ {bond.start, bond.end, Anchor(bond),
               bond.penultimate_date}
        PROVE  LET n      == PeriodsApart(bond, date)
                   target == AddMonths(Anchor(bond), n * bond.months)
                   kept   == bond.end_of_month /\ IsEndOfMonth(Anchor(bond))
               IN  /\ kept => date = EndOfMonth(target)
                   /\ ~kept => date \in target - 3 .. target
                   /\ Day(Anchor(bond)) <= 28 /\ ~kept => date = target
    BY <2>3, RegularDates DEF KeepsEnd
  <2> QED
    BY <2>4, <2>5, <2>6 DEF ScheduleIsRegular
<1> QED
  BY <1>1, BondInvariant, PTL

-----------------------------------------------------------------------------
(* Coupons and calls.                                                      *)

(* On a day of settlement the coupons of the periods that have ended are   *)
(* paid, and no other one but with the coupon before it.                   *)
LEMMA CouponsByDate ==
  ASSUME BondTypeOK, NEW date \in Int, date <= bond.end,
         IsOpen(bond.calendar, date), ~AccruedRaises(date), NEW i \in Period
  PROVE  /\ CouponDate(i) \in Int
         /\ AccrualEnd(i) <= date => CouponDate(i) <= date
         /\ AccrualEnd(i) > date /\ CouponDate(i) <= date => IsPaidAtItsStart(i)
         /\ i \in ActivePeriod(date) => date < CouponDate(i)
<1> DEFINE s == AccrualStart(i)
           e == AccrualEnd(i)
<1>1. /\ s \in Int /\ e \in Int /\ s < e
      /\ \A d \in dates : ~(s < d /\ d < e)
  BY Periods
<1>2. CouponDate(i) = PayDate(e) /\ PayDate(e) \in Int /\ PayDate(s) \in Int
  BY <1>1, PayDates DEF CouponDate
<1>3. PayDate(date) = date
  BY PayDates
<1>4. \A c \in Int : \A d \in Int : c <= d => PayDate(c) <= PayDate(d)
  BY PayDates
<1>5. bond.end \in Int /\ bond.end \in dates
  BY BondFacts DEF BondTypeOK
<1>6. i \in ActivePeriod(date) => date < e /\ ~(CouponDate(i) < e)
  BY DEF AccruedRaises, ActivePeriod
<1>7. s < date /\ date < e /\ date < bond.end => i \in ActivePeriod(date)
  BY DEF ActivePeriod
<1>8. IsPaidAtItsStart(i) <=> PayDate(e) = PayDate(s)
  BY <1>2 DEF IsPaidAtItsStart
<1> HIDE DEF s, e
<1>9. e <= date => CouponDate(i) <= date
  BY <1>1, <1>2, <1>3, <1>4
<1>10. i \in ActivePeriod(date) => date < CouponDate(i)
  BY <1>1, <1>2, <1>6
<1>11. ASSUME e > date, CouponDate(i) <= date
       PROVE  PayDate(e) = PayDate(s)
  <2>1. CASE date <= s
    <3>1. date <= PayDate(s)
      BY <1>1, <1>3, <1>4, <2>1
    <3>2. PayDate(s) <= PayDate(e)
      BY <1>1, <1>4
    <3> QED
      BY <1>2, <1>11, <3>1, <3>2
  <2>2. CASE s < date
    <3>1. date < bond.end
      BY <1>1, <1>5, <1>11, <2>2
    <3> QED
      BY <1>2, <1>7, <1>10, <1>11, <2>2, <3>1
  <2> QED
    BY <1>1, <2>1, <2>2
<1> QED
  BY <1>2, <1>8, <1>9, <1>10, <1>11 DEF e

(* Whatever the bond and its calendar: on a day a trade can settle, the    *)
(* coupons still to be paid are those of the periods that have not ended,  *)
(* but for a stub that is paid with the coupon before it; and once         *)
(* ex-dividend, a period stays so until its coupon is paid                 *)
(* (future_cashflows, accrued_interest, ex_dividend).                      *)
THEOREM AccruedFollowsCouponsHolds == PartSpec => []AccruedFollowsCoupons
<1>1. BondInv => AccruedFollowsCoupons
  <2> SUFFICES ASSUME BondTypeOK, TradesOn(today)
               PROVE  AccruedFollowsCoupons
    BY DEF BondInv, AccruedFollowsCoupons, TradesOn
  <2>1. /\ today \in Int /\ bond.start \in Int /\ bond.end \in Int /\ bond \in Bond
        /\ IsOpen(bond.calendar, today) /\ ~AccruedRaises(today)
    BY BondFacts DEF BondTypeOK, TradesOn
  <2>2. today <= bond.end
    BY <2>1 DEF TradesOn
  <2>3. ASSUME NEW i \in Period
        PROVE  /\ CouponDate(i) \in Int /\ AccrualEnd(i) \in Int
               /\ AccrualEnd(i) <= today => CouponDate(i) <= today
               /\ AccrualEnd(i) > today /\ CouponDate(i) <= today => IsPaidAtItsStart(i)
               /\ i \in ActivePeriod(today) => today < CouponDate(i)
    BY <2>1, <2>2, CouponsByDate, Periods
  <2>4. CouponsAfter(today) \subseteq {i \in Period : AccrualEnd(i) > today}
    BY <2>1, <2>3 DEF CouponsAfter
  <2>5. \A i \in Period \ CouponsAfter(today) : AccrualEnd(i) > today => IsPaidAtItsStart(i)
    BY <2>1, <2>3 DEF CouponsAfter
  <2>6. ASSUME NEW i \in ActivePeriod(today), IsExDividend(i, today - 1)
        PROVE  IsExDividend(i, today)
    <3>1. i \in Period /\ CouponDate(i) \in Int /\ today < CouponDate(i)
      BY <2>3 DEF ActivePeriod
    <3> DEFINE n == bond.ex_dividend_days
               back == AddBusinessDays(bond.calendar, CouponDate(i), 0 - n)
    <3>2. n \in Nat /\ IsCalendar(bond.calendar)
      <4>1. IsBond(bond)
        BY <2>1, PartsAssumption
      <4> QED
        BY <2>1, <4>1, BondFacts DEF IsBond
    <3>3. n > 0 /\ back <= today - 1
      BY <2>6 DEF IsExDividend, ExDividendDate
    <3>4. n \in Nat \ {0}
      BY <3>2, <3>3
    <3>5. back \in Int
      BY <3>1, <3>2, <3>4, DaysBehind
    <3>6. back <= today
      <4> HIDE DEF back
      <4> QED
        BY <2>1, <3>3, <3>5
    <3> QED
      BY <3>1, <3>3, <3>6 DEF IsExDividend, ExDividendDate
  <2> QED
    BY <2>4, <2>5, <2>6 DEF AccruedFollowsCoupons
<1> QED
  BY <1>1, BondInvariant, PTL

LEMMA CallFacts ==
  ASSUME NEW b \in Bond
  PROVE  /\ b.protection_end \in Nat
         /\ Len(b.calls) \in Nat /\ DOMAIN b.calls = 1 .. Len(b.calls)
         /\ \A k \in DOMAIN b.calls :
              /\ k \in Int /\ b.calls[k].date \in Int /\ b.calls[k].date < b.end
              /\ b.calls[k].end \in Int /\ b.calls[k].american \in BOOLEAN
              /\ b.calls[k].end # NoDate => b.calls[k].date <= b.calls[k].end
              /\ \A j \in DOMAIN b.calls : j < k => b.calls[j].date < b.calls[k].date
<1>1. IsBond(b)
  BY PartsAssumption
<1> DEFINE Entry == [date : b.start + 1 .. b.end - 1, american : BOOLEAN, end : Nat]
<1>2. b.start \in Int /\ b.end \in Int
  BY BondFacts
<1>3. b.calls \in Seq(Entry) /\ b.protection_end \in Nat
  BY <1>1 DEF IsBond
<1>4. /\ Len(b.calls) \in Nat /\ DOMAIN b.calls = 1 .. Len(b.calls)
      /\ \A k \in DOMAIN b.calls : k \in Int /\ b.calls[k] \in Entry
  <2> HIDE DEF Entry
  <2> QED
    BY <1>3
<1>5. \A k \in DOMAIN b.calls :
        /\ b.calls[k].date \in Int /\ b.calls[k].date < b.end
        /\ b.calls[k].end \in Int /\ b.calls[k].american \in BOOLEAN
  BY <1>2, <1>4
<1>6. \A k \in DOMAIN b.calls :
        /\ b.calls[k].end # NoDate => b.calls[k].date <= b.calls[k].end
        /\ \A j \in DOMAIN b.calls : j < k => b.calls[j].date < b.calls[k].date
  BY <1>1 DEF IsBond
<1> QED
  BY <1>3, <1>4, <1>5, <1>6

(* Of the entries that are in force on a date the last one is that of the  *)
(* last call date, or the date is a call date, or a window has an end of   *)
(* its own.                                                                *)
LEMMA EntryInForce ==
  ASSUME BondTypeOK, NEW date \in Int, IsCallable(date)
  PROVE  LET reached == {k \in DOMAIN bond.calls : bond.calls[k].date <= date}
         IN  /\ date >= bond.protection_end
             /\ EntryForDate(date) # Max(reached) =>
                  bond.calls[Max(reached)].date = date
                  \/ bond.calls[EntryForDate(date)].end # NoDate
<1> DEFINE reached == {k \in DOMAIN bond.calls : bond.calls[k].date <= date}
           inForce == ExercisableEntries(date)
           n == Len(bond.calls)
           e == EntryForDate(date)
           r == Max(reached)
<1>1. bond \in Bond
  BY DEF BondTypeOK
<1>2. /\ n \in Nat /\ DOMAIN bond.calls = 1 .. n /\ bond.protection_end \in Nat
      /\ \A k \in 1 .. n :
           /\ k \in Int /\ bond.calls[k].date \in Int /\ bond.calls[k].date < bond.end
           /\ bond.calls[k].end \in Int /\ bond.calls[k].american \in BOOLEAN
           /\ bond.calls[k].end # NoDate => bond.calls[k].date <= bond.calls[k].end
           /\ \A j \in 1 .. n : j < k => bond.calls[j].date < bond.calls[k].date
  BY <1>1, CallFacts
<1>3. ~IsProtected(date) /\ inForce # {}
      /\ inForce = {k \in 1 .. n : IsExercisable(k, date)}
  BY <1>2 DEF IsCallable, ExercisableEntries
<1>4. date >= bond.protection_end
  BY <1>2, <1>3 DEF IsProtected
<1>5. inForce \subseteq reached
  BY <1>2, <1>3 DEF IsExercisable
<1>6. e \in 1 .. n /\ IsExercisable(e, date) /\ e \in reached
  <2>1. inForce \in SUBSET Int /\ \A k \in inForce : 1 <= k
    BY <1>2, <1>3
  <2>2. Min(inForce) \in inForce
    <3> HIDE DEF inForce
    <3>1. 1 \in Int /\ inForce # {}
      BY <1>3
    <3> QED
      BY <2>1, <3>1, FirstDate
  <2> QED
    BY <1>3, <1>5, <2>2 DEF EntryForDate
<1>7. r \in 1 .. n /\ bond.calls[r].date <= date /\ e <= r
  <2>1. reached \in SUBSET Int /\ reached # {} /\ \A k \in reached : k <= n
    BY <1>2, <1>6
  <2>2. Max(reached) \in reached /\ \A k \in reached : k <= Max(reached)
    <3> HIDE DEF reached, n
    <3>1. n \in Int
      BY <1>2
    <3> QED
      BY <2>1, <3>1, LastDate
  <2> QED
    BY <1>2, <1>6, <2>2
<1> HIDE DEF reached, inForce, n, e, r
<1>8. ASSUME e # r, bond.calls[e].end = NoDate
      PROVE  bond.calls[r].date = date
  <2>1. e < r /\ e + 1 \in 1 .. n /\ e \in Int /\ r \in Int
    BY <1>2, <1>6, <1>7, <1>8
  <2>2. bond.calls[e].date < bond.calls[r].date
    BY <1>2, <1>6, <1>7, <2>1
  <2>3. bond.calls[e].american /\ date <= NextCallDate(e)
    BY <1>2, <1>6, <1>7, <1>8, <2>2 DEF IsExercisable
  <2>4. NextCallDate(e) = bond.calls[e + 1].date
    BY <1>2, <2>1 DEF NextCallDate, n
  <2>5. bond.calls[e + 1].date <= bond.calls[r].date
    <3>1. CASE e + 1 = r
      BY <1>2, <1>7, <3>1
    <3>2. CASE e + 1 < r
      BY <1>2, <1>7, <2>1, <3>2
    <3> QED
      BY <2>1, <3>1, <3>2
  <2> QED
    BY <1>2, <1>7, <2>1, <2>3, <2>4, <2>5
<1> QED
  BY <1>4, <1>8 DEF e, r, reached

(* Coupons are paid in the order of their periods.                         *)
LEMMA PaidInARow ==
  ASSUME BondTypeOK, NEW i \in Period, NEW j \in Period, j < i
  PROVE  /\ CouponDate(j) <= PayDate(AccrualStart(i))
         /\ PayDate(AccrualStart(i)) <= CouponDate(i)
         /\ PayDate(AccrualStart(i)) \in Int
<1>1. /\ i \in Int /\ j \in Int
      /\ i - 1 \in 1 .. Len(Unadjusted) /\ j \in 1 .. Len(Unadjusted)
      /\ AccrualStart(i) \in Int /\ AccrualEnd(i) \in Int /\ AccrualEnd(j) \in Int
      /\ AccrualStart(i) < AccrualEnd(i)
  BY Periods
<1>2. AccrualEnd(j) <= AccrualStart(i)
  <2>1. AccrualEnd(j) = Unadjusted[j] /\ AccrualStart(i) = Unadjusted[i - 1]
    BY DEF AccrualEnd, AccrualStart
  <2>2. CASE j = i - 1
    BY <1>1, <2>1, <2>2
  <2>3. CASE j < i - 1
    BY <1>1, <2>1, <2>3, DatesInARow
  <2> QED
    BY <1>1, <2>2, <2>3
<1> QED
  BY <1>1, <1>2, PayDates DEF CouponDate

(* Whatever the call schedule: a call that a yield is computed to can be   *)
(* exercised on its date, none is callable while protected, the price in   *)
(* force is that of the last call date reached, and the coupons paid with  *)
(* a call are those of the periods that have ended, but for stubs that are *)
(* paid as they begin (CallSchedule, CallableBond.cash_flows_to_call).     *)
THEOREM CallsAreCoherentHolds == PartSpec => []CallsAreCoherent
<1>1. BondInv => CallsAreCoherent
  <2> SUFFICES ASSUME BondTypeOK
               PROVE  /\ \A k \in CallCandidates(today) : IsCallable(bond.calls[k].date)
                      /\ IsCallable(today) =>
                           LET reached == {k \in DOMAIN bond.calls : bond.calls[k].date <= today}
                               ended   == {i \in Period : AccrualEnd(i) <= today}
                           IN  /\ today >= bond.protection_end
                               /\ EntryForDate(today) # Max(reached) =>
                                    \/ bond.calls[Max(reached)].date = today
                                    \/ bond.calls[EntryForDate(today)].end # NoDate
                               /\ today <= bond.end /\ IsOpen(bond.calendar, today)
                                    /\ ~AccruedRaises(today) =>
                                    \A i \in SymDiff(ended, CouponsToCall(today)) :
                                      IsPaidAtItsStart(i)
    BY DEF BondInv, CallsAreCoherent
  <2>1. today \in Int /\ bond \in Bond
    BY DEF BondTypeOK
  <2>2. ASSUME NEW k \in CallCandidates(today)
        PROVE  IsCallable(bond.calls[k].date)
    <3> DEFINE date == bond.calls[k].date
    <3>1. k \in DOMAIN bond.calls /\ ~IsProtected(date)
      BY DEF CallCandidates, FutureEntries
    <3>2. /\ DOMAIN bond.calls = 1 .. Len(bond.calls) /\ Len(bond.calls) \in Nat
          /\ k \in Int /\ date \in Int /\ date < bond.end /\ bond.end \in Int
          /\ bond.calls[k].end # NoDate => date <= bond.calls[k].end
      BY <2>1, <3>1, CallFacts, BondFacts
    <3>3. date <= NextCallDate(k)
      <4>1. CASE k = Len(bond.calls)
        BY <3>2, <4>1 DEF NextCallDate
      <4>2. CASE k # Len(bond.calls)
        <5>1. k + 1 \in DOMAIN bond.calls /\ k < k + 1
          BY <3>1, <3>2, <4>2
        <5>2. date < bond.calls[k + 1].date /\ bond.calls[k + 1].date \in Int
          BY <2>1, <3>1, <5>1, CallFacts
        <5>3. NextCallDate(k) = bond.calls[k + 1].date
          BY <4>2 DEF NextCallDate
        <5> QED
          BY <3>2, <5>2, <5>3
      <4> QED
        BY <4>1, <4>2
    <3>4. IsExercisable(k, date)
      BY <3>2, <3>3 DEF IsExercisable
    <3> QED
      BY <3>1, <3>4 DEF IsCallable, ExercisableEntries
  <2>3. ASSUME today <= bond.end, IsOpen(bond.calendar, today), ~AccruedRaises(today),
               NEW i \in Period
        PROVE  /\ AccrualEnd(i) <= today /\ i \notin CouponsToCall(today) => IsPaidAtItsStart(i)
               /\ i \in CouponsToCall(today)
                  /\ ~(AccrualEnd(i) <= today) => IsPaidAtItsStart(i)
    <3>1. /\ CouponDate(i) \in Int /\ AccrualEnd(i) \in Int
          /\ AccrualEnd(i) <= today => CouponDate(i) <= today
          /\ AccrualEnd(i) > today /\ CouponDate(i) <= today => IsPaidAtItsStart(i)
      BY <2>1, <2>3, CouponsByDate, Periods
    <3>2. ASSUME AccrualEnd(i) <= today, i \notin CouponsToCall(today)
          PROVE  IsPaidAtItsStart(i)
      <4>1. PICK j \in Period : j < i /\ ~(CouponDate(j) < today)
        BY <3>1, <3>2 DEF CouponsToCall
      <4>2. CouponDate(j) \in Int
        BY <2>1, <2>3, CouponsByDate
      <4>3. /\ CouponDate(j) <= PayDate(AccrualStart(i))
            /\ PayDate(AccrualStart(i)) <= CouponDate(i)
            /\ PayDate(AccrualStart(i)) \in Int
        BY <4>1, PaidInARow
      <4> QED
        BY <2>1, <3>1, <3>2, <4>1, <4>2, <4>3 DEF IsPaidAtItsStart
    <3> QED
      BY <2>1, <3>1, <3>2 DEF CouponsToCall
  <2>4. IsCallable(today) =>
          LET reached == {k \in DOMAIN bond.calls : bond.calls[k].date <= today}
          IN  /\ today >= bond.protection_end
              /\ EntryForDate(today) # Max(reached) =>
                   \/ bond.calls[Max(reached)].date = today
                   \/ bond.calls[EntryForDate(today)].end # NoDate
    BY <2>1, EntryInForce
  <2>5. ASSUME today <= bond.end, IsOpen(bond.calendar, today), ~AccruedRaises(today)
        PROVE  LET ended == {i \in Period : AccrualEnd(i) <= today}
               IN  \A i \in SymDiff(ended, CouponsToCall(today)) : IsPaidAtItsStart(i)
    <3>1. CouponsToCall(today) \subseteq Period
      BY DEF CouponsToCall
    <3> QED
      BY <2>3, <2>5, <3>1 DEF SymDiff
  <2> QED
    BY <2>2, <2>4, <2>5
<1> QED
  BY <1>1, BondInvariant, PTL

-----------------------------------------------------------------------------
(* Principal.                                                              *)
LEMMA SinkingFacts ==
  ASSUME BondTypeOK
  PROVE  /\ Len(bond.sinking) \in Nat /\ DOMAIN bond.sinking = 1 .. Len(bond.sinking)
         /\ \A k \in DOMAIN bond.sinking :
              /\ bond.sinking[k].date \in Int
              /\ bond.sinking[k].factor \in Int /\ bond.sinking[k].factor >= 0
         /\ \A j, k \in DOMAIN bond.sinking :
              j < k => bond.sinking[j].date <= bond.sinking[k].date
<1>1. IsBond(bond)
  BY PartsAssumption DEF BondTypeOK
<1> DEFINE Entry == [date : Nat, factor : 0 .. Notional]
<1>2. \A e \in Entry : e.date \in Int /\ e.factor \in Int /\ e.factor >= 0
  OBVIOUS
<1>3. bond.sinking \in Seq(Entry)
  BY <1>1 DEF IsBond
<1>4. \A j, k \in DOMAIN bond.sinking :
        j < k => bond.sinking[j].date <= bond.sinking[k].date
  BY <1>1 DEF IsBond
<1> HIDE DEF Entry
<1>5. \A k \in DOMAIN bond.sinking : bond.sinking[k] \in Entry
  BY <1>3
<1> QED
  BY <1>2, <1>3, <1>4, <1>5

LEMMA EntriesFirst ==
  ASSUME BondTypeOK, NEW date \in Int
  PROVE  /\ \A default \in Int : FactorForPayment(date, default) \in Int
         /\ EntriesOn(date) # {} =>
              /\ Min(EntriesOn(date)) \in EntriesOn(date)
              /\ \A default :
                   FactorForPayment(date,
                   default) = bond.sinking[Min(EntriesOn(date))].factor
<1> DEFINE E == EntriesOn(date)
<1>1. E \in SUBSET Int /\ (\A k \in E : 1 <= k) /\ E \in SUBSET DOMAIN bond.sinking
  BY SinkingFacts DEF EntriesOn
<1> HIDE DEF E
<1>2. E # {} => Min(E) \in E
  <2>1. 1 \in Int
    OBVIOUS
  <2> QED
    BY <1>1, <2>1, FirstDate
<1>3. E # {} => bond.sinking[Min(E)].factor \in Int
  BY <1>1, <1>2, SinkingFacts
<1> QED
  BY <1>2, <1>3 DEF E, FactorForPayment

Left(g, i) ==
  IF i = 1 THEN Notional
  ELSE FactorForPayment(Unadjusted[i], IF Unadjusted[i] = bond.end THEN 0 ELSE g[i - 1])

LEMMA LeftType ==
  ASSUME BondTypeOK, NEW g, NEW i \in 1 .. Len(Unadjusted), i # 1 => g[i - 1] \in Int
  PROVE  Left(g, i) \in Int
<1> DEFINE default == IF Unadjusted[i] = bond.end THEN 0 ELSE g[i - 1]
<1>0. Notional \in Int
  BY PartsAssumption
<1>1. Unadjusted[i] \in Int
  BY DatesByRank
<1>2. CASE i = 1
  BY <1>0, <1>2 DEF Left
<1>3. CASE i # 1
  <2>1. default \in Int
    BY <1>3
  <2>2. Left(g, i) = FactorForPayment(Unadjusted[i], default)
    BY <1>3 DEF Left
  <2> HIDE DEF default
  <2> QED
    BY <1>1, <2>1, <2>2, EntriesFirst
<1> QED
  BY <1>2, <1>3

LEMMA LeftExists ==
  ASSUME BondTypeOK, NEW n \in Nat, n <= Len(Unadjusted)
  PROVE  \E g \in [1 .. n -> Int] : \A i \in 1 .. n : g[i] = Left(g, i)
<1> DEFINE T == {m \in Nat : m <= Len(Unadjusted) =>
                   \E g \in [1 .. m -> Int] : \A i \in 1 .. m : g[i] = Left(g, i)}
<1>1. 0 \in T
  <2> DEFINE g == [i \in 1 .. 0 |-> 0]
  <2>1. g \in [1 .. 0 -> Int] /\ \A i \in 1 .. 0 : g[i] = Left(g, i)
    OBVIOUS
  <2> QED
    BY <2>1
<1>2. ASSUME NEW m \in T
      PROVE  m + 1 \in T
  <2>0. m \in Nat /\ m + 1 \in Nat
    OBVIOUS
  <2> SUFFICES ASSUME m + 1 <= Len(Unadjusted)
               PROVE  \E g \in [1 .. m + 1 -> Int] : \A i \in 1 .. m + 1 : g[i] = Left(g, i)
    BY <2>0
  <2>1. m <= Len(Unadjusted)
    BY <2>0, DatesByRank
  <2>2. PICK g \in [1 .. m -> Int] : \A i \in 1 .. m : g[i] = Left(g, i)
    BY <2>1
  <2> DEFINE h == [i \in 1 .. m + 1 |-> Left(g, i)]
  <2> HIDE DEF T
  <2>3. ASSUME NEW i \in 1 .. m + 1
        PROVE  h[i] \in Int /\ h[i] = Left(h, i)
    <3>1. CASE i = 1
      BY <3>1, PartsAssumption DEF Left
    <3>2. CASE i # 1
      <4>1. i - 1 \in 1 .. m /\ i - 1 \in 1 .. m + 1
        BY <2>0, <3>2
      <4>2. h[i - 1] = g[i - 1] /\ g[i - 1] \in Int
        BY <2>2, <4>1
      <4>3. Left(h, i) = Left(g, i)
        <5> HIDE DEF h
        <5> QED
          BY <3>2, <4>2 DEF Left
      <4>4. i \in 1 .. Len(Unadjusted)
        BY <2>0, DatesByRank
      <4>5. Left(g, i) \in Int
        BY <4>2, <4>4, LeftType
      <4> QED
        BY <4>3, <4>5
    <3> QED
      BY <3>1, <3>2
  <2>4. h \in [1 .. m + 1 -> Int]
    BY <2>3
  <2> HIDE DEF h
  <2> QED
    BY <2>3, <2>4
<1>3. n \in T
  <2> HIDE DEF T
  <2>1. T \in SUBSET Nat
    BY DEF T
  <2> QED
    BY <1>1, <1>2, <2>1, NatInduct
<1> QED
  BY <1>3

LEMMA OutstandingIs ==
  ASSUME BondTypeOK
  PROVE  \A i \in 1 .. Len(Unadjusted) : Outstanding[i] \in Int
         /\ Outstanding[i] = Left(Outstanding, i)
<1> DEFINE n == Len(Unadjusted)
           G(g) == g = [i \in 1 .. n |->
                         IF i = 1 THEN Notional
                         ELSE FactorForPayment(Unadjusted[i],
                                IF Unadjusted[i] = bond.end THEN 0 ELSE g[i - 1])]
           H(g) == g = [i \in 1 .. n |-> Left(g, i)]
<1>1. Outstanding = CHOOSE g : G(g)
  BY DEF Outstanding
<1>2. n \in Nat
  BY DatesByRank
<1>3. \E g : H(g)
  <2>1. PICK g \in [1 .. n -> Int] : \A i \in 1 .. n : g[i] = Left(g, i)
    BY <1>2, LeftExists
  <2>2. H(g)
    BY <2>1
  <2> QED
    BY <2>2
<1>4. \A g : G(g) <=> H(g)
  BY DEF Left
<1>5. H(Outstanding)
  <2> HIDE DEF G, H
  <2> QED
    BY <1>1, <1>3, <1>4
<1>6. \A i \in 1 .. n : Outstanding[i] = Left(Outstanding, i)
  <2> HIDE DEF n
  <2> QED
    BY <1>5
<1> DEFINE T == {m \in Nat : m \in 1 .. n => Outstanding[m] \in Int}
<1>7. 0 \in T
  OBVIOUS
<1>8. ASSUME NEW m \in T
      PROVE  m + 1 \in T
  <2>0. m \in Nat /\ m + 1 \in Nat
    OBVIOUS
  <2> SUFFICES ASSUME m + 1 \in 1 .. n
               PROVE  Outstanding[m + 1] \in Int
    BY <2>0
  <2>1. Outstanding[m + 1] = Left(Outstanding, m + 1)
    BY <1>6
  <2>2. CASE m = 0
    BY <2>1, <2>2, PartsAssumption DEF Left
  <2>3. CASE m # 0
    <3>1. m \in 1 .. n
      BY <2>0, <1>2, <2>3
    <3>2. Outstanding[m] \in Int
      BY <3>1
    <3> HIDE DEF T
    <3>3. (m + 1) - 1 = m
      BY <2>0
    <3> QED
      BY <2>1, <3>2, <3>3, LeftType
  <2> QED
    BY <2>2, <2>3
<1>9. \A m \in Nat : m \in T
  <2> HIDE DEF T
  <2>1. T \in SUBSET Nat
    BY DEF T
  <2> QED
    BY <1>7, <1>8, <2>1, NatInduct
<1> QED
  BY <1>6, <1>9

(* What is paid in the periods up to a date is what is gone of the factor. *)
LEMMA PrincipalTelescopes ==
  ASSUME BondTypeOK
  PROVE  SumFunction(PrincipalPaid) = Notional - Outstanding[Len(Unadjusted)]
<1> DEFINE n == Len(Unadjusted)
           O == Outstanding
<1>1. n \in Nat /\ n >= 1
  <2>1. bond.start \in dates
    BY DEF BondTypeOK
  <2>2. \E i \in 1 .. n : Unadjusted[i] = bond.start
    BY <2>1, DatesInARow
  <2> QED
    BY <2>2, DatesByRank
<1>2. \A i \in 1 .. n : O[i] \in Int
  BY OutstandingIs
<1>3. DOMAIN PrincipalPaid = 2 .. n /\ \A i \in 2 .. n : PrincipalPaid[i] = O[i - 1] - O[i]
  BY DEF PrincipalPaid, Period
<1>4. O[1] = Notional /\ Notional \in Int
  BY <1>1, OutstandingIs, PartsAssumption DEF Left
<1> HIDE DEF O, n
<1>5. \A i \in 2 .. n : PrincipalPaid[i] \in Int
  <2>1. \A i \in 2 .. n : i \in 1 .. n /\ i - 1 \in 1 .. n
    BY <1>1
  <2> QED
    BY <1>2, <1>3, <2>1
<1>6. ASSUME n = 1
      PROVE  SumFunctionOnSet(PrincipalPaid, 2 .. n) = Notional - O[n]
  <2>1. 2 .. n = {} /\ O[n] = Notional
    BY <1>4, <1>6
  <2>2. SumFunctionOnSet(PrincipalPaid, 2 .. n) = 0
    BY <2>1, SumOfNone
  <2> QED
    BY <1>4, <2>1, <2>2
<1>7. ASSUME n >= 2
      PROVE  SumFunctionOnSet(PrincipalPaid, 2 .. n) = Notional - O[n]
  <2> DEFINE mark == [i \in 2 .. n + 1 |-> 0 - O[i - 1]]
  <2>1. \A i \in 2 .. n + 1 : i - 1 \in 1 .. n
    BY <1>1
  <2>2. \A i \in 2 .. n + 1 : mark[i] \in Int
    BY <1>2, <2>1
  <2>3. ASSUME NEW i \in 2 .. n
        PROVE  PrincipalPaid[i] = mark[i + 1] - mark[i]
    <3>1. i \in 2 .. n + 1 /\ i + 1 \in 2 .. n + 1 /\ (i + 1) - 1 = i /\ i \in 1 .. n
      BY <1>1
    <3>2. mark[i + 1] = 0 - O[i] /\ mark[i] = 0 - O[i - 1] /\ O[i] \in Int
          /\ O[i - 1] \in Int
      BY <1>2, <2>1, <3>1
    <3> QED
      BY <1>3, <3>2
  <2>4. mark[n + 1] = 0 - O[n] /\ mark[2] = 0 - Notional /\ O[n] \in Int
    <3>1. n + 1 \in 2 .. n + 1 /\ 2 \in 2 .. n + 1 /\ (n + 1) - 1 = n /\ 2 - 1 = 1
          /\ n \in 1 .. n
      BY <1>1
    <3> QED
      BY <1>2, <1>4, <3>1
  <2> DEFINE m == n - 2
  <2>5. m \in Nat /\ 2 + m = n /\ 2 + m + 1 = n + 1 /\ 2 \in Int
    BY <1>1, <1>7
  <2> HIDE DEF mark, m
  <2>6. SumFunctionOnSet(PrincipalPaid, 2 .. 2 + m) = mark[2 + m + 1] - mark[2]
    <3>1. /\ \A y \in 2 .. 2 + m : PrincipalPaid[y] = mark[y + 1] - mark[y]
          /\ \A y \in 2 .. 2 + m + 1 : mark[y] \in Int
      BY <2>2, <2>3, <2>5
    <3> QED
      BY <2>5, <3>1, SumTelescopes
  <2> QED
    BY <1>4, <2>4, <2>5, <2>6
<1>8. SumFunctionOnSet(PrincipalPaid, 2 .. n) = Notional - O[n]
  BY <1>1, <1>6, <1>7
<1> QED
  BY <1>3, <1>8 DEF SumFunction, O, n

(* A factor that is left at maturity is that of an entry.                  *)
LEMMA FactorLeft ==
  ASSUME BondTypeOK, Last(Unadjusted) = bond.end, Outstanding[Len(Unadjusted)] > 0
  PROVE  \E k \in EntriesOn(bond.end) : bond.sinking[k].factor > 0
<1> DEFINE n == Len(Unadjusted)
<1>1. n \in Nat /\ n > 1 /\ Unadjusted[n] = bond.end /\ bond.end \in Int
  <2>1. bond.start \in dates /\ bond.start < bond.end /\ bond.start \in Int
        /\ bond.end \in Int
    BY BondFacts DEF BondTypeOK
  <2>2. PICK i \in 1 .. n : Unadjusted[i] = bond.start
    BY <2>1, DatesInARow
  <2>3. Unadjusted[n] = bond.end
    BY DEF Last
  <2> QED
    BY <2>1, <2>2, <2>3, DatesByRank
<1>2. Outstanding[n] = FactorForPayment(bond.end, 0)
  BY <1>1, OutstandingIs DEF Left
<1>3. EntriesOn(bond.end) # {}
  BY <1>2 DEF FactorForPayment
<1> QED
  BY <1>1, <1>2, <1>3, EntriesFirst

(* The entries until a date and their last one.                            *)
LEMMA EntriesLast ==
  ASSUME BondTypeOK, NEW date \in Int, EntriesUntil(date) # {}
  PROVE  /\ Max(EntriesUntil(date)) \in EntriesUntil(date)
         /\ \A k \in EntriesUntil(date) : k <= Max(EntriesUntil(date))
<1> DEFINE E == EntriesUntil(date)
           n == Len(bond.sinking)
<1>1. E \in SUBSET Int /\ (\A k \in E : k <= n) /\ n \in Int
  BY SinkingFacts DEF EntriesUntil
<1> HIDE DEF E, n
<1>2. E # {} => Max(E) \in E /\ \A k \in E : k <= Max(E)
  BY <1>1, LastDate
<1> QED
  BY <1>2 DEF E

(* Interest accrues on the factor the coupon is paid on.                   *)
LEMMA FactorsMeet ==
  ASSUME BondTypeOK, Last(Unadjusted) = bond.end, OnSchedule,
         NEW j \in Nat \ {0}, j < Len(Unadjusted)
  PROVE  FactorOn(Unadjusted[j]) = Outstanding[j]
<1> DEFINE n == Len(Unadjusted)
           U == Unadjusted
           T == {k \in Nat : k + 1 < n => FactorOn(U[k + 1]) = Outstanding[k + 1]}
<1>1. n \in Nat /\ U[n] = bond.end /\ \A i \in 1 .. n : U[i] \in Int
  BY DatesByRank DEF Last
<1>2. \A i, k \in 1 .. n : i < k <=> U[i] < U[k]
  BY DatesInARow
<1>3. \A k \in DOMAIN bond.sinking :
        /\ bond.sinking[k].date \in Int /\ k \in Int
        /\ \E i \in 2 .. n : U[i] = bond.sinking[k].date
        /\ \A m \in DOMAIN bond.sinking : bond.sinking[m].date = bond.sinking[k].date
           => m = k
        /\ \A m \in DOMAIN bond.sinking : m < k
           => bond.sinking[m].date <= bond.sinking[k].date
  BY SinkingFacts DEF OnSchedule, EntriesOn, Period, AccrualEnd
<1>4. \A i \in 1 .. n : Outstanding[i] = Left(Outstanding, i)
  BY OutstandingIs
<1> HIDE DEF U, n
<1>5. 0 \in T
  <2> SUFFICES ASSUME 0 + 1 < n
               PROVE  FactorOn(U[1]) = Outstanding[1]
    OBVIOUS
  <2>1. 1 \in 1 .. n
    BY <1>1
  <2>2. ASSUME NEW k \in DOMAIN bond.sinking
        PROVE  ~(bond.sinking[k].date <= U[1])
    <3>1. PICK i \in 2 .. n : U[i] = bond.sinking[k].date
      BY <1>3
    <3>2. i \in 1 .. n /\ 1 < i
      BY <1>1
    <3> QED
      BY <1>1, <1>2, <2>1, <3>1, <3>2
  <2>3. EntriesUntil(U[1]) = {}
    BY <2>2 DEF EntriesUntil
  <2> QED
    BY <1>4, <2>1, <2>3 DEF FactorOn, Left
<1>6. ASSUME NEW m \in T
      PROVE  m + 1 \in T
  <2>0. m \in Nat /\ m + 1 \in Nat
    OBVIOUS
  <2> DEFINE a == U[m + 1]
             b == U[m + 2]
  <2> SUFFICES ASSUME m + 2 < n
               PROVE  FactorOn(b) = Outstanding[m + 2]
    BY <2>0
  <2>1. FactorOn(a) = Outstanding[m + 1]
    BY <1>1, <2>0
  <2>2. m + 1 \in 1 .. n /\ m + 2 \in 1 .. n /\ n \in 1 .. n
    BY <1>1, <2>0
  <2>3. a \in Int /\ b \in Int /\ a < b /\ b # bond.end
    BY <1>1, <1>2, <2>0, <2>2
  <2>4. ASSUME NEW k \in DOMAIN bond.sinking, a < bond.sinking[k].date,
               bond.sinking[k].date <= b
        PROVE  bond.sinking[k].date = b
    <3>1. PICK i \in 2 .. n : U[i] = bond.sinking[k].date
      BY <1>3
    <3>2. i \in 1 .. n /\ i \in Int
      BY <1>1
    <3>3. m + 1 < i
      BY <1>2, <2>2, <2>4, <3>1, <3>2
    <3>4. ~(m + 2 < i)
      BY <1>1, <1>2, <2>2, <2>3, <2>4, <3>1, <3>2
    <3>5. i = m + 2
      BY <2>0, <3>2, <3>3, <3>4
    <3> QED
      BY <3>1, <3>5
  <2>5. Outstanding[m + 2] = FactorForPayment(b, Outstanding[m + 1])
    <3>1. m + 2 # 1 /\ (m + 2) - 1 = m + 1
      BY <2>0
    <3> QED
      BY <1>4, <2>2, <2>3, <3>1 DEF Left, U
  <2> HIDE DEF a, b, T
  <2>6. CASE EntriesOn(b) = {}
    <3>1. EntriesUntil(b) = EntriesUntil(a)
      <4>1. \A k \in DOMAIN bond.sinking : bond.sinking[k].date <= b <=> bond.sinking[k].date <= a
        BY <1>3, <2>3, <2>4, <2>6 DEF EntriesOn
      <4> QED
        BY <4>1 DEF EntriesUntil
    <3> QED
      BY <2>1, <2>5, <2>6, <3>1 DEF FactorOn, FactorForPayment
  <2>7. CASE EntriesOn(b) # {}
    <3>1. PICK k \in DOMAIN bond.sinking : bond.sinking[k].date = b
      BY <2>7 DEF EntriesOn
    <3>2. EntriesOn(b) = {k}
      BY <1>3, <3>1 DEF EntriesOn
    <3>3. Outstanding[m + 2] = bond.sinking[k].factor
      <4>1. Min(EntriesOn(b)) \in EntriesOn(b)
        BY <2>3, <2>7, EntriesFirst
      <4> QED
        BY <2>5, <2>7, <3>2, <4>1 DEF FactorForPayment
    <3>4. k \in EntriesUntil(b)
      BY <2>3, <3>1 DEF EntriesUntil
    <3>5. \A i \in EntriesUntil(b) : i <= k
      <4> SUFFICES ASSUME NEW i \in EntriesUntil(b), ~(i <= k)
                   PROVE  FALSE
        OBVIOUS
      <4>1. i \in DOMAIN bond.sinking /\ bond.sinking[i].date <= b
        BY DEF EntriesUntil
      <4>2. i \in Int /\ k \in Int /\ k < i
        BY <1>3, <3>1, <4>1
      <4>3. bond.sinking[k].date <= bond.sinking[i].date
        BY <1>3, <3>1, <4>1, <4>2
      <4>4. bond.sinking[i].date = b
        BY <1>3, <2>3, <3>1, <4>1, <4>3
      <4> QED
        BY <1>3, <3>1, <4>1, <4>2, <4>4
    <3>6. Max(EntriesUntil(b)) = k
      <4>1. Max(EntriesUntil(b)) \in EntriesUntil(b)
            /\ \A i \in EntriesUntil(b) : i <= Max(EntriesUntil(b))
        BY <2>3, <3>4, EntriesLast
      <4>2. Max(EntriesUntil(b)) \in Int /\ k \in Int
        BY <1>3, <3>1, <4>1 DEF EntriesUntil
      <4> QED
        BY <3>4, <3>5, <4>1, <4>2
    <3> QED
      BY <3>3, <3>4, <3>6 DEF FactorOn
  <2> QED
    BY <2>6, <2>7
<1>7. j - 1 \in T
  <2> HIDE DEF T
  <2>1. T \in SUBSET Nat
    BY DEF T
  <2> QED
    BY <1>5, <1>6, <2>1, NatInduct
<1> QED
  BY <1>7 DEF U, n

(* With a last factor of zero, each period repays what its entry does.     *)
LEMMA AmortizationMeets ==
  ASSUME BondTypeOK, Last(Unadjusted) = bond.end, OnSchedule,
         bond.sinking # << >>, Last(bond.sinking).factor = 0, NEW i \in Period
  PROVE  PrincipalPaid[i] = SumFunctionOnSet(Amortization, EntriesOn(AccrualEnd(i)))
<1> DEFINE n == Len(Unadjusted)
           a == AccrualStart(i)
           b == AccrualEnd(i)
           z == Len(bond.sinking)
           before == Outstanding[i - 1]
<1>1. /\ a \in Int /\ b \in Int /\ a < b /\ i \in 1 .. n /\ i - 1 \in 1 .. n /\ i \in Int
      /\ \A date \in dates : ~(a < date /\ date < b)
  BY Periods
<1>2. n \in Nat /\ a = Unadjusted[i - 1] /\ b = Unadjusted[i] /\ Unadjusted[n] = bond.end
  BY DatesByRank DEF Last, AccrualStart, AccrualEnd
<1>3. FactorOn(a) = before
  BY <1>1, <1>2, FactorsMeet
<1>4. before \in Int /\ Outstanding[i] \in Int /\ PrincipalPaid[i] = before - Outstanding[i]
  BY <1>1, OutstandingIs DEF PrincipalPaid
<1>5. Outstanding[i] = FactorForPayment(b, IF b = bond.end THEN 0 ELSE before)
  <2>1. i # 1
    BY <1>1
  <2> QED
    BY <1>1, <1>2, <2>1, OutstandingIs DEF Left
<1>6. \A k \in DOMAIN bond.sinking :
        /\ bond.sinking[k].date \in Int /\ bond.sinking[k].date \in dates
        /\ k \in Int /\ k >= 1 /\ k <= z /\ bond.sinking[k].factor \in Int
        /\ \A m \in DOMAIN bond.sinking : bond.sinking[m].date = bond.sinking[k].date
           => m = k
        /\ \A m \in DOMAIN bond.sinking : m < k
           => bond.sinking[m].date <= bond.sinking[k].date
  <2>1. \A k \in DOMAIN bond.sinking : bond.sinking[k].date \in dates
    BY Periods DEF OnSchedule
  <2> QED
    BY <2>1, SinkingFacts DEF OnSchedule, EntriesOn
<1>7. \A k \in Int : k \in DOMAIN bond.sinking <=> 1 <= k /\ k <= z
  BY SinkingFacts
<1>8. z \in Int /\ z \in DOMAIN bond.sinking /\ bond.sinking[z].factor = 0
  <2>1. z \in Nat /\ z # 0
    BY SinkingFacts
  <2> QED
    BY <2>1, SinkingFacts DEF Last
<1> HIDE DEF n, a, b, z, before
<1>9. CASE EntriesOn(b) = {}
  <2>1. SumFunctionOnSet(Amortization, EntriesOn(b)) = 0
    BY <1>9, SumOfNone
  <2>2. CASE b # bond.end
    <3>1. Outstanding[i] = before
      BY <1>5, <1>9, <2>2 DEF FactorForPayment
    <3> QED
      BY <1>4, <2>1, <3>1 DEF b
  <2>3. CASE b = bond.end
    <3>1. Outstanding[i] = 0
      BY <1>5, <1>9, <2>3 DEF FactorForPayment
    <3>2. \A k \in DOMAIN bond.sinking : bond.sinking[k].date <= a
      <4>1. ASSUME NEW k \in DOMAIN bond.sinking
            PROVE  bond.sinking[k].date <= b
        <5>1. PICK j \in 1 .. n : Unadjusted[j] = bond.sinking[k].date
          BY <1>6, DatesInARow DEF n
        <5>2. n \in 1 .. n /\ ~(n < j)
          BY <1>2
        <5>3. ~(Unadjusted[n] < Unadjusted[j])
          BY <5>2, DatesInARow DEF n
        <5> QED
          BY <1>1, <1>2, <1>6, <2>3, <5>1, <5>3
      <4>2. \A k \in DOMAIN bond.sinking : bond.sinking[k].date # b
        BY <1>9 DEF EntriesOn
      <4> QED
        BY <1>1, <1>6, <4>1, <4>2
    <3>3. EntriesUntil(a) = DOMAIN bond.sinking
      BY <3>2 DEF EntriesUntil
    <3>4. EntriesUntil(a) # {} /\ Max(EntriesUntil(a)) = z
      <4>1. EntriesUntil(a) # {}
        BY <1>8, <3>3
      <4>2. /\ Max(EntriesUntil(a)) \in DOMAIN bond.sinking
            /\ \A k \in DOMAIN bond.sinking : k <= Max(EntriesUntil(a))
        BY <1>1, <3>3, <4>1, EntriesLast
      <4> QED
        BY <1>6, <1>8, <4>1, <4>2
    <3>5. before = 0
      BY <1>3, <1>8, <3>4 DEF FactorOn
    <3> QED
      BY <1>4, <2>1, <3>1, <3>5 DEF b
  <2> QED
    BY <2>2, <2>3
<1>10. CASE EntriesOn(b) # {}
  <2>1. PICK k \in DOMAIN bond.sinking : bond.sinking[k].date = b
    BY <1>10 DEF EntriesOn
  <2>2. EntriesOn(b) = {k}
    BY <1>6, <2>1 DEF EntriesOn
  <2>3. Outstanding[i] = bond.sinking[k].factor
    <3>1. Min(EntriesOn(b)) \in EntriesOn(b)
      BY <1>1, <1>10, EntriesFirst
    <3> QED
      BY <1>5, <1>10, <2>2, <3>1 DEF FactorForPayment
  <2>4. \A m \in DOMAIN bond.sinking : bond.sinking[m].date <= a <=> m < k
    <3> SUFFICES ASSUME NEW m \in DOMAIN bond.sinking
                 PROVE  bond.sinking[m].date <= a <=> m < k
      OBVIOUS
    <3>1. m < k => bond.sinking[m].date <= a
      <4> SUFFICES ASSUME m < k
                   PROVE  bond.sinking[m].date <= a
        OBVIOUS
      <4>1. bond.sinking[m].date <= b /\ bond.sinking[m].date # b
        BY <1>6, <2>1
      <4> QED
        BY <1>1, <1>6, <4>1
    <3>2. k <= m => ~(bond.sinking[m].date <= a)
      BY <1>1, <1>6, <2>1
    <3> QED
      BY <1>6, <3>1, <3>2
  <2>5. before = (IF k = 1 THEN Notional ELSE bond.sinking[k - 1].factor)
    <3>0. k \in Int /\ k >= 1
      BY <1>6
    <3>1. CASE k = 1
      <4>1. EntriesUntil(a) = {}
        BY <1>6, <2>4, <3>1 DEF EntriesUntil
      <4> QED
        BY <1>3, <3>1, <4>1 DEF FactorOn
    <3>2. CASE k # 1
      <4>1. k - 1 \in DOMAIN bond.sinking
        BY <1>6, <1>7, <1>8, <3>0, <3>2
      <4>2. k - 1 \in EntriesUntil(a)
        BY <2>4, <3>0, <4>1 DEF EntriesUntil
      <4>3. \A m \in EntriesUntil(a) : m \in Int /\ m <= k - 1
        BY <1>6, <2>4, <3>0 DEF EntriesUntil
      <4>4. /\ Max(EntriesUntil(a)) \in EntriesUntil(a)
            /\ \A m \in EntriesUntil(a) : m <= Max(EntriesUntil(a))
        BY <1>1, <4>2, EntriesLast
      <4>5. Max(EntriesUntil(a)) = k - 1
        BY <3>0, <4>2, <4>3, <4>4
      <4> QED
        BY <1>3, <3>2, <4>2, <4>5 DEF FactorOn
    <3> QED
      BY <3>1, <3>2
  <2>6. Amortization[k] = before - bond.sinking[k].factor
    BY <2>5 DEF Amortization
  <2>7. Amortization[k] \in Int
    BY <1>4, <1>6, <2>6
  <2>8. SumFunctionOnSet(Amortization, {k}) = Amortization[k]
    BY <2>7, SumOfOne
  <2> QED
    BY <1>4, <2>2, <2>3, <2>6, <2>8 DEF b
<1> QED
  BY <1>9, <1>10 DEF b

(* A sinking fund repays its notional but for a factor kept at maturity,   *)
(* accrues on the factor its coupons are paid on, and repays date for date *)
(* what its amortization table says, whatever its entries on coupon dates. *)
THEOREM PrincipalIsRepaidHolds == PartSpec => []PrincipalIsRepaid
<1>1. ASSUME BondTypeOK
      PROVE  PrincipalIsRepaid
  <2>1. SumFunction(PrincipalPaid) = Notional - Outstanding[Len(Unadjusted)]
    BY <1>1, PrincipalTelescopes
  <2>2. ASSUME Last(Unadjusted) = bond.end, Outstanding[Len(Unadjusted)] > 0
        PROVE  \E k \in EntriesOn(bond.end) : bond.sinking[k].factor > 0
    BY <1>1, <2>2, FactorLeft
  <2>3. ASSUME Last(Unadjusted) = bond.end, OnSchedule, NEW i \in Period
        PROVE  FactorOn(AccrualStart(i)) = Outstanding[i - 1]
    <3>1. Len(Unadjusted) \in Nat
      BY <1>1, DatesByRank
    <3>2. i - 1 \in Nat \ {0} /\ i - 1 < Len(Unadjusted)
      BY <3>1 DEF Period
    <3> QED
      BY <1>1, <2>3, <3>2, FactorsMeet DEF AccrualStart
  <2> QED
    BY <1>1, <2>1, <2>2, <2>3, AmortizationMeets DEF PrincipalIsRepaid
<1>2. BondInv => PrincipalIsRepaid
  BY <1>1 DEF BondInv, PrincipalIsRepaid
<1> QED
  BY <1>2, BondInvariant, PTL

-----------------------------------------------------------------------------
(* The portfolio.                                                          *)
BookInv == part = "book" => positions \in Seq(Offered)

THEOREM BookInvariant == PartSpec => []BookInv
<1>1. PartInit => BookInv
  BY DEF PartInit, BookInv, Book!Init
<1>2. BookInv /\ [PartNext]_all => BookInv'
  <2> SUFFICES ASSUME BookInv, [PartNext]_all, part' = "book"
               PROVE  positions' \in Seq(Offered)
    BY DEF BookInv
  <2>1. part = "book" /\ positions \in Seq(Offered)
    BY PartIsKept DEF BookInv
  <2>2. Book!Next \/ UNCHANGED positions
    BY <2>1 DEF PartNext, BondNext, all
  <2>3. CASE Book!Next
    BY <2>1, <2>3 DEF Book!Next, Book!AddPosition
  <2> QED
    BY <2>1, <2>2, <2>3
<1> QED
  BY <1>1, <1>2, PTL DEF PartSpec

LEMMA BookFacts ==
  ASSUME positions \in Seq(Offered)
  PROVE  /\ IsFiniteSet(Book!Places) /\ IsFiniteSet(Book!Sectors)
            /\ IsFiniteSet(DOMAIN Buckets)
         /\ \A i \in Book!Places :
              /\ Book!Dirty(i) \in Int /\ Book!Dv01(i) \in Int
              /\ positions[i].years \in Int
              /\ positions[i].classified \in Book!Sectors
              /\ positions[i].sector_info \in Book!Sectors
         /\ NoSector \in Book!Sectors
         /\ DOMAIN Buckets \in SUBSET Nat
         /\ \A b \in DOMAIN Buckets : Buckets[b].from \in Int /\ Buckets[b].to \in Int
<1>0. /\ \A p \in Offered :
           /\ p.cash \in BOOLEAN /\ {p.years, p.dirty, p.dv01} \subseteq Int
      /\ Buckets \in Seq([from : Int, to : Int])
  BY PartsAssumption DEF Book!PortfolioConstants
<1>1. IsFiniteSet(Book!Places) /\ \A i \in Book!Places : positions[i] \in Offered
  BY FS_Interval DEF Book!Places
<1>2. IsFiniteSet(DOMAIN Buckets) /\ DOMAIN Buckets \in SUBSET Nat
  BY <1>0, FS_Interval
<1>3. \A b \in DOMAIN Buckets : Buckets[b].from \in Int /\ Buckets[b].to \in Int
  <2> DEFINE Span == [from : Int, to : Int]
  <2>1. \A r \in Span : r.from \in Int /\ r.to \in Int
    OBVIOUS
  <2>2. Buckets \in Seq(Span)
    BY <1>0
  <2> HIDE DEF Span
  <2>3. \A b \in DOMAIN Buckets : Buckets[b] \in Span
    BY <2>2
  <2> QED
    BY <2>1, <2>3
<1>4. IsFiniteSet(Book!Sectors)
  <2> DEFINE A == {positions[i].classified : i \in Book!Places}
             B == {positions[i].sector_info : i \in Book!Places}
             classes == [i \in Book!Places |-> positions[i].classified]
             infos == [i \in Book!Places |-> positions[i].sector_info]
  <2>0. classes \in Surjection(Book!Places, A) /\ infos \in Surjection(Book!Places, B)
    BY DEF Surjection
  <2>1. IsFiniteSet(A) /\ IsFiniteSet(B)
    <3> HIDE DEF classes, infos, A, B
    <3> QED
      BY <1>1, <2>0, FS_Surjection
  <2>2. Book!Sectors = (A \cup B) \cup {NoSector}
    BY DEF Book!Sectors
  <2> HIDE DEF A, B
  <2> QED
    BY <2>1, <2>2, FS_Union, FS_AddElement
<1>5. NoSector \in Book!Sectors
  BY DEF Book!Sectors
<1>6. \A i \in Book!Places :
        positions[i].classified \in Book!Sectors
        /\ positions[i].sector_info \in Book!Sectors
  BY DEF Book!Sectors
<1> QED
  BY <1>0, <1>1, <1>2, <1>3, <1>4, <1>5, <1>6 DEF Book!Dirty, Book!Dv01

LEMMA LastIsItself ==
  ASSUME Book!ItemsDiffer, NEW i \in Book!Places, positions \in Seq(Offered)
  PROVE  Book!LastItem(i) = i
<1>1. \A j \in Book!Places : Book!Item(j) = Book!Item(i) => j = i
  BY DEF Book!ItemsDiffer
<1>2. i \in Nat
  BY DEF Book!Places
<1>3. \A j \in Book!Places :
        (Book!Item(j) = Book!Item(i)
        /\ \A k \in Book!Places : Book!Item(k) = Book!Item(i) => k <= j)
          <=> j = i
  BY <1>1, <1>2
<1> QED
  BY <1>3 DEF Book!LastItem

(* The last position of a name is one of the positions.                    *)
LEMMA OriginalIsHeld ==
  ASSUME NEW i, positions \in Seq(Offered), NEW h \in Book!Places, Book!Name(h) = Book!Item(i)
  PROVE  Book!Original(i) \in Book!Places
<1> DEFINE B == {Len(positions) - j : j \in {k \in Book!Places : Book!Name(k) = Book!Item(i)}}
<1>1. Book!Places = 1 .. Len(positions) /\ Len(positions) \in Nat
  BY DEF Book!Places
<1>2. B \in SUBSET Nat /\ B # {}
  BY <1>1
<1>3. PICK m \in B : \A k \in B : m <= k
  <2> HIDE DEF B
  <2> QED
    BY <1>2, LeastNat
<1>4. PICK j \in Book!Places : Book!Name(j) = Book!Item(i) /\ m = Len(positions) - j
  BY <1>3
<1>5. \A k \in Book!Places : Book!Name(k) = Book!Item(i) => k <= j
  <2> SUFFICES ASSUME NEW k \in Book!Places, Book!Name(k) = Book!Item(i)
               PROVE  k <= j
    OBVIOUS
  <2>1. Len(positions) - k \in B
    OBVIOUS
  <2>2. m <= Len(positions) - k
    BY <1>3, <2>1
  <2> QED
    BY <1>1, <1>4, <2>2
<1> QED
  BY <1>4, <1>5 DEF Book!Original

(* The instance's sums are the library's.                                  *)
LEMMA BookSums ==
  ASSUME NEW v, NEW S
  PROVE  Book!SumFunctionOnSet(v, S) = SumFunctionOnSet(v, S)
BY DEF Book!SumFunctionOnSet, Book!FoldFunctionOnSet, Book!MapThenFoldSet,
       SumFunctionOnSet, FoldFunctionOnSet, MapThenFoldSet

(* A table with a row for what the places of each group add up to.         *)
LEMMA TableAddsUp ==
  ASSUME positions \in Seq(Offered), NEW S \in SUBSET Book!Places, NEW R, IsFiniteSet(R),
         NEW g, \A i \in S : g[i] \in R,
         NEW v, \A i \in Book!Places : v[i] \in Int,
         NEW group, \A r \in R : \A i : i \in group[r] <=> i \in S /\ g[i] = r,
         NEW row, \A r \in R : row[r] = SumFunctionOnSet(v, group[r])
  PROVE  SumFunctionOnSet(row, R) = SumFunctionOnSet(v, S)
<1> DEFINE Of(r) == {i \in S : g[i] = r}
           table == [r \in R |-> SumFunctionOnSet(v, Of(r))]
<1>1. IsFiniteSet(S)
  BY BookFacts, FS_Subset
<1>2. \A r \in R : row[r] = table[r] /\ table[r] \in Int
  <2>1. \A r \in R : Of(r) \in SUBSET S /\ group[r] = Of(r)
    OBVIOUS
  <2>2. \A T \in SUBSET S : SumFunctionOnSet(v, T) \in Int
    BY <1>1, FS_Subset, SumPicks
  <2> HIDE DEF Of
  <2> QED
    BY <2>1, <2>2
<1>3. SumFunctionOnSet(table, R) = SumFunctionOnSet(v, S)
  BY <1>1, SumByGroups
<1> HIDE DEF table
<1> QED
  BY <1>2, <1>3, SumSame

(* Groups of places, a name's in one of them, that make up A.              *)
PartedByName(R, group, A) ==
  /\ \A r \in R : \A i \in group[r] : i \in Book!Places
  /\ \A r, q \in R : \A i \in group[r], j \in group[q] :
       Book!Name(i) = Book!Name(j) => r = q
  /\ \A i : i \in A <=> \E r \in R : i \in group[r]

(* A table with a row for what goes by the names of each group's positions,*)
(* where the positions of one name are in one group.                       *)
LEMMA ReportsAddUp ==
  ASSUME positions \in Seq(Offered), NEW R, IsFiniteSet(R),
         NEW group, NEW A, PartedByName(R, group, A),
         NEW v, \A i \in Book!Places : v[i] \in Int,
         NEW row, \A r \in R : row[r] = SumFunctionOnSet(v, Book!Reported(group[r]))
  PROVE  SumFunctionOnSet(row, R) = SumFunctionOnSet(v, Book!Reported(A))
<1> DEFINE S == Book!Reported(A)
           Rows(j) == {r \in R : j \in Book!Reported(group[r])}
           g == [j \in S |-> CHOOSE r : r \in Rows(j)]
           cell == [r \in R |-> Book!Reported(group[r])]
<1>1. S \in SUBSET Book!Places
  BY DEF Book!Reported
<1>2. \A j \in S : \E r : r \in Rows(j)
  BY DEF Book!Reported, PartedByName
<1>3. \A j : \A r, q \in Rows(j) : r = q
  <2> SUFFICES ASSUME NEW j, NEW r \in Rows(j), NEW q \in Rows(j)
               PROVE  r = q
    OBVIOUS
  <2>1. PICK i \in group[r] : Book!Item(j) = Book!Name(i)
    BY DEF Book!Reported
  <2>2. PICK k \in group[q] : Book!Item(j) = Book!Name(k)
    BY DEF Book!Reported
  <2> QED
    BY <2>1, <2>2 DEF PartedByName
<1>4. \A j \in S : g[j] \in Rows(j)
  <2> HIDE DEF S, Rows
  <2> QED
    BY <1>2
<1>5. \A j \in S : g[j] \in R
  BY <1>4
<1>6. \A r \in R : \A j : j \in cell[r] <=> j \in S /\ g[j] = r
  <2> SUFFICES ASSUME NEW r \in R, NEW j
               PROVE  j \in cell[r] <=> j \in S /\ g[j] = r
    OBVIOUS
  <2>1. j \in cell[r] <=> r \in Rows(j)
    OBVIOUS
  <2>2. r \in Rows(j) => j \in S
    BY DEF Book!Reported, PartedByName
  <2> HIDE DEF S, Rows, g, cell
  <2> QED
    BY <1>3, <1>4, <2>1, <2>2
<1>7. \A r \in R : row[r] = SumFunctionOnSet(v, cell[r])
  OBVIOUS
<1> HIDE DEF S, Rows, g, cell
<1>8. SumFunctionOnSet(row, R) = SumFunctionOnSet(v, S)
  BY <1>1, <1>5, <1>6, <1>7, TableAddsUp
<1> QED
  BY <1>8 DEF S

(* What is reported under the names of A is the total less what is missed. *)
LEMMA TotalLessMissed ==
  ASSUME positions \in Seq(Offered), NEW A, NEW v, \A i \in Book!Places : v[i] \in Int
  PROVE  SumFunctionOnSet(v, Book!Reported(A))
           = SumFunctionOnSet(v, Book!Places) - SumFunctionOnSet(v, Book!Missed(A))
<1> DEFINE S == Book!Reported(A)
<1>1. IsFiniteSet(Book!Places) /\ S \in SUBSET Book!Places
  BY BookFacts DEF Book!Reported
<1>2. Book!Missed(A) = Book!Places \ S
  BY DEF Book!Missed
<1> HIDE DEF S
<1>3. IsFiniteSet(S) /\ IsFiniteSet(Book!Places \ S)
  BY <1>1, FS_Subset
<1>4. SumFunctionOnSet(v, S) \in Int /\ SumFunctionOnSet(v, Book!Places \ S) \in Int
  BY <1>1, <1>3, SumPicks
<1>5. SumFunctionOnSet(v, Book!Places)
        = SumFunctionOnSet(v, S) + SumFunctionOnSet(v, Book!Places \ S)
  BY <1>1, SumSplits
<1>6. SumFunctionOnSet(v, S)
        = SumFunctionOnSet(v, Book!Places) - SumFunctionOnSet(v, Book!Places \ S)
  BY <1>4, <1>5
<1> QED
  BY <1>2, <1>6, Zenon DEF S

(* Contributions: a bond adds what goes by its name, and is in the group   *)
(* of its classification.                                                  *)
LEMMA ContributionsAddUp ==
  ASSUME positions \in Seq(Offered), Book!ItemsDiffer,
         \A i, j \in Book!Bonds : Book!Name(i) = Book!Name(j) => i = j
  PROVE  Book!SumOfTable(Book!Sectors, Book!ContributionBySector)
           = Book!TotalDv01 - Book!SumOver(Book!Missed(Book!Bonds), Book!Dv01)
<1> DEFINE v == [i \in Book!Places |-> Book!Dv01(i)]
           w == [i \in Book!Places |-> Book!ContributionOf(i)]
           group == [s \in Book!Sectors |-> Book!Group(s)]
           row == [s \in Book!Sectors |-> SumFunctionOnSet(w, Book!Group(s))]
<1>1. (\A i \in Book!Places : v[i] \in Int) /\ IsFiniteSet(Book!Sectors)
  BY BookFacts
<1>2. \A i \in Book!Places : w[i] = SumFunctionOnSet(v, Book!Reported({i}))
  <2>1. \A i : {Book!LastItem(j) : j \in Book!Reported({i})} = Book!Reported({i})
    BY LastIsItself DEF Book!Reported
  <2>2. \A i \in Book!Places :
          w[i] = SumFunctionOnSet(v, {Book!LastItem(j) : j \in Book!Reported({i})})
    BY BookSums DEF Book!ContributionOf, Book!SumOver
  <2> HIDE DEF v, w
  <2> QED
    BY <2>1, <2>2
<1>3. \A s \in Book!Sectors : row[s] = SumFunctionOnSet(v, Book!Reported(group[s]))
  <2> SUFFICES ASSUME NEW s \in Book!Sectors
               PROVE  SumFunctionOnSet(w, Book!Group(s))
                        = SumFunctionOnSet(v, Book!Reported(Book!Group(s)))
    OBVIOUS
  <2> DEFINE R == Book!Group(s)
             one == [i \in R |-> {i}]
  <2>1. R \in SUBSET Book!Bonds /\ R \in SUBSET Book!Places
    BY DEF Book!Group, Book!Bonds
  <2>2. IsFiniteSet(R)
    BY <2>1, BookFacts, FS_Subset
  <2>3. PartedByName(R, one, R)
    <3> HIDE DEF R
    <3> QED
      BY <2>1 DEF PartedByName
  <2>4. \A r \in R : w[r] = SumFunctionOnSet(v, Book!Reported(one[r]))
    <3> HIDE DEF v, w, R
    <3> QED
      BY <1>2, <2>1
  <2> HIDE DEF v, w, R, one
  <2>5. SumFunctionOnSet(w, R) = SumFunctionOnSet(v, Book!Reported(R))
    BY <1>1, <2>2, <2>3, <2>4, ReportsAddUp
  <2> QED
    BY <2>5 DEF R
<1>4. PartedByName(Book!Sectors, group, Book!Bonds)
  <2>1. \A i : i \in Book!Bonds <=> \E s \in Book!Sectors : i \in group[s]
    BY BookFacts DEF Book!Group, Book!Bonds
  <2> QED
    BY <2>1 DEF PartedByName, Book!Group, Book!Bonds
<1>6. SumFunctionOnSet(row, Book!Sectors) = SumFunctionOnSet(v, Book!Reported(Book!Bonds))
  <2> HIDE DEF v, w, row, group
  <2> QED
    BY <1>1, <1>3, <1>4, ReportsAddUp
<1>7. SumFunctionOnSet(v, Book!Reported(Book!Bonds))
        = SumFunctionOnSet(v, Book!Places) - SumFunctionOnSet(v, Book!Missed(Book!Bonds))
  <2> HIDE DEF v
  <2> QED
    BY <1>1, TotalLessMissed
<1>8. /\ Book!TotalDv01 = SumFunctionOnSet(v, Book!Places)
      /\ Book!SumOver(Book!Missed(Book!Bonds), Book!Dv01)
           = SumFunctionOnSet(v, Book!Missed(Book!Bonds))
      /\ Book!SumOfTable(Book!Sectors, Book!ContributionBySector)
            = SumFunctionOnSet(row, Book!Sectors)
  BY BookSums DEF Book!TotalDv01, Book!SumOver, Book!SumOfTable, Book!ContributionBySector,
                  Book!SumFunction
<1> HIDE DEF v, row
<1> QED
  BY <1>6, <1>7, <1>8

(* Summaries: every bond is in the bucket of one sector.                   *)
LEMMA SummariesAddUp ==
  ASSUME positions \in Seq(Offered), Book!ItemsDiffer,
         Book!RowPerName(Book!Sectors, Book!InSector)
  PROVE  Book!SumOfTable(Book!Sectors, LAMBDA s : Book!Summary(Book!InSector(s)))
           = Book!TotalDirty - Book!SumOver(Book!Missed(Book!Bonds), Book!Dirty)
<1> DEFINE v == [i \in Book!Places |-> Book!Dirty(i)]
           group == [s \in Book!Sectors |-> Book!InSector(s)]
           row == [s \in Book!Sectors |->
                    SumFunctionOnSet(v,
                      {Book!LastItem(j) : j \in Book!Reported(Book!InSector(s))})]
<1>1. (\A i \in Book!Places : v[i] \in Int) /\ IsFiniteSet(Book!Sectors)
  BY BookFacts
<1>2. \A s \in Book!Sectors : row[s] = SumFunctionOnSet(v, Book!Reported(group[s]))
  <2>1. \A P : {Book!LastItem(j) : j \in Book!Reported(P)} = Book!Reported(P)
    BY LastIsItself DEF Book!Reported
  <2> HIDE DEF v
  <2> QED
    BY <2>1
<1>3. PartedByName(Book!Sectors, group, Book!Bonds)
  <2>1. \A s : \A i \in Book!InSector(s) : i \in Book!Places
    BY DEF Book!InSector, Book!Bonds
  <2>2. \A s, r \in Book!Sectors : \A i \in Book!InSector(s), j \in Book!InSector(r) :
          Book!Name(i) = Book!Name(j) => s = r
    BY DEF Book!RowPerName
  <2>3. \A i : i \in Book!Bonds <=> \E s \in Book!Sectors : i \in group[s]
    BY BookFacts DEF Book!InSector, Book!Bonds
  <2> QED
    BY <2>1, <2>2, <2>3 DEF PartedByName
<1>5. SumFunctionOnSet(row, Book!Sectors) = SumFunctionOnSet(v, Book!Reported(Book!Bonds))
  <2> HIDE DEF v, row, group
  <2> QED
    BY <1>1, <1>2, <1>3, ReportsAddUp
<1>6. SumFunctionOnSet(v, Book!Reported(Book!Bonds))
        = SumFunctionOnSet(v, Book!Places) - SumFunctionOnSet(v, Book!Missed(Book!Bonds))
  <2> HIDE DEF v
  <2> QED
    BY <1>1, TotalLessMissed
<1>7. /\ Book!TotalDirty = SumFunctionOnSet(v, Book!Places)
      /\ Book!SumOver(Book!Missed(Book!Bonds), Book!Dirty)
           = SumFunctionOnSet(v, Book!Missed(Book!Bonds))
      /\ Book!SumOfTable(Book!Sectors, LAMBDA s : Book!Summary(Book!InSector(s)))
            = SumFunctionOnSet(row, Book!Sectors)
  BY BookSums DEF Book!TotalDirty, Book!SumOver, Book!SumOfTable, Book!Summary,
       Book!SumFunction
<1> HIDE DEF v, row
<1> QED
  BY <1>5, <1>6, <1>7

(* Maturities: a bond is in the first bucket that holds it, or matured.    *)
LEMMA MaturitiesAddUp ==
  ASSUME positions \in Seq(Offered), Book!RowPerName(DOMAIN Buckets, Book!InMaturity)
  PROVE  Book!SumOfTable(DOMAIN Buckets, LAMBDA b : Book!BucketDv01(Book!InMaturity(b)))
           = Book!TotalDv01
             - Book!SumOver(Book!Missed(Book!Bonds \ Book!Matured), Book!Dv01)
<1> DEFINE v == [i \in Book!Places |-> Book!Dv01(i)]
           A == Book!Bonds \ Book!Matured
           group == [b \in DOMAIN Buckets |-> Book!InMaturity(b)]
           row == [b \in DOMAIN Buckets |->
                    SumFunctionOnSet(v, Book!Reported(Book!InMaturity(b)))]
<1>1. /\ \A i \in Book!Places : v[i] \in Int
      /\ IsFiniteSet(DOMAIN Buckets) /\ DOMAIN Buckets \in SUBSET Nat
  BY BookFacts
<1>2. \A b \in DOMAIN Buckets : row[b] = SumFunctionOnSet(v, Book!Reported(group[b]))
  OBVIOUS
<1>3. ASSUME NEW i \in A
      PROVE  \E b \in DOMAIN Buckets : i \in group[b]
  <2> DEFINE B == {b \in DOMAIN Buckets : Book!Within(i, b)}
  <2>1. B # {}
    BY <1>3 DEF Book!Matured
  <2>2. B \in SUBSET Nat
    BY <1>1
  <2> HIDE DEF B
  <2>3. PICK m \in B : \A k \in B : m <= k
    BY <2>1, <2>2, LeastNat
  <2>4. m \in Nat /\ m \in DOMAIN Buckets /\ Book!Within(i, m)
    BY <2>2, <2>3 DEF B
  <2>5. \A c \in 1 .. m - 1 : ~Book!Within(i, c)
    <3> SUFFICES ASSUME NEW c \in 1 .. m - 1, Book!Within(i, c)
                 PROVE  FALSE
      OBVIOUS
    <3>1. c \in DOMAIN Buckets
      BY <2>4, PartsAssumption DEF Book!PortfolioConstants
    <3>2. c \in B
      BY <3>1 DEF B
    <3> QED
      BY <2>3, <2>4, <3>2
  <2> QED
    BY <1>3, <2>4, <2>5 DEF Book!InMaturity
<1>4. PartedByName(DOMAIN Buckets, group, A)
  <2>1. \A b : \A i \in Book!InMaturity(b) : i \in Book!Places
    BY DEF Book!InMaturity, Book!Bonds
  <2>2. \A b, d \in DOMAIN Buckets :
          \A i \in Book!InMaturity(b), j \in Book!InMaturity(d) :
            Book!Name(i) = Book!Name(j) => b = d
    BY DEF Book!RowPerName
  <2>3. \A b \in DOMAIN Buckets : \A i \in Book!InMaturity(b) : i \in A
    BY DEF Book!InMaturity, Book!Matured
  <2> HIDE DEF A
  <2> QED
    BY <1>3, <2>1, <2>2, <2>3 DEF PartedByName
<1>5. SumFunctionOnSet(row, DOMAIN Buckets) = SumFunctionOnSet(v, Book!Reported(A))
  <2> DEFINE R == DOMAIN Buckets
  <2>1. /\ IsFiniteSet(R) /\ \A i \in Book!Places : v[i] \in Int
        /\ \A b \in R : row[b] = SumFunctionOnSet(v, Book!Reported(group[b]))
        /\ PartedByName(R, group, A)
    <3> HIDE DEF v, row, group, A
    <3> QED
      BY <1>1, <1>2, <1>4
  <2> HIDE DEF v, row, group, A, R
  <2>2. SumFunctionOnSet(row, R) = SumFunctionOnSet(v, Book!Reported(A))
    BY <2>1, ReportsAddUp
  <2> QED
    BY <2>2 DEF R
<1>6. SumFunctionOnSet(v, Book!Reported(A))
        = SumFunctionOnSet(v, Book!Places) - SumFunctionOnSet(v, Book!Missed(A))
  <2> HIDE DEF v, A
  <2> QED
    BY <1>1, TotalLessMissed
<1>7. /\ Book!TotalDv01 = SumFunctionOnSet(v, Book!Places)
      /\ Book!SumOver(Book!Missed(A), Book!Dv01) = SumFunctionOnSet(v, Book!Missed(A))
      /\ Book!SumOfTable(DOMAIN Buckets, LAMBDA b : Book!BucketDv01(Book!InMaturity(b)))
            = SumFunctionOnSet(row, DOMAIN Buckets)
  BY BookSums DEF Book!TotalDv01, Book!SumOver, Book!SumOfTable, Book!BucketDv01,
                  Book!SumFunction
<1>8. Book!SumOfTable(DOMAIN Buckets, LAMBDA b : Book!BucketDv01(Book!InMaturity(b)))
        = Book!TotalDv01 - Book!SumOver(Book!Missed(A), Book!Dv01)
  <2> HIDE DEF v, row, A
  <2> QED
    BY <1>5, <1>6, <1>7
<1> QED
  BY <1>8

(* Attribution: all analytics have a sector, those of no position none.    *)
LEMMA AttributionAddsUp ==
  ASSUME positions \in Seq(Offered), Book!ItemsDiffer
  PROVE  Book!SumOfTable(Book!Sectors, Book!AttributedWeight) = Book!TotalDirty
<1> DEFINE v == [i \in Book!Places |-> Book!Dirty(i)]
           w == [i \in Book!Places |-> Book!Weight(i)]
           S == Book!Places
           g == [i \in Book!Places |-> Book!SectorName(i)]
           group == [s \in Book!Sectors |-> {i \in Book!Places : Book!SectorName(i) = s}]
           row == [s \in Book!Sectors |->
                    SumFunctionOnSet(w, {i \in Book!Places : Book!SectorName(i) = s})]
<1>1. v = w
  BY LastIsItself DEF Book!Weight
<1>2. (\A i \in Book!Places : v[i] \in Int) /\ IsFiniteSet(Book!Sectors)
  BY BookFacts
<1>3. \A i \in S : g[i] \in Book!Sectors
  BY BookFacts, OriginalIsHeld DEF Book!SectorName
<1>4. \A s \in Book!Sectors : \A i : i \in group[s] <=> i \in S /\ g[i] = s
  OBVIOUS
<1>5. \A s \in Book!Sectors : row[s] = SumFunctionOnSet(v, group[s])
  <2> HIDE DEF v, w
  <2> QED
    BY <1>1
<1>6. SumFunctionOnSet(row, Book!Sectors) = SumFunctionOnSet(v, S)
  <2>1. S \in SUBSET Book!Places
    OBVIOUS
  <2> HIDE DEF S, g, v, w, row, group
  <2> QED
    BY <1>2, <1>3, <1>4, <1>5, <2>1, TableAddsUp
<1>7. /\ Book!TotalDirty = SumFunctionOnSet(v, S)
      /\ Book!SumOfTable(Book!Sectors, Book!AttributedWeight)
            = SumFunctionOnSet(row, Book!Sectors)
  BY BookSums DEF Book!TotalDirty, Book!SumOver, Book!SumOfTable, Book!AttributedWeight,
                  Book!SumFunction
<1> HIDE DEF v, row, S
<1> QED
  BY <1>6, <1>7

(* Every table adds up to the portfolio's total less exactly what goes by  *)
(* the name of none of its bonds, for any positions, sectors and buckets:  *)
(* buckets by maturity where the lots of a bond share one, attribution     *)
(* where no two analytics share a name, and contributions and summaries by *)
(* sector where moreover a name is one bond's, or one sector's.            *)
THEOREM TablesReconcileHolds == PartSpec => []TablesReconcile
<1>1. BookInv => TablesReconcile
  BY ContributionsAddUp, SummariesAddUp, MaturitiesAddUp, AttributionAddsUp
     DEF BookInv, TablesReconcile, Book!TablesReconcile
<1> QED
  BY <1>1, BookInvariant, PTL
=============================================================================
