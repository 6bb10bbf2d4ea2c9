------------------------------ MODULE RootBracket ------------------------------
(***************************************************************************)
(* The bracketed root solvers behind yields, spreads and calibration       *)
(* (_math/solvers: bisection.py, hybrid.py and brent.py), on a grid of     *)
(* points.  The step a Newton or an interpolation formula proposes is any  *)
(* point, which the solver then accepts or replaces by the midpoint;       *)
(* bisection has no choice.  Midpoints are rounded down to the grid.       *)
(***************************************************************************)
EXTENDS Integers

CONSTANTS
  Size,             \* the grid is 0 .. Size, and the bracket its two ends
  Value,            \* what the function may return
  Tolerance,        \* config.tolerance, for residuals and for widths
  MaxIterations     \* config.max_iterations

ASSUME ConstantsAssumption ==
  /\ Size \in Nat \ {0} /\ Value \subseteq Int
  /\ Tolerance \in Nat \ {0} /\ MaxIterations \in Nat \ {0}

Point == 0 .. Size

Solver == {"bisection", "hybrid", "brent"}

Status == {"start", "running", "converged", "failed", "raised"}

VARIABLES
  f, solver,
  lo, hi,         \* the bracket
  x,              \* the iterate of hybrid; the better end, b, in brent; the
                  \* midpoint of the last step in bisection; at last the root
  iterations,
  status

vars == <<f, solver, lo, hi, x, iterations, status>>

TypeOK ==
  /\ f \in [Point -> Value] /\ solver \in Solver
  /\ lo \in Point /\ hi \in Point /\ x \in Point
  /\ iterations \in Nat /\ status \in Status

Init ==
  /\ f \in [Point -> Value]
  /\ solver \in Solver
  /\ lo = 0 /\ hi = Size /\ x = 0
  /\ iterations = 0
  /\ status = "start"

-----------------------------------------------------------------------------
AbsValue(u) == IF u < 0 THEN 0 - u ELSE u

(* u * v <= 0.                                                             *)
Opposite(u, v) == (u <= 0 /\ v >= 0) \/ (u >= 0 /\ v <= 0)

(* Mutant: the weights of the ends do not agree.                           *)
LowerQuarter == (3 * lo + hi) \div 4

Midpoint == (lo + hi) \div 2

Better(p, q) == IF AbsValue(f[p]) < AbsValue(f[q]) THEN p ELSE q

ReturnEnd(p) ==
  /\ f[p] = 0
  /\ x' = p /\ status' = "converged"
  /\ UNCHANGED <<lo, hi, iterations>>

(* InvalidBracket.                                                         *)
RejectBracket ==
  /\ ~ Opposite(f[lo], f[hi])
  /\ status' = "raised"
  /\ UNCHANGED <<lo, hi, x, iterations>>

(* A starting guess outside the bracket is replaced by its middle.         *)
BeginIteration ==
  /\ f[lo] # 0 /\ f[hi] # 0 /\ Opposite(f[lo], f[hi])
  /\ \/ solver = "bisection" /\ x' = x
     \/ solver = "hybrid" /\ x' \in (lo + 1 .. hi - 1) \cup {Midpoint}
     \/ solver = "brent" /\ x' \in {Better(lo, hi), Better(hi, lo)}
  /\ status' = "running"
  /\ UNCHANGED <<lo, hi, iterations>>

Start ==
  /\ status = "start"
  /\ ReturnEnd(lo) \/ (f[lo] # 0 /\ ReturnEnd(hi)) \/ RejectBracket \/ BeginIteration
  /\ UNCHANGED <<f, solver>>

-----------------------------------------------------------------------------
Iterating(name) ==
  /\ solver = name /\ status = "running" /\ iterations < MaxIterations
  /\ UNCHANGED <<f, solver>>

Return(p) == x' = p /\ status' = "converged" /\ UNCHANGED <<lo, hi, iterations>>

(* Mutant: the ends are told apart the wrong way round.                    *)
TightenWrongEnd(p) ==
  IF Opposite(f[lo], f[p]) THEN lo' = p /\ hi' = hi ELSE lo' = lo /\ hi' = p

Tighten(p) ==
  IF Opposite(f[lo], f[p]) THEN lo' = lo /\ hi' = p ELSE lo' = p /\ hi' = hi

BisectionStep ==
  /\ Iterating("bisection")
  /\ IF AbsValue(f[Midpoint]) <= Tolerance \/ hi - lo <= Tolerance
     THEN Return(Midpoint)
     ELSE /\ Tighten(Midpoint)
          /\ x' = Midpoint /\ iterations' = iterations + 1 /\ UNCHANGED status

(* The Newton step is taken if it stays inside the bracket.                *)
HybridStep ==
  /\ Iterating("hybrid")
  /\ IF AbsValue(f[x]) <= Tolerance
     THEN Return(x)
     ELSE /\ Tighten(x)
          /\ iterations' = iterations + 1
          /\ \/ x' \in (lo' + 1 .. hi' - 1) \cup {(lo' + hi') \div 2} /\ UNCHANGED status
             \/ x' = x /\ status' = "raised"      \* DivisionByZero: a flat slope

(* a, the worse end, and the last three quarters of the way from a to b.   *)
Worse == IF x = lo THEN hi ELSE lo

Interpolated ==
  {s \in lo + 1 .. hi - 1 :
     IF x > Worse THEN 3 * Worse + x < 4 * s ELSE 4 * s < 3 * Worse + x}

(* s replaces b if a and s change sign, and a otherwise; then the better   *)
(* end is b.                                                               *)
BrentReplace(s) ==
  LET crossed == f[s] # 0 /\ Opposite(f[Worse], f[s])
      a == IF crossed THEN Worse ELSE s
      b == IF crossed THEN s ELSE x
  IN  /\ lo' = IF a < b THEN a ELSE b
      /\ hi' = IF a < b THEN b ELSE a
      /\ x' = Better(a, b)

BrentStep ==
  /\ Iterating("brent")
  /\ IF AbsValue(f[x]) <= Tolerance \/ hi - lo <= Tolerance
     THEN Return(x)
     ELSE /\ \E s \in Interpolated \cup {Midpoint} : BrentReplace(s)
          /\ iterations' = iterations + 1 /\ UNCHANGED status

(* ConvergenceFailed.                                                      *)
GiveUp ==
  /\ status = "running" /\ iterations = MaxIterations
  /\ status' = "failed"
  /\ UNCHANGED <<f, solver, lo, hi, x, iterations>>

Next == Start \/ BisectionStep \/ HybridStep \/ BrentStep \/ GiveUp

Spec == Init /\ [][Next]_vars

-----------------------------------------------------------------------------
(* What keeps the search honest: the two ends of the bracket have opposite *)
(* signs for as long as the solver runs, brent's iterate is an end and     *)
(* hybrid's is between them.                                               *)
BracketKept ==
  status = "running" =>
    /\ lo < hi /\ Opposite(f[lo], f[hi])
    /\ solver = "brent" => x \in {lo, hi}
    /\ solver = "hybrid" => lo <= x /\ x < hi

(* A root that is returned is one: its residual is within the tolerance,   *)
(* or the function changes sign between two points about it that are no    *)
(* further apart than the tolerance.                                       *)
IsRoot(p) ==
  \/ AbsValue(f[p]) <= Tolerance
  \/ \E l, h \in Point :
       l <= p /\ p <= h /\ h - l <= Tolerance /\ Opposite(f[l], f[h])

RootIsRoot == status = "converged" => IsRoot(x)

(* Bisection halves the bracket: with enough iterations for its width,     *)
(* 2 ^ (MaxIterations - 1) * Tolerance >= Size, it never gives up on a     *)
(* bracket that changes sign, whatever the function.                       *)
Halving(width) ==
  /\ width[1] = Size
  /\ \A k \in 1 .. MaxIterations - 1 : 2 * width[k + 1] >= width[k]

Enough ==
  \E width \in [1 .. MaxIterations -> Point] : Halving(width) /\ width[MaxIterations] <= Tolerance

BisectionConverges == Enough /\ solver = "bisection" => status # "failed"

(* A solver that has not started has the bracket it was given.             *)
StartsWide == status = "start" => lo = 0 /\ hi = Size

IInv == TypeOK /\ StartsWide /\ BracketKept /\ RootIsRoot
=============================================================================
