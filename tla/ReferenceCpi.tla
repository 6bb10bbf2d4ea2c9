----------------------------- MODULE ReferenceCpi -----------------------------
(***************************************************************************)
(* The daily reference index of inflation-linked bonds                     *)
(* (inflation/reference.py) while the monthly fixings it interpolates      *)
(* between are published, under one of the names of the index, and revised *)
(* (inflation/history.py).  Months are counted from year 0.                *)
(***************************************************************************)
EXTENDS CivilDates, Sequences

CONSTANTS
  LookupNames,    \* the index and its aliases, in the order of look-up
  Lag,            \* observation_lag_months
  ObservedMonth,  \* the months that fixings are published for
  Value           \* the values they may have

CpiConstants ==
  /\ LookupNames \in Seq(STRING) \ {<< >>}
  /\ Lag \in Nat /\ ObservedMonth \subseteq Nat /\ Value \subseteq Nat \ {0}

Missing == 0

VARIABLES
  fixings,    \* InMemoryInflationFixingSource: by name and month
  method      \* interpolation_method, one of "MONTHLY" and "LINEAR"

vars == <<fixings, method>>

Init ==
  /\ fixings = [k \in (DOMAIN LookupNames) \X ObservedMonth |-> Missing]
  /\ method \in {"MONTHLY", "LINEAR"}

(* add_inflation_fixing; a fixing for the same name and month is replaced. *)
AddFixing(name, month, value) ==
  /\ fixings' = [fixings EXCEPT ![<<name, month>>] = value]
  /\ UNCHANGED method

Next ==
  \E name \in DOMAIN LookupNames, month \in ObservedMonth, value \in Value :
    AddFixing(name, month, value)

Spec == Init /\ [][Next]_vars

-----------------------------------------------------------------------------
Names(month) ==
  {n \in DOMAIN LookupNames :
     <<n, month>> \in DOMAIN fixings /\ fixings[n, month] # Missing}

(* Mutant: when a month has no fixing the one of the month before is used. *)
CarriedForward(month) ==
  IF Names(month) # {}
  THEN fixings[CHOOSE n \in Names(month) : \A k \in Names(month) : n <= k, month]
  ELSE IF Names(month - 1) # {}
  THEN fixings[CHOOSE n \in Names(month - 1) : \A k \in Names(month - 1) : n <= k, month - 1]
  ELSE Missing

(* _lookup_fixing: the first name that has a fixing for the month.         *)
Lookup(month) ==
  IF Names(month) = {} THEN Missing
  ELSE fixings[CHOOSE n \in Names(month) : \A k \in Names(month) : n <= k, month]

First(month) == Lookup(month - Lag)

Second(month) == Lookup(month + 1 - Lag)

(* _require_fixings: MissingInflationFixing is raised unless both are      *)
(* there, on the first of the month too, when the second has no weight.    *)
Defined(month) ==
  First(month) # Missing /\ (method = "LINEAR" => Second(month) # Missing)

DaysIn(month) == MonthLength(month \div 12, (month % 12) + 1)

(* Mutant: the day of the month is the weight.                             *)
DayItself(day) == IF day = 1 THEN 0 ELSE day

DayOffset(day) == day - 1

(* reference_cpi, times the days in the month of settlement.               *)
Scaled(month, day) ==
  CASE method = "MONTHLY" -> First(month) * DaysIn(month)
    [] method = "LINEAR"  ->
         First(month) * DaysIn(month) + (Second(month) - First(month)) * DayOffset(day)

SettlementMonth == {month + Lag : month \in ObservedMonth}

-----------------------------------------------------------------------------
(* The linear index grows by the same amount from each day to the next,    *)
(* over the end of the month too, whatever the lengths of the two months:  *)
(* no settlement date is between two steps of the index.                   *)
CpiHasNoJump ==
  method = "LINEAR" =>
    \A month \in {m \in SettlementMonth : Defined(m)} :
      LET step == Second(month) - First(month)
      IN  /\ \A day \in 1 .. DaysIn(month) - 1 :
               Scaled(month, day + 1) - Scaled(month, day) = step
          /\ Defined(month + 1) =>
               (Scaled(month + 1, 1) \div DaysIn(month + 1)) * DaysIn(month)
                 - Scaled(month, DaysIn(month)) = step

(* An index that has been paid on stays: only a revision of the fixings it *)
(* was made from, or a fixing under a name that comes before, changes it.  *)
Replaced(month) ==
  /\ Names(month) # {}
  /\ \E n \in DOMAIN LookupNames :
       (\A k \in Names(month) : n <= k) /\ fixings'[n, month] # fixings[n, month]

KeepsIndex ==
  \A month \in {m \in SettlementMonth : Defined(m)} :
    /\ Defined(month)'
    /\ ~ Replaced(month - Lag) /\ ~ Replaced(month + 1 - Lag) =>
         Scaled(month, 2)' = Scaled(month, 2)

CpiStays == [][KeepsIndex]_vars
=============================================================================
