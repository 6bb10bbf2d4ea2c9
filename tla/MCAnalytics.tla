------------------------------ MODULE MCAnalytics ------------------------------
(***************************************************************************)
(* The library under the engine: holiday rules, calendars, day counts,     *)
(* bonds, overnight coupons, index-linked coupons, root solvers and        *)
(* portfolio tables.  None of them shares state with another, so that      *)
(* their interleavings show nothing that each alone does not: a behaviour  *)
(* is one of a single "part", with the variables of the others at rest.    *)
(***************************************************************************)
EXTENDS RootBracket, CalendarEdits, BondLife, SampleBonds, AccrualMeter

CONSTANTS
  Note,            \* FloatingCoupon's
  IndexNames, IndexLag, IndexMonth, IndexValue,     \* ReferenceCpi's
  Offered, NoSector, Buckets, MaxPositions          \* PortfolioTotals'

VARIABLES
  part,
  year, built,
  note, observed, fixings, method, positions

rules == <<year, built>>
meter == <<start, end>>
coupon == <<note, observed>>
solving == <<f, solver, lo, hi, x, iterations, status>>

all == <<part, rules, calendars, meter, schedule, today, coupon, fixings, method, positions, solving>>

-----------------------------------------------------------------------------
(* What the function of a solver may return.                               *)
Residual == {0 - 2, 0, 2}

Rules == INSTANCE HolidayRules WITH FirstYear <- 1900, LastYear <- 2199

(* A bank holiday next to the end of a month and a weekend.                *)
HolidayDef == {FromYmd(2023, 4, 27), FromYmd(2023, 4, 28), FromYmd(2023, 5, 1)}

LagDef == {0 - 2, 0 - 1, 1, 3}

(* Ends of months, of Februaries and of years.                             *)
StartDateDef ==
  { FromYmd(2023, 1, 30), FromYmd(2023, 2, 28), FromYmd(2023, 3, 1), FromYmd(2023, 3, 31),
    FromYmd(2023, 12, 31), FromYmd(2024, 1, 1), FromYmd(2024, 2, 28), FromYmd(2024, 2, 29) }

(* A coupon over May Day, and others that start or end on a closed day.    *)
OvernightNote ==
  [ calendar |-> [weekend |-> {5, 6}, holidays |-> {FromYmd(2023, 5, 1)}],
    start |-> FromYmd(2023, 4, 24), end |-> FromYmd(2023, 5, 3),
    shift |-> "NONE", lookback |-> 0, lockout |-> 0, projection |-> 0 ]

NoteDef ==
  { OvernightNote,
    [OvernightNote EXCEPT !.shift = "LOOKBACK", !.lookback = 2],
    [OvernightNote EXCEPT !.shift = "OBSERVATION_SHIFT", !.lookback = 1, !.lockout = 2],
    [OvernightNote EXCEPT !.lockout = 3, !.projection = 0 - 1],
    [OvernightNote EXCEPT !.start = FromYmd(2023, 4, 22), !.end = FromYmd(2023, 4, 30)],
    [OvernightNote EXCEPT !.start = FromYmd(2023, 4, 28), !.lockout = 3] }

Coupon == INSTANCE FloatingCoupon

(* Fixings for three months over the turn of a leap year.                  *)
CpiNames == <<"CPURNSA", "CPI-U">>

TurnOfYear == 12 * 2023 + 10 .. 12 * 2024

Cpi == INSTANCE ReferenceCpi WITH
  LookupNames <- IndexNames, Lag <- IndexLag, Value <- IndexValue, ObservedMonth <- IndexMonth

(* Two lots of one bond, bonds with a sector here, there and nowhere, one  *)
(* that is matured, cash whose label is the name of a bond, and holdings   *)
(* given analytics under a name of nobody's and under another bond's.      *)
Held(cash, name, sector_info, classified, years, dirty, dv01) ==
  [ cash |-> cash, name |-> name, item |-> name, sector_info |-> sector_info,
    classified |-> classified, years |-> years, dirty |-> dirty, dv01 |-> dv01 ]

Given(item, holding) == [holding EXCEPT !.item = item]

OfferedDef ==
  { Held(FALSE, "lots", "none", "financials", 1, 100, 1),
    Held(FALSE, "lots", "none", "financials", 2, 50, 3),
    Held(FALSE, "info", "energy", "none", 3, 70, 5),
    Held(FALSE, "bare", "none", "none", 7, 30, 7),
    Held(FALSE, "matured", "energy", "financials", 0 - 1, 11, 13),
    Held(TRUE, "cash", "none", "none", 0, 17, 0),
    Held(TRUE, "bare", "none", "none", 0, 19, 0),
    Given("vendor", Held(FALSE, "given", "none", "energy", 4, 23, 17)),
    Given("info", Held(FALSE, "lots", "energy", "financials", 1, 29, 19)) }

BucketsDef == <<[from |-> 0, to |-> 2], [from |-> 2, to |-> 5], [from |-> 5, to |-> 10]>>

Book == INSTANCE PortfolioTotals

ASSUME PartsAssumption ==
  /\ Rules!HolidayConstants /\ CalendarConstants /\ MeterConstants
  /\ Notional \in Nat \ {0} /\ \A b \in Bond : IsBond(b)
  /\ Coupon!NoteConstants /\ Cpi!CpiConstants /\ Book!PortfolioConstants

-----------------------------------------------------------------------------
Rest == "at rest"

RulesRest == year = Rest /\ built = Rest
CalendarsRest == own = Rest /\ other = Rest
MeterRest == start = Rest /\ end = Rest
LifeRest == bond = Rest /\ dates = Rest /\ current = Rest /\ generated = FALSE
CouponRest == note = Rest /\ observed = Rest
CpiRest == method = Rest
BookRest == positions = Rest
SolverRest ==
  /\ f = [p \in Point |-> 0] /\ solver = "brent" /\ status = "start"
  /\ lo = 0 /\ hi = Size /\ x = 0 /\ iterations = 0

(* Bonds and coupons share "today", coupons and the index "fixings".       *)
PartInit ==
  \/ /\ part = "rules" /\ Rules!Init /\ today = Rest /\ fixings = Rest
     /\ CalendarsRest /\ MeterRest /\ LifeRest /\ CouponRest /\ CpiRest /\ BookRest /\ SolverRest
  \/ /\ part = "calendar" /\ CalendarInit /\ today = Rest /\ fixings = Rest
     /\ RulesRest /\ MeterRest /\ LifeRest /\ CouponRest /\ CpiRest /\ BookRest /\ SolverRest
  \/ /\ part = "meter" /\ MeterInit /\ today = Rest /\ fixings = Rest
     /\ RulesRest /\ CalendarsRest /\ LifeRest /\ CouponRest /\ CpiRest /\ BookRest /\ SolverRest
  \/ /\ part = "bond" /\ LifeInit /\ fixings = Rest
     /\ RulesRest /\ CalendarsRest /\ MeterRest /\ CouponRest /\ CpiRest /\ BookRest /\ SolverRest
  \/ /\ part = "coupon" /\ Coupon!Init
     /\ RulesRest /\ CalendarsRest /\ MeterRest /\ LifeRest /\ CpiRest /\ BookRest /\ SolverRest
  \/ /\ part = "cpi" /\ Cpi!Init /\ today = Rest
     /\ RulesRest /\ CalendarsRest /\ MeterRest /\ LifeRest /\ CouponRest /\ BookRest /\ SolverRest
  \/ /\ part = "book" /\ Book!Init /\ today = Rest /\ fixings = Rest
     /\ RulesRest /\ CalendarsRest /\ MeterRest /\ LifeRest /\ CouponRest /\ CpiRest /\ SolverRest
  \/ /\ part = "solver" /\ Init /\ today = Rest /\ fixings = Rest
     /\ RulesRest /\ CalendarsRest /\ MeterRest /\ LifeRest /\ CouponRest /\ CpiRest /\ BookRest

BondNext ==
  /\ part = "bond" /\ LifeNext
  /\ UNCHANGED <<part, rules, calendars, meter, coupon, fixings, method, positions, solving>>

PartNext ==
  \/ /\ part = "rules" /\ Rules!Next
     /\ UNCHANGED <<part, calendars, meter, schedule, today, coupon, fixings, method, positions, solving>>
  \/ /\ part = "calendar" /\ CalendarNext
     /\ UNCHANGED <<part, rules, meter, schedule, today, coupon, fixings, method, positions, solving>>
  \/ /\ part = "meter" /\ MeterNext
     /\ UNCHANGED <<part, rules, calendars, schedule, today, coupon, fixings, method, positions, solving>>
  \/ BondNext
  \/ /\ part = "coupon" /\ Coupon!Next
     /\ UNCHANGED <<part, rules, calendars, meter, schedule, method, positions, solving>>
  \/ /\ part = "cpi" /\ Cpi!Next
     /\ UNCHANGED <<part, rules, calendars, meter, schedule, today, coupon, positions, solving>>
  \/ /\ part = "book" /\ Book!Next
     /\ UNCHANGED <<part, rules, calendars, meter, schedule, today, coupon, fixings, method, solving>>
  \/ /\ part = "solver" /\ Next
     /\ UNCHANGED <<part, rules, calendars, meter, schedule, today, coupon, fixings, method, positions>>

(* Fairness is BondLife's: the loop of a schedule goes on.                 *)
PartSpec == PartInit /\ [][PartNext]_all /\ WF_all(BondNext /\ ~generated)

-----------------------------------------------------------------------------
(* HolidayRules: no holiday is lost in any year.                           *)
NoHolidayLost == part = "rules" => Rules!NoHolidayLost

(* CalendarEdits: adjusting keeps the order of dates, and so does settling,*)
(* whatever has been made a holiday.                                       *)
BusinessDaysKeepOrder ==
  part = "calendar" => AdjustKeepsOrder /\ LagKeepsOrder

(* AccrualMeter: day counts add up and never run back.                     *)
AccrualsAddUp == part = "meter" => MeterAddsUp

(* CouponSchedule and BondLife: the loop of every schedule ends, and from  *)
(* then on interest accrues from day to day and never runs back.           *)
BondRunsOn == part = "bond" => ScheduleGenerated /\ []AccruedGrows

(* FloatingCoupon: lookback and lockout give their notice, and what is     *)
(* fixed stays.                                                            *)
CouponKnownAhead == part = "coupon" => Coupon!CouponKnownAhead

RateSettles == [][part = "coupon" => Coupon!KeepsFixedRates]_all

(* ReferenceCpi: equal steps from day to day, and what is paid on stays.   *)
CpiHasNoJump == part = "cpi" => Cpi!CpiHasNoJump

CpiStays == [][part = "cpi" => Cpi!KeepsIndex]_all

(* PortfolioTotals: the tables add up to the totals, less what goes by the *)
(* name of none of their bonds.                                            *)
TablesReconcile == part = "book" => Book!TablesReconcile
=============================================================================
