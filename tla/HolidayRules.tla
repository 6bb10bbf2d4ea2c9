----------------------------- MODULE HolidayRules -----------------------------
(***************************************************************************)
(* The rule-based calendars (_core/calendars.py): for each market the set  *)
(* of holidays of a year, and the calendar that looks a date up in the set *)
(* of its own year.  The years are walked one by one, because what can go  *)
(* wrong is in the pattern of weekdays and years: a holiday observed in    *)
(* another year, a substitute day that is taken already.  The same walk is *)
(* the loop of the calendar builders, which put into one set the dates of  *)
(* every rule in every year of their range.                                *)
(***************************************************************************)
EXTENDS CivilDates, FiniteSets, FiniteSetsExt, SequencesExt

CONSTANTS
  FirstYear, LastYear      \* the years walked; the library supports 1900 .. 2200

HolidayConstants == FirstYear \in 1900 .. 2200 /\ LastYear \in FirstYear .. 2200

VARIABLES
  year,       \* the year at hand
  built       \* the holidays a builder with UsRules has put in so far

-----------------------------------------------------------------------------
(* Days of the year.                                                       *)

(* The anonymous Gregorian algorithm.                                      *)
EasterSunday(y) ==
  LET a == y % 19
      b == y \div 100
      c == y % 100
      g == (b - ((b + 8) \div 25) + 1) \div 3
      h == (19 * a + b - (b \div 4) - g + 15) % 30
      leap_offset == (32 + 2 * (b % 4) + 2 * (c \div 4) - h - (c % 4)) % 7
      m == (a + 11 * h + 22 * leap_offset) \div 451
      n == h + leap_offset - 7 * m + 114
  IN  FromYmd(y, n \div 31, (n % 31) + 1)

LastWeekdayOfMonth(y, month, weekday) ==
  LET last == LastOfMonth(y, month)
  IN  CHOOSE d \in last - 6 .. last : Weekday(d) = weekday

NthWeekdayOfMonth(y, month, weekday, occurrence) ==
  LET first == FromYmd(y, month, 1)
  IN  first + ((weekday - Weekday(first)) % 7) + 7 * (occurrence - 1)

(* Saturday is observed on Friday, Sunday on Monday.                       *)
ObservedDate(date) ==
  CASE Weekday(date) = 5 -> date - 1
    [] Weekday(date) = 6 -> date + 1
    [] OTHER -> date

(* The first weekday after a date that is not taken.                       *)
Substitute(date, taken) ==
  CHOOSE d \in date + 1 .. date + 7 :
    /\ IsWeekday(d) /\ d \notin taken
    /\ \A e \in date + 1 .. d - 1 : ~(IsWeekday(e) /\ e \notin taken)

-----------------------------------------------------------------------------
(* The holidays of a year, market by market.                               *)

(* Mutant: the holidays of a year are its own.                             *)
NoneObservedEarly(y) == {}

(* New Year's Day of the next year, if it is observed in this one.         *)
NewYearObservedIn(y) ==
  {d \in {ObservedDate(FromYmd(y + 1, 1, 1))} : Year(d) = y}

SifmaHolidays(y) ==
  { ObservedDate(FromYmd(y, md[1], md[2])) :
      md \in {<<1, 1>>, <<7, 4>>, <<11, 11>>, <<12, 25>>}
               \cup (IF y >= 2021 THEN {<<6, 19>>} ELSE {}) }
  \cup NewYearObservedIn(y)
  \cup { NthWeekdayOfMonth(y, 1, 0, 3), NthWeekdayOfMonth(y, 2, 0, 3),
         EasterSunday(y) - 2, LastWeekdayOfMonth(y, 5, 0),
         NthWeekdayOfMonth(y, 9, 0, 1), NthWeekdayOfMonth(y, 10, 0, 2),
         NthWeekdayOfMonth(y, 11, 3, 4) }

Target2Holidays(y) ==
  { FromYmd(y, 1, 1), EasterSunday(y) - 2, EasterSunday(y) + 1,
    FromYmd(y, 5, 1), FromYmd(y, 12, 25), FromYmd(y, 12, 26) }

(* Christmas and Boxing Day keep their dates and get substitutes besides.  *)
UkChristmas(y, others) ==
  LET christmas == FromYmd(y, 12, 25)
      boxing    == christmas + 1
      own       == others \cup {christmas, boxing}
      first     == IF IsWeekday(christmas) THEN own
                   ELSE own \cup {Substitute(christmas, own)}
  IN  IF IsWeekday(boxing) THEN first ELSE first \cup {Substitute(boxing, first)}

UkHolidays(y) ==
  LET new_year == FromYmd(y, 1, 1)
  IN  UkChristmas(y,
        { IF IsWeekday(new_year) THEN new_year
          ELSE new_year + 7 - Weekday(new_year),
          EasterSunday(y) - 2, EasterSunday(y) + 1,
          NthWeekdayOfMonth(y, 5, 0, 1), LastWeekdayOfMonth(y, 5, 0),
          LastWeekdayOfMonth(y, 8, 0) })

(* The equinoxes, in millionths of a day.                                  *)
JapanEquinox(y, month, base) ==
  FromYmd(y, month,
          (base + 242194 * (y - 1980) - 1000000 * ((y - 1980) \div 4)) \div 1000000)

JapanStatutory(y) ==
  { FromYmd(y, md[1], md[2]) :
      md \in { <<1, 1>>, <<1, 2>>, <<1, 3>>, <<2, 11>>, <<2, 23>>, <<4, 29>>,
               <<5, 3>>, <<5, 4>>, <<5, 5>>, <<8, 11>>, <<11, 3>>, <<11, 23>> } }
  \cup { NthWeekdayOfMonth(y, 1, 0, 2), NthWeekdayOfMonth(y, 7, 0, 3),
         NthWeekdayOfMonth(y, 9, 0, 3), NthWeekdayOfMonth(y, 10, 0, 2),
         JapanEquinox(y, 3, 20843100), JapanEquinox(y, 9, 23248800) }

(* Every holiday on a Sunday, in order, takes the next free weekday.       *)
JapanHolidays(y) ==
  LET statutory == JapanStatutory(y)
      sundays == SetToSortSeq({d \in statutory : Weekday(d) = 6}, LAMBDA a, b : a < b)
  IN  FoldLeft(LAMBDA taken, d : taken \cup {Substitute(d, taken)}, statutory, sundays)

Market == {"SIFMA", "TARGET2", "UK", "Japan"}

Holidays(market, y) ==
  CASE market = "SIFMA"   -> SifmaHolidays(y)
    [] market = "TARGET2" -> Target2Holidays(y)
    [] market = "UK"      -> UkHolidays(y)
    [] market = "Japan"   -> JapanHolidays(y)

(* is_business_day: a date is looked up in the holidays of its own year.   *)
IsBusinessDay(market, date) ==
  IsWeekday(date) /\ date \notin Holidays(market, Year(date))

(* JointCalendar: open when all its calendars are.                         *)
IsJointBusinessDay(markets, date) ==
  \A market \in markets : IsBusinessDay(market, date)

-----------------------------------------------------------------------------
(* HolidayCalendarBuilder and CustomCalendarBuilder.                       *)

(* add_fixed_holiday, add_fixed_holiday_from, add_nth_weekday_holiday,     *)
(* add_last_weekday_holiday and add_easter_holiday: the day of each year.  *)
RuleDates(rule, y) ==
  CASE rule.kind = "fixed" ->
         LET date == FromYmd(y, rule.month, rule.day)
         IN  IF y < rule.from THEN {}
             ELSE {IF rule.observed THEN ObservedDate(date) ELSE date}
    [] rule.kind = "nth"    -> {NthWeekdayOfMonth(y, rule.month, rule.weekday, rule.occurrence)}
    [] rule.kind = "last"   -> {LastWeekdayOfMonth(y, rule.month, rule.weekday)}
    [] rule.kind = "easter" -> {EasterSunday(y) + rule.offset}

(* The rules of _sifma_holidays_for_year, as a caller of the builder gives *)
(* them.                                                                   *)
UsRules ==
  { [kind |-> "fixed", month |-> m[1], day |-> m[2], from |-> m[3], observed |-> TRUE] :
      m \in {<<1, 1, 1900>>, <<6, 19, 2021>>, <<7, 4, 1900>>, <<11, 11, 1900>>, <<12, 25, 1900>>} }
  \cup { [kind |-> "nth", month |-> m[1], weekday |-> m[2], occurrence |-> m[3]] :
           m \in {<<1, 0, 3>>, <<2, 0, 3>>, <<9, 0, 1>>, <<10, 0, 2>>, <<11, 3, 4>>} }
  \cup { [kind |-> "last", month |-> 5, weekday |-> 0], [kind |-> "easter", offset |-> -2] }

(* build, one year of the range.                                           *)
WithYear(holidays, y) == holidays \cup UNION {RuleDates(rule, y) : rule \in UsRules}

-----------------------------------------------------------------------------
Init == year = FirstYear /\ built = WithYear({}, FirstYear)

BuildNextYear ==
  /\ year < LastYear
  /\ year' = year + 1
  /\ built' = WithYear(built, year')

Next == BuildNextYear

-----------------------------------------------------------------------------
(* The church's definition, by another computation: the Sunday after the   *)
(* full moon that the golden number and the epact give.                    *)
PaschalSunday(y) ==
  LET century == (y \div 100) + 1
      golden  == (y % 19) + 1
      epact0  == (11 * golden + 20 + ((8 * century + 5) \div 25) - 5
                    - ((3 * century) \div 4 - 12)) % 30
      epact   == IF (epact0 = 25 /\ golden > 11) \/ epact0 = 24 THEN epact0 + 1 ELSE epact0
      moon    == IF epact <= 23 THEN 44 - epact ELSE 74 - epact
      full    == FromYmd(y, 3, 1) + moon - 1
  IN  CHOOSE d \in full + 1 .. full + 7 : Weekday(d) = 6

Weekdays(dates) == {d \in dates : IsWeekday(d)}

InYear(dates, y) == {d \in dates : Year(d) = y}

(* Calendar functions are right in every year: easter_sunday is the Sunday *)
(* the church computes, and no holiday is lost to a weekend, to another    *)
(* holiday or to the turn of the year: the UK calendar closes on eight     *)
(* weekdays, the Japanese one on a weekday for each holiday that is not on *)
(* a Saturday, and the US one on every date at which a holiday of this     *)
(* year or the next is observed.  A built calendar closes on the weekdays  *)
(* of the past year that the US one closes on: New Year's Day, if observed *)
(* in the year before, is there once its own year has been built.          *)
NoHolidayLost ==
  /\ EasterSunday(year) = PaschalSunday(year)
  /\ Cardinality(Weekdays(UkHolidays(year))) = 8
  /\ Cardinality(Weekdays(JapanHolidays(year)))
       = Cardinality({d \in JapanStatutory(year) : Weekday(d) # 5})
  /\ \A y \in {year, year + 1} : \A d \in SifmaHolidays(y) :
       ~IsBusinessDay("SIFMA", d)
  /\ \A d \in UNION {Holidays(market, year) : market \in Market} :
       ~IsJointBusinessDay(Market, d)
  /\ year > FirstYear =>
       InYear(built, year - 1) = InYear(SifmaHolidays(year - 1), year - 1)
=============================================================================
