----------------------------- MODULE LunarCalendar -----------------------------
(***************************************************************************)
(* services/vn_lunar.py and services/gio.py: which lunar date a day is,    *)
(* and on which day a death anniversary (gio) falls.  A date is a Julian   *)
(* day number, a lunar date a record.                                      *)
(*                                                                         *)
(* The astronomy (when the k-th new moon is, in which twelfth of its       *)
(* course the Sun stands) is floating point and stays outside: it is given *)
(* by the constants Moons and Sectors for the lunations of a window of     *)
(* years.  All the counting that makes months and leap months of them is   *)
(* here.  The divisions by the mean month are scaled to integers.          *)
(***************************************************************************)
EXTENDS Integers, Sequences

CONSTANTS
  FirstMoon,         \* the lunation number k of Moons[1]
  Moons,             \* get_new_moon_day(k)
  Sectors,           \* get_sun_longitude of that day
  MinYear, MaxYear   \* bound: the years supported (1800 and 2199 in the code)

Floor(a, b) == a \div b

-----------------------------------------------------------------------------
(* Gregorian dates.                                                        *)
JdFromDate(dd, mm, yy) ==
  LET a == Floor(14 - mm, 12)
      y == yy + 4800 - a
      m == mm + 12 * a - 3
  IN dd + Floor(153 * m + 2, 5) + 365 * y
       + Floor(y, 4) - Floor(y, 100) + Floor(y, 400) - 32045

JdToDate(jd) ==
  LET a == jd + 32044
      b == Floor(4 * a + 3, 146097)
      c == a - Floor(b * 146097, 4)
      d == Floor(4 * c + 3, 1461)
      e == c - Floor(1461 * d, 4)
      m == Floor(5 * e + 2, 153)
  IN [day |-> e - Floor(153 * m + 2, 5) + 1,
      month |-> m + 3 - 12 * Floor(m, 10),
      year |-> b * 100 + d - 4800 + Floor(m, 10)]

-----------------------------------------------------------------------------
NewMoonDay(k) == Moons[k - FirstMoon + 1]
Sector(k) == Sectors[k - FirstMoon + 1]
Lunations == FirstMoon..(FirstMoon + Len(Moons) - 1)

(* floor((jd - NEW_MOON_EPOCH) / SYNODIC_MONTH + tenths / 10), counted from *)
(* lunation 1500 to stay within machine integers.                          *)
Lunation(jd, tenths) ==
  1500 + Floor((jd - 2459317) * 100000 + 3972 + tenths * 295306, 2953059)
NearestLunation(jd) == Lunation(jd, 5)

(* Month 11 is the month of the December solstice.                         *)
Month11(yy) ==
  LET k == Floor((JdFromDate(31, 12, yy) - 2415021) * 10000, 295306)
  IN NewMoonDay(IF Sector(k) >= 9 THEN k - 1 ELSE k)

(* The first month after month 11 in whose course the Sun enters no new    *)
(* sector.                                                                 *)
LeapMonthOffset(a11) ==
  LET k == NearestLunation(a11)
      repeats == {i \in 2..14 : i = 14 \/ Sector(k + i) = Sector(k + i - 1)}
  IN (CHOOSE i \in repeats : \A j \in repeats : i <= j) - 1

HasLeap(a11, b11) == b11 - a11 > 365

\* Mutant: months are counted with the length of a long month.
MonthsSince(a11, start) == Floor(start - a11, 30)
MonthsBetween(a11, start) == Floor(start - a11, 29)

\* The month that starts at start, diff months after month 11; leapAt holds
\* the offset of the leap month of this run of months, if it has one.
MonthNumber(diff, leapAt) ==
  LET number == diff + (IF \E off \in leapAt : diff >= off THEN 10 ELSE 11)
  IN IF number > 12 THEN number - 12 ELSE number

LunarDate(jd, start, ly, diff, leapAt) ==
  [day |-> jd - start + 1,
   month |-> MonthNumber(diff, leapAt),
   year |-> ly - (IF MonthNumber(diff, leapAt) >= 11 /\ diff < 4 THEN 1 ELSE 0),
   leap |-> diff \in leapAt]

LeapOffsets(a11, b11) == IF HasLeap(a11, b11) THEN {LeapMonthOffset(a11)} ELSE {}

LunarDateIn(jd, start, ly, a11, b11) ==
  LunarDate(jd, start, ly, MonthsBetween(a11, start), LeapOffsets(a11, b11))

StartedBy(jd, k) == IF NewMoonDay(k + 1) > jd THEN NewMoonDay(k) ELSE NewMoonDay(k + 1)

AroundMonth11(jd, start, yy) ==
  IF Month11(yy) >= start
  THEN LunarDateIn(jd, start, yy, Month11(yy - 1), Month11(yy))
  ELSE LunarDateIn(jd, start, yy + 1, Month11(yy), Month11(yy + 1))

SolarToLunar(jd) == AroundMonth11(jd, StartedBy(jd, Lunation(jd, 0)), JdToDate(jd).year)

(* The month off months after month 11 on a11, not counting a leap month.  *)
(* Callers pass leap only for a month that is intercalary in ly; the code  *)
(* raises ValueError otherwise.                                            *)
StartAfter(a11, b11, off, leap) ==
  LET later == \E at \in LeapOffsets(a11, b11) : leap \/ off >= at
  IN NewMoonDay(NearestLunation(a11) + off + (IF later THEN 1 ELSE 0))

MonthStart(lm, ly, leap) ==
  IF lm < 11 THEN StartAfter(Month11(ly - 1), Month11(ly), lm + 1, leap)
  ELSE StartAfter(Month11(ly), Month11(ly + 1), lm - 11, leap)

LunarToSolar(l) == MonthStart(l.month, l.year, l.leap) + l.day - 1

MonthAfter(start) == NewMoonDay(NearestLunation(start) + 1)
MonthLength(lm, ly, leap) ==
  MonthAfter(MonthStart(lm, ly, leap)) - MonthStart(lm, ly, leap)

-----------------------------------------------------------------------------
(* services/gio.py.                                                        *)
Death(d, m) == [day |-> d, month |-> m]
Supported(ly) == ly \in (MinYear - 1)..MaxYear

\* Mutant: a day-30 gio is looked up as day 30 in every month.
UnadjustedDay(death, ly) == death.day
ObservedDay(death, ly) ==
  IF death.day = 30 /\ MonthLength(death.month, ly, FALSE) = 29 THEN 29 ELSE death.day

(* gio_occurrence: the day, as a set with at most one element (None is the *)
(* empty set); a gio is looked up in the regular month only.               *)
GioOccurrence(death, ly) ==
  IF Supported(ly) /\ death.month \in 1..12 /\ death.day \in 1..30
  THEN {LunarToSolar([day |-> ObservedDay(death, ly), month |-> death.month,
                      year |-> ly, leap |-> FALSE])}
  ELSE {}

SupportedYears(first, last) ==
  (IF first < MinYear - 1 THEN MinYear - 1 ELSE first)..(IF last > MaxYear THEN MaxYear ELSE last)
LunarYearsCovering(start, end) ==
  SupportedYears(SolarToLunar(start).year - 1, SolarToLunar(end).year + 1)

GioOccurrencesInRange(death, start, end) ==
  {d \in UNION {GioOccurrence(death, ly) : ly \in LunarYearsCovering(start, end)} :
     start <= d /\ d <= end}

-----------------------------------------------------------------------------
(* The calendar of a clan, views/gio.py.  A window is a pair of days.      *)
OneYearFrom(start) ==
  LET d == JdToDate(start)
  IN JdFromDate(IF d.month = 2 /\ d.day = 29 THEN 28 ELSE d.day, d.month, d.year + 1)

\* Asked for a year, or for nothing.
Windows(today) ==
  {<<JdFromDate(1, 1, yy), JdFromDate(31, 12, yy)>> : yy \in MinYear..MaxYear}
    \cup {<<today, OneYearFrom(today)>>}

MAX_WINDOW_DAYS == 731
ValidWindow(w) ==
  /\ w[1] <= w[2] /\ w[2] - w[1] <= MAX_WINDOW_DAYS
  /\ MinYear <= JdToDate(w[1]).year /\ JdToDate(w[2]).year <= MaxYear

\* An item, for a gio that falls on the day `lunar` of its month.
Item(p, death, ly, d, lunar) ==
  [person |-> p, lunarYear |-> ly, solar |-> d, adjusted |-> lunar # death.day]

\* deathOf: the lunar death of each person.
ItemsFor(deathOf, w) ==
  UNION {UNION {{Item(p, deathOf[p], ly, d, ObservedDay(deathOf[p], ly)) :
                   d \in GioOccurrence(deathOf[p], ly) \cap w[1]..w[2]} :
                ly \in LunarYearsCovering(w[1], w[2])} :
         p \in DOMAIN deathOf}
-----------------------------------------------------------------------------
(* What the astronomy gives for the lunations of the window.               *)

\* By how much a new moon is later than the mean one, in 1/100000 of a day.
Delay(k) == (NewMoonDay(k) - 2459317) * 100000 + 3972 - (k - 1500) * 2953059

\* The n months from lunation k, month 11 of the year before, up to the next
\* month 11; a 13th month leaves one in which the Sun enters no new sector.
MonthsOfYear(ly, k, n) ==
  /\ {k, k + n} \subseteq Lunations
  /\ Month11(ly - 1) = NewMoonDay(k) /\ Month11(ly) = NewMoonDay(k + n)
  /\ n = 13 => \E i \in 2..13 : Sector(k + i) = Sector(k + i - 1)

ASSUME TablesAssumption ==
  /\ FirstMoon \in Int /\ Moons \in Seq(Int)
  /\ MinYear \in Nat /\ MaxYear \in Nat
ASSUME MoonsAssumption ==
  \A k \in Lunations : k + 1 \in Lunations => NewMoonDay(k + 1) - NewMoonDay(k) \in {29, 30}
ASSUME DelaysAssumption ==
  \A k \in Lunations : -200000 <= Delay(k) /\ Delay(k) <= 200000
ASSUME SolsticesAssumption ==
  \A yy \in (MinYear - 2)..(MaxYear + 1) :
    JdFromDate(20, 11, yy) <= Month11(yy) /\ Month11(yy) <= JdFromDate(31, 12, yy)
ASSUME YearsAssumption ==
  \A ly \in (MinYear - 1)..(MaxYear + 1) :
    \E k \in Lunations, n \in {12, 13} : MonthsOfYear(ly, k, n)

(* No new moon is a day or more late: solar_to_lunar tries the mean        *)
(* lunation of the day and the one after, so it takes the day before such  *)
(* a new moon for day 0 of the next month.  True of every year from 1886   *)
(* to 2053; of the years supported, false for 1877, 1885, 2054 and 2062.   *)
NewMoonsOnTime == \A k \in Lunations : Delay(k) < 100000
=============================================================================
