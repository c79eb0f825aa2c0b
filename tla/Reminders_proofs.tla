---------------------------- MODULE Reminders_proofs ----------------------------
(***************************************************************************)
(* What the reminder jobs guarantee for any number of users, devices,      *)
(* persons, appointments, runs and days.                                   *)
(*                                                                         *)
(* Nobody is reminded twice.  The log is read only when a run starts, so   *)
(* the argument follows each key from then on: unless it is excused, one   *)
(* run at a time holds it (HeldOnce); while it is on the list no device    *)
(* has taken it, and while it is being sent exactly that send may have     *)
(* been taken (Counted); and once taken it is logged, or about to be, or   *)
(* its appointment has gone with the log and no new one has its id         *)
(* (Remembered).                                                           *)
(*                                                                         *)
(* And a push reaches whom it is meant for.  A list is right when it is    *)
(* collected (the walk of a clan finds the ancestors, and no others); from *)
(* then on only Touch can make it wrong, which every request that changes  *)
(* an audience calls with the users it affects (ListsStill).               *)
(*                                                                         *)
(* The calendar comes first.  Every day is in one month of the run of 12   *)
(* or 13 from a month 11 to the next (InMonth); the code finds that month  *)
(* from the day by counting mean months and from its name by counting      *)
(* months after month 11, and both counts meet at the same new moon if     *)
(* none comes too late (DateOf, MonthAt).                                  *)
(***************************************************************************)
EXTENDS Reminders, Genealogy_proofs

-----------------------------------------------------------------------------
(* The days of the years.                                                  *)

LastDay(yy) == JdFromDate(31, 12, yy)

LEMMA LastDayIs ==
  ASSUME NEW yy \in Int
  PROVE  LastDay(yy) = 306 + 365 * (yy + 4800) + ((yy + 4800) \div 4) - ((yy + 4800) \div 100)
                           + ((yy + 4800) \div 400) - 32045
BY SMT DEF LastDay, JdFromDate, Floor

LEMMA LastDaysGrow ==
  ASSUME NEW yy \in Int, NEW zz \in Int, yy <= zz
  PROVE  LastDay(yy) <= LastDay(zz)
<1>1. PICK y \in Int, z \in Int : y = yy + 4800 /\ z = zz + 4800
  OBVIOUS
<1>2. LastDay(yy) = 306 + 365 * y + (y \div 4) - (y \div 100) + (y \div 400) - 32045
  BY <1>1, LastDayIs, SMT
<1>3. LastDay(zz) = 306 + 365 * z + (z \div 4) - (z \div 100) + (z \div 400) - 32045
  BY <1>1, LastDayIs, SMT
<1>4. 365 * y + (y \div 4) - (y \div 100) + (y \div 400) <= 365 * z + (z \div 4) - (z \div 100) + (z \div 400)
  BY <1>1, SMTT(60)
<1>5. PICK a \in Int : a = 365 * y + (y \div 4) - (y \div 100) + (y \div 400)
  BY <1>1, SMT
<1>6. PICK b \in Int : b = 365 * z + (z \div 4) - (z \div 100) + (z \div 400)
  BY <1>1, SMT
<1>7. LastDay(yy) = 306 + a - 32045 /\ LastDay(zz) = 306 + b - 32045 /\ a <= b
  BY <1>1, <1>2, <1>3, <1>4, <1>5, <1>6, SMT
<1> QED
  BY <1>7, SMT

LEMMA LastDayInt ==
  ASSUME NEW yy \in Int
  PROVE  LastDay(yy) \in Int
BY LastDayIs, SMT

LEMMA LastDays ==
  ASSUME NEW yy \in Int, -10 <= yy
  PROVE  /\ LastDay(yy) \in Nat
         /\ LastDay(yy + 1) - LastDay(yy) \in {365, 366}
         /\ JdFromDate(1, 1, yy + 1) = LastDay(yy) + 1
         /\ JdFromDate(20, 11, yy) = LastDay(yy) - 41
<1>1. PICK y : y = yy + 4800
  OBVIOUS
<1>2. LastDay(yy) = 306 + 365 * y + (y \div 4) - (y \div 100) + (y \div 400) - 32045
  BY <1>1, LastDayIs
<1>3. LastDay(yy + 1) = 306 + 365 * (y + 1) + ((y + 1) \div 4) - ((y + 1) \div 100) + ((y + 1) \div 400) - 32045
  BY <1>1, SMT DEF LastDay, JdFromDate, Floor
<1>4. JdFromDate(1, 1, yy + 1) = 307 + 365 * y + (y \div 4) - (y \div 100) + (y \div 400) - 32045
  BY <1>1, SMT DEF JdFromDate, Floor
<1>5. JdFromDate(20, 11, yy) = 265 + 365 * y + (y \div 4) - (y \div 100) + (y \div 400) - 32045
  BY <1>1, SMT DEF JdFromDate, Floor
<1> QED
  BY <1>1, <1>2, <1>3, <1>4, <1>5, SMTT(30)

LEMMA YearLength ==
  ASSUME NEW yy \in Int
  PROVE  LastDay(yy + 1) - LastDay(yy) \in {365, 366}
<1>1. PICK y \in Int : y = yy + 4800
  OBVIOUS
<1>2. LastDay(yy) = 306 + 365 * y + (y \div 4) - (y \div 100) + (y \div 400) - 32045
  BY <1>1, LastDayIs
<1>3. LastDay(yy + 1) = 306 + 365 * (y + 1) + ((y + 1) \div 4) - ((y + 1) \div 100) + ((y + 1) \div 400) - 32045
  BY <1>1, SMT DEF LastDay, JdFromDate, Floor
<1>4. PICK q \in Int, r \in 0..399 : y = 400 * q + r
  <2>1. y = 400 * (y \div 400) + (y % 400) /\ y \div 400 \in Int /\ y % 400 \in 0..399
    BY <1>1, SMT
  <2> QED
    BY <2>1
<1>5. /\ y \div 4 = 100 * q + (r \div 4) /\ y \div 100 = 4 * q + (r \div 100) /\ y \div 400 = q
      /\ (y + 1) \div 4 = 100 * q + ((r + 1) \div 4)
      /\ (y + 1) \div 100 = 4 * q + ((r + 1) \div 100) /\ (y + 1) \div 400 = q + ((r + 1) \div 400)
  BY <1>4, SMT
<1>6. ((r + 1) \div 4) - (r \div 4) - ((r + 1) \div 100) + (r \div 100) + ((r + 1) \div 400) \in {0, 1}
  BY <1>4, SMT
<1> QED
  BY <1>2, <1>3, <1>4, <1>5, <1>6, SMT

LEMMA YearOfDay ==
  ASSUME NEW jd \in Nat
  PROVE  /\ JdToDate(jd).year \in Int
         /\ jd <= LastDay(JdToDate(jd).year)
         /\ LastDay(JdToDate(jd).year - 1) < jd
<1>1. PICK b \in Nat : b = (4 * (jd + 32044) + 3) \div 146097
  BY SMT
<1>2. PICK c \in Int : c = (jd + 32044) - ((b * 146097) \div 4)
  BY SMT
<1>3. 0 <= c /\ c <= 36524
  BY <1>1, <1>2, SMT
<1>4. PICK d \in Int : d = (4 * c + 3) \div 1461
  BY SMT
<1>5. PICK e \in Int : e = c - ((1461 * d) \div 4)
  BY SMT
<1>6. 0 <= d /\ d <= 99 /\ 0 <= e /\ e <= 365
  BY <1>3, <1>4, <1>5, SMT
<1>7. PICK m \in Int : m = (5 * e + 2) \div 153
  BY SMT
<1>8. (e <= 305 => m \div 10 = 0) /\ (306 <= e => m \div 10 = 1)
  BY <1>6, <1>7, SMT
<1>9. JdToDate(jd).year = b * 100 + d - 4800 + (m \div 10)
  BY <1>1, <1>2, <1>4, <1>5, <1>7 DEF JdToDate, Floor
<1>10. PICK y \in Int : y = b * 100 + d - 4800
  BY <1>6, SMT
<1>11. /\ (y + 4800) \div 4 = 25 * b + (d \div 4)
       /\ (y + 4800) \div 100 = b
       /\ (y + 4800) \div 400 = b \div 4
  BY <1>6, <1>10, SMT
<1>12. /\ (1461 * d) \div 4 = 365 * d + (d \div 4)
       /\ (b * 146097) \div 4 = 36524 * b + (b \div 4)
  BY <1>6, SMT
<1>13. LastDay(y) = 306 + 365 * (y + 4800) + ((y + 4800) \div 4) - ((y + 4800) \div 100)
                     + ((y + 4800) \div 400) - 32045
  BY LastDayIs
<1>14. LastDay(y) = jd - e + 305
  BY <1>2, <1>5, <1>6, <1>10, <1>11, <1>12, <1>13, SMT
<1>15. LastDay((y - 1) + 1) - LastDay(y - 1) \in {365, 366} /\ LastDay(y + 1) - LastDay(y) \in {365, 366}
  <2>1. y - 1 \in Int
    BY <1>10
  <2> QED
    BY <1>10, <2>1, YearLength
<1>16. LastDay(y - 1) \in Int /\ LastDay(y + 1) \in Int /\ (y - 1) + 1 = y /\ (y + 1) - 1 = y
  BY <1>10, LastDayInt, SMT
<1>17. CASE e <= 305
  <2>1. JdToDate(jd).year = y
    BY <1>8, <1>9, <1>10, <1>17, <1>6, SMT
  <2> QED
    BY <1>6, <1>10, <1>14, <1>15, <1>16, <1>17, <2>1, SMT
<1>18. CASE 306 <= e
  <2>1. JdToDate(jd).year = y + 1
    BY <1>8, <1>9, <1>10, <1>18, <1>6, SMT
  <2> QED
    BY <1>6, <1>10, <1>14, <1>15, <1>16, <1>18, <2>1, SMT
<1> QED
  BY <1>6, <1>17, <1>18, SMT

LEMMA YearFrom ==
  ASSUME NEW jd \in Nat, NEW yy \in Int, LastDay(yy - 1) < jd
  PROVE  yy <= JdToDate(jd).year
<1>1. PICK y \in Int : y = JdToDate(jd).year /\ jd <= LastDay(y)
  BY YearOfDay
<1>2. LastDay(y) \in Int /\ LastDay(yy - 1) \in Int
  BY LastDayInt
<1>3. ASSUME y <= yy - 1 PROVE FALSE
  <2>1. LastDay(y) <= LastDay(yy - 1)
    BY <1>3, LastDaysGrow
  <2> QED
    BY <1>1, <1>2, <2>1
<1> QED
  BY <1>1, <1>3

LEMMA YearUpTo ==
  ASSUME NEW jd \in Nat, NEW yy \in Int, jd <= LastDay(yy)
  PROVE  JdToDate(jd).year <= yy
<1>1. PICK y \in Int : y = JdToDate(jd).year /\ LastDay(y - 1) < jd
  BY YearOfDay
<1>2. LastDay(yy) \in Int /\ LastDay(y - 1) \in Int
  BY LastDayInt
<1>3. ASSUME yy <= y - 1 PROVE FALSE
  <2>1. LastDay(yy) <= LastDay(y - 1)
    BY <1>3, LastDaysGrow
  <2> QED
    BY <1>1, <1>2, <2>1
<1> QED
  BY <1>1, <1>3

-----------------------------------------------------------------------------
(* The new moons.                                                          *)

LEMMA MoonDays ==
  ASSUME NEW k \in Lunations
  PROVE  k \in Int /\ NewMoonDay(k) \in Int
BY TablesAssumption, SMT DEF Lunations, NewMoonDay

LEMMA ShortGap ==
  ASSUME NEW k \in Lunations, k + 1 \in Lunations
  PROVE  NewMoonDay(k + 1) - NewMoonDay(k) \in {29, 30}
BY MoonsAssumption

LEMMA Nearest ==
  ASSUME NEW k \in Lunations
  PROVE  NearestLunation(NewMoonDay(k)) = k
<1>1. PICK moon \in Int : moon = NewMoonDay(k)
  BY MoonDays
<1>2. /\ k \in Int
      /\ -200000 <= (moon - 2459317) * 100000 + 3972 - (k - 1500) * 2953059
      /\ (moon - 2459317) * 100000 + 3972 - (k - 1500) * 2953059 <= 200000
  BY <1>1, MoonDays, DelaysAssumption, SMT DEF Delay
<1>3. 1500 + ((moon - 2459317) * 100000 + 3972 + 5 * 295306) \div 2953059 = k
  BY <1>2, SMTT(30)
<1> QED
  BY <1>1, <1>3, SMT DEF NearestLunation, Lunation, Floor

LEMMA LunationOf ==
  ASSUME NewMoonsOnTime, NEW k \in Lunations, k + 1 \in Lunations, NEW jd \in Int,
         NewMoonDay(k) <= jd, jd < NewMoonDay(k + 1)
  PROVE  Lunation(jd, 0) \in {k - 1, k}
<1>1. PICK moon \in Int, next \in Int : moon = NewMoonDay(k) /\ next = NewMoonDay(k + 1)
  BY MoonDays
<1>2. /\ k \in Int
      /\ -200000 <= (moon - 2459317) * 100000 + 3972 - (k - 1500) * 2953059
      /\ (moon - 2459317) * 100000 + 3972 - (k - 1500) * 2953059 <= 200000
  BY <1>1, MoonDays, DelaysAssumption, SMT DEF Delay
<1>3. (next - 2459317) * 100000 + 3972 - ((k + 1) - 1500) * 2953059 < 100000
  BY <1>1, SMT DEF NewMoonsOnTime, Delay
<1>4. moon <= jd /\ jd < next
  BY <1>1
<1>5. 1500 + ((jd - 2459317) * 100000 + 3972 + 0 * 295306) \div 2953059 \in {k - 1, k}
  BY <1>2, <1>3, <1>4, SMTT(30)
<1> QED
  BY <1>5, SMT DEF Lunation, Floor

LEMMA StartedByMoon ==
  ASSUME NewMoonsOnTime, NEW k \in Lunations, k + 1 \in Lunations, NEW jd \in Int,
         NewMoonDay(k) <= jd, jd < NewMoonDay(k + 1)
  PROVE  StartedBy(jd, Lunation(jd, 0)) = NewMoonDay(k)
<1>1. PICK l : l = Lunation(jd, 0)
  OBVIOUS
<1>2. l \in {k - 1, k} /\ k \in Int
  BY <1>1, LunationOf, MoonDays
<1>3. CASE l = k
  BY <1>1, <1>3, <1>2, MoonDays, SMT DEF StartedBy
<1>4. CASE l = k - 1
  <2>1. l + 1 = k /\ ~(NewMoonDay(k) > jd)
    BY <1>2, <1>4, MoonDays
  <2> QED
    BY <1>1, <2>1 DEF StartedBy
<1> QED
  BY <1>2, <1>3, <1>4

(* Why the theorems about dates ask for NewMoonsOnTime: before a new moon  *)
(* that is a day late, solar_to_lunar returns day 0 of the month that is   *)
(* about to begin (7 May 2054, between days 29 and 1).                     *)
THEOREM LateMoonIsDayZero ==
  ASSUME NEW k \in Lunations, k + 1 \in Lunations, Delay(k) >= 100000
  PROVE  SolarToLunar(NewMoonDay(k) - 1).day = 0
<1>1. PICK moon \in Int, eve \in Int : moon = NewMoonDay(k) /\ eve = moon - 1
  BY MoonDays
<1>2. /\ k \in Int
      /\ 100000 <= (moon - 2459317) * 100000 + 3972 - (k - 1500) * 2953059
      /\ (moon - 2459317) * 100000 + 3972 - (k - 1500) * 2953059 <= 200000
  BY <1>1, MoonDays, DelaysAssumption, SMT DEF Delay
<1>3. 1500 + ((eve - 2459317) * 100000 + 3972 + 0 * 295306) \div 2953059 = k
  BY <1>1, <1>2, SMTT(30)
<1>4. Lunation(eve, 0) = k
  BY <1>3, SMT DEF Lunation, Floor
<1>5. NewMoonDay(k + 1) > eve
  BY <1>1, ShortGap, MoonDays, SMT
<1>6. StartedBy(eve, Lunation(eve, 0)) = moon
  BY <1>1, <1>4, <1>5 DEF StartedBy
<1>7. \A yy, start, ly, a11, b11 : start = moon => LunarDateIn(eve, start, ly, a11, b11).day = eve - moon + 1
  BY DEF LunarDateIn, LunarDate
<1>8. SolarToLunar(eve).day = eve - moon + 1
  BY <1>6, <1>7 DEF SolarToLunar, AroundMonth11
<1> QED
  BY <1>1, <1>8, SMT

LEMMA LongGap ==
  ASSUME NEW k \in Lunations
  PROVE  \A n \in Nat : k + n \in Lunations =>
           /\ 29 * n <= NewMoonDay(k + n) - NewMoonDay(k)
           /\ NewMoonDay(k + n) - NewMoonDay(k) <= 30 * n
<1> DEFINE Wrong == {n \in Nat : /\ k + n \in Lunations
                                 /\ \/ NewMoonDay(k + n) - NewMoonDay(k) < 29 * n
                                    \/ 30 * n < NewMoonDay(k + n) - NewMoonDay(k)}
<1>1. ASSUME Wrong # {} PROVE FALSE
  <2>1. PICK n \in Wrong : \A m \in Wrong : n <= m
    BY <1>1, LeastNat
  <2>2. n \in Nat /\ k \in Int /\ NewMoonDay(k) \in Int /\ k + n \in Lunations
    BY <2>1, MoonDays
  <2>3. n # 0
    <3>1. ASSUME n = 0 PROVE FALSE
      <4>1. k + n = k
        BY <2>2, <3>1
      <4> QED
        BY <2>1, <2>2, <3>1, <4>1
    <3> QED
      BY <3>1
  <2>4. PICK m : m = n - 1 /\ m \in Nat /\ m \notin Wrong /\ (k + m) + 1 = k + n
    BY <2>1, <2>2, <2>3
  <2>5. k + m \in Lunations
    BY <2>2, <2>4, TablesAssumption DEF Lunations
  <2>6. NewMoonDay(k + n) - NewMoonDay(k + m) \in {29, 30}
    BY <2>2, <2>4, <2>5, ShortGap
  <2>7. /\ 29 * m <= NewMoonDay(k + m) - NewMoonDay(k)
        /\ NewMoonDay(k + m) - NewMoonDay(k) <= 30 * m
    BY <2>2, <2>4, <2>5, MoonDays
  <2>8. PICK a \in Int, b \in Int, c \in Int :
          a = NewMoonDay(k) /\ b = NewMoonDay(k + m) /\ c = NewMoonDay(k + n)
    BY <2>2, <2>5, MoonDays
  <2>9. 29 * n <= c - a /\ c - a <= 30 * n
    BY <2>2, <2>4, <2>6, <2>7, <2>8
  <2> QED
    BY <2>1, <2>2, <2>8, <2>9
<1> QED
  <2>1. Wrong = {}
    BY <1>1
  <2>2. ASSUME NEW n \in Nat, k + n \in Lunations
        PROVE  /\ 29 * n <= NewMoonDay(k + n) - NewMoonDay(k)
               /\ NewMoonDay(k + n) - NewMoonDay(k) <= 30 * n
    <3>1. n \notin Wrong
      BY <2>1
    <3> QED
      BY <2>2, <3>1, MoonDays
  <2> QED
    BY <2>2

-----------------------------------------------------------------------------
(* The months of a lunar year.                                             *)

\* The offset of the leap month, if there is one.
IsLeapOffset(n, at) == IF n = 12 THEN at = {} ELSE \E off \in 1..12 : at = {off}

LEMMA MoonsOfYear ==
  ASSUME NEW k \in Lunations, NEW n \in {12, 13}, k + n \in Lunations
  PROVE  \A j \in 0..n : k + j \in Lunations
BY TablesAssumption, SMT DEF Lunations

LEMMA CountMonths ==
  ASSUME NEW k \in Lunations, NEW n \in {12, 13}, k + n \in Lunations, NEW j \in 0..n
  PROVE  MonthsBetween(NewMoonDay(k), NewMoonDay(k + j)) = j
<1>1. k + j \in Lunations
  BY MoonsOfYear
<1>2. j \in Nat /\ j <= 13
  OBVIOUS
<1>3. PICK gap \in Int : gap = NewMoonDay(k + j) - NewMoonDay(k)
  BY <1>1, MoonDays
<1>4. 29 * j <= gap /\ gap <= 30 * j
  BY <1>1, <1>2, <1>3, LongGap
<1>5. gap \div 29 = j
  BY <1>2, <1>4, SMT
<1> QED
  BY <1>3, <1>5 DEF MonthsBetween, Floor

LEMMA LeapOffsetIs ==
  ASSUME NEW k \in Lunations, NEW i \in 2..13, Sector(k + i) = Sector(k + i - 1)
  PROVE  LeapMonthOffset(NewMoonDay(k)) \in 1..12
<1> DEFINE repeats == {m \in 2..14 : m = 14 \/ Sector(k + m) = Sector(k + m - 1)}
           first == CHOOSE m \in repeats : \A o \in repeats : m <= o
<1>1. LeapMonthOffset(NewMoonDay(k)) = first - 1
  BY Nearest DEF LeapMonthOffset
<1>2. repeats \subseteq Nat /\ i \in repeats
  OBVIOUS
<1>3. \E m \in repeats : \A o \in repeats : m <= o
  BY <1>2, LeastNat
<1>4. first \in repeats /\ \A o \in repeats : first <= o
  BY <1>3
<1>5. first \in 2..14 /\ first <= i
  BY <1>2, <1>4
<1> QED
  BY <1>1, <1>5

LEMMA LeapOffsetsOf ==
  ASSUME NEW ly, NEW k \in Lunations, NEW n \in {12, 13}, MonthsOfYear(ly, k, n)
  PROVE  IsLeapOffset(n, LeapOffsets(Month11(ly - 1), Month11(ly)))
<1>1. /\ k + n \in Lunations
      /\ Month11(ly - 1) = NewMoonDay(k) /\ Month11(ly) = NewMoonDay(k + n)
  BY DEF MonthsOfYear
<1>2. PICK a \in Int, b \in Int : a = NewMoonDay(k) /\ b = NewMoonDay(k + n)
  BY <1>1, MoonDays
<1>3. 29 * n <= b - a /\ b - a <= 30 * n
  BY <1>1, <1>2, LongGap
<1>4. CASE n = 12
  <2>1. ~HasLeap(a, b)
    BY <1>2, <1>3, <1>4 DEF HasLeap
  <2> QED
    BY <1>1, <1>2, <1>4, <2>1 DEF LeapOffsets, IsLeapOffset
<1>5. CASE n = 13
  <2>1. HasLeap(a, b)
    BY <1>2, <1>3, <1>5 DEF HasLeap
  <2>2. LeapMonthOffset(a) \in 1..12
    BY <1>2, <1>5, LeapOffsetIs DEF MonthsOfYear
  <2> QED
    BY <1>1, <1>2, <1>5, <2>1, <2>2 DEF LeapOffsets, IsLeapOffset
<1> QED
  BY <1>4, <1>5

\* A month by its place in the year: what it is called, and back.
LEMMA NamesOfMonths ==
  ASSUME NEW n \in {12, 13}, NEW at, IsLeapOffset(n, at), NEW j \in 0..(n - 1),
         NEW m, m = MonthNumber(j, at)
  PROVE  /\ m \in 1..12
         /\ m >= 11 => j < 4 /\ m - 11 + (IF \E o \in at : j \in at \/ m - 11 >= o THEN 1 ELSE 0) = j
         /\ m < 11 => m + 1 + (IF \E o \in at : j \in at \/ m + 1 >= o THEN 1 ELSE 0) = j
<1>1. CASE n = 12
  <2>1. at = {}
    BY <1>1 DEF IsLeapOffset
  <2> QED
    BY <1>1, <2>1 DEF MonthNumber
<1>2. CASE n = 13
  <2>1. PICK off \in 1..12 : at = {off}
    BY <1>2 DEF IsLeapOffset
  <2>2. m = (IF j + (IF j >= off THEN 10 ELSE 11) > 12 THEN j + (IF j >= off THEN 10 ELSE 11) - 12
             ELSE j + (IF j >= off THEN 10 ELSE 11))
    BY <2>1 DEF MonthNumber
  <2>3. (j \in at <=> j = off) /\ \A x : (\E o \in at : j \in at \/ x >= o) <=> (j = off \/ x >= off)
    BY <2>1
  <2> QED
    BY <1>2, <2>2, <2>3
<1> QED
  BY <1>1, <1>2

LEMMA PlacesOfMonths ==
  ASSUME NEW n \in {12, 13}, NEW at, IsLeapOffset(n, at), NEW m \in 1..12
  PROVE  \E off \in 0..11, j \in 0..(n - 1) :
           /\ off = IF m < 11 THEN m + 1 ELSE m - 11
           /\ j = off + (IF \E o \in at : off >= o THEN 1 ELSE 0)
           /\ j \notin at /\ MonthNumber(j, at) = m
           /\ m >= 11 <=> MonthNumber(j, at) >= 11 /\ j < 4
<1>1. PICK off \in 0..11 : off = IF m < 11 THEN m + 1 ELSE m - 11
  OBVIOUS
<1>2. PICK j : j = off + (IF \E o \in at : off >= o THEN 1 ELSE 0)
  OBVIOUS
<1>3. CASE n = 12
  <2>1. at = {}
    BY <1>3 DEF IsLeapOffset
  <2> QED
    BY <1>1, <1>2, <1>3, <2>1 DEF MonthNumber
<1>4. CASE n = 13
  <2>1. PICK o \in 1..12 : at = {o}
    BY <1>4 DEF IsLeapOffset
  <2>2. j = off + (IF off >= o THEN 1 ELSE 0)
    BY <1>2, <2>1
  <2>3. MonthNumber(j, at) = (IF j + (IF j >= o THEN 10 ELSE 11) > 12 THEN j + (IF j >= o THEN 10 ELSE 11) - 12
                             ELSE j + (IF j >= o THEN 10 ELSE 11))
    <3>1. j \in 0..12
      BY <1>1, <2>2
    <3> QED
      BY <2>1, <3>1 DEF MonthNumber
  <2>4. j \in 0..12 /\ j # o /\ MonthNumber(j, at) = m /\ (m >= 11 => j < 4)
    BY <1>1, <2>2, <2>3
  <2> QED
    BY <1>1, <1>2, <1>4, <2>1, <2>4
<1> QED
  BY <1>3, <1>4

LEMMA YearEnds ==
  ASSUME NEW ly \in (MinYear - 1)..(MaxYear + 1), NEW k \in Lunations, NEW n \in {12, 13},
         MonthsOfYear(ly, k, n)
  PROVE  /\ ly \in Int /\ -2 <= ly - 1
         /\ Month11(ly - 1) \in Int /\ Month11(ly) \in Int
         /\ LastDay(ly - 1) - 41 <= Month11(ly - 1) /\ Month11(ly - 1) <= LastDay(ly - 1)
         /\ LastDay(ly) - 41 <= Month11(ly) /\ Month11(ly) <= LastDay(ly)
<1>1. ly \in Int /\ -2 <= ly - 1 /\ ly - 1 \in (MinYear - 2)..(MaxYear + 1) /\ ly \in (MinYear - 2)..(MaxYear + 1)
  BY TablesAssumption
<1>2. Month11(ly - 1) \in Int /\ Month11(ly) \in Int
  BY MoonDays DEF MonthsOfYear
<1>3. JdFromDate(20, 11, ly - 1) <= Month11(ly - 1) /\ Month11(ly - 1) <= LastDay(ly - 1)
  BY <1>1, SolsticesAssumption DEF LastDay
<1>4. JdFromDate(20, 11, ly) <= Month11(ly) /\ Month11(ly) <= LastDay(ly)
  BY <1>1, SolsticesAssumption DEF LastDay
<1>5. JdFromDate(20, 11, ly - 1) = LastDay(ly - 1) - 41
  <2>1. ly - 1 \in Int /\ -10 <= ly - 1
    BY <1>1
  <2> QED
    BY <2>1, LastDays
<1>6. JdFromDate(20, 11, ly) = LastDay(ly) - 41
  <2>1. ly \in Int /\ -10 <= ly
    BY <1>1
  <2> QED
    BY <2>1, LastDays
<1> QED
  BY <1>1, <1>2, <1>3, <1>4, <1>5, <1>6

LEMMA MonthOfDay ==
  ASSUME NEW k \in Lunations, NEW n \in {12, 13}, k + n \in Lunations, NEW jd \in Int,
         NewMoonDay(k) <= jd, jd < NewMoonDay(k + n)
  PROVE  \E j \in 0..(n - 1) : NewMoonDay(k + j) <= jd /\ jd < NewMoonDay(k + j + 1)
<1> DEFINE Later == {i \in 0..n : jd < NewMoonDay(k + i)}
<1>1. Later \subseteq Nat /\ n \in Later
  OBVIOUS
<1>2. PICK i \in Later : \A x \in Later : i <= x
  BY <1>1, LeastNat
<1>3. i \in 0..n /\ jd < NewMoonDay(k + i) /\ k \in Int
  BY <1>2, MoonDays
<1>4. i # 0
  <2>1. ASSUME i = 0 PROVE FALSE
    <3>1. k + i = k /\ NewMoonDay(k) \in Int
      BY <1>3, <2>1, MoonDays
    <3> QED
      BY <1>3, <3>1
  <2> QED
    BY <2>1
<1>5. PICK j : j = i - 1 /\ j \in 0..(n - 1) /\ j \in 0..n /\ k + j + 1 = k + i /\ ~(i <= j)
  BY <1>3, <1>4
<1>6. j \notin Later /\ k + j \in Lunations
  BY <1>2, <1>5, MoonsOfYear
<1>7. NewMoonDay(k + j) <= jd
  BY <1>5, <1>6, MoonDays
<1> QED
  BY <1>3, <1>5, <1>7

LEMMA DateOf ==
  ASSUME NewMoonsOnTime, NEW ly \in MinYear..(MaxYear + 1), NEW k \in Lunations, NEW n \in {12, 13},
         MonthsOfYear(ly, k, n), NEW at, at = LeapOffsets(Month11(ly - 1), Month11(ly)),
         NEW j \in 0..(n - 1), NEW jd \in Int, NewMoonDay(k + j) <= jd, jd < NewMoonDay(k + j + 1)
  PROVE  SolarToLunar(jd) = LunarDate(jd, NewMoonDay(k + j), ly, j, at)
<1>1. PICK start : start = NewMoonDay(k + j)
  OBVIOUS
<1>2. k + n \in Lunations /\ Month11(ly - 1) = NewMoonDay(k) /\ Month11(ly) = NewMoonDay(k + n)
  BY DEF MonthsOfYear
<1>3. /\ k + j \in Lunations /\ k + (j + 1) \in Lunations /\ k \in Int /\ j \in Nat
      /\ k + j + 1 = k + (j + 1)
  BY <1>2, MoonsOfYear, MoonDays
<1>4. StartedBy(jd, Lunation(jd, 0)) = start
  BY <1>1, <1>3, StartedByMoon
<1>5. /\ ly \in (MinYear - 1)..(MaxYear + 1) /\ MinYear \in Nat /\ MaxYear \in Nat
      /\ ly \in Int /\ -2 <= ly - 2
  BY TablesAssumption
<1>6. /\ start \in Int /\ Month11(ly - 1) \in Int /\ Month11(ly) \in Int
      /\ Month11(ly - 1) + 29 * j <= start /\ jd < Month11(ly) /\ start <= jd
  <2>1. PICK a \in Int, b \in Int, c \in Int, d \in Int :
          a = NewMoonDay(k) /\ b = NewMoonDay(k + j) /\ c = NewMoonDay(k + (j + 1)) /\ d = NewMoonDay(k + n)
    BY <1>2, <1>3, MoonDays
  <2>2. 29 * j <= b - a
    BY <1>3, <2>1, LongGap
  <2>3. c <= d
    <3>1. PICK m \in Nat : m = n - (j + 1) /\ (k + (j + 1)) + m = k + n
      BY <1>3
    <3>2. 29 * m <= NewMoonDay((k + (j + 1)) + m) - NewMoonDay(k + (j + 1))
      BY <1>2, <1>3, <3>1, LongGap
    <3> QED
      BY <2>1, <3>1, <3>2
  <2> QED
    BY <1>1, <1>2, <1>3, <2>1, <2>2, <2>3
<1>7. /\ LastDay(ly - 1) - 41 <= Month11(ly - 1)
      /\ Month11(ly) <= LastDay(ly)
      /\ LastDay(ly - 2) \in Nat /\ LastDay(ly - 2) + 365 <= LastDay(ly - 1)
      /\ LastDay(ly - 1) \in Int /\ LastDay(ly) \in Int
  <2>1. /\ LastDay(ly - 1) - 41 <= Month11(ly - 1)
        /\ Month11(ly) <= LastDay(ly)
    BY <1>5, YearEnds
  <2>2. ly - 2 \in Int /\ -10 <= ly - 2 /\ (ly - 2) + 1 = ly - 1 /\ ly - 1 \in Int
    BY <1>5
  <2>3. LastDay(ly - 2) \in Nat /\ LastDay((ly - 2) + 1) - LastDay(ly - 2) \in {365, 366}
    BY <2>2, LastDays
  <2>4. LastDay(ly - 1) \in Int /\ LastDay(ly) \in Int
    BY <1>5, <2>2, LastDayInt
  <2> QED
    BY <2>1, <2>2, <2>3, <2>4
<1>8. PICK yy \in {ly - 1, ly} : yy = JdToDate(jd).year
  <2>1. jd \in Nat /\ LastDay(ly - 2) < jd /\ jd <= LastDay(ly)
    BY <1>3, <1>6, <1>7
  <2>2. ly - 1 \in Int /\ (ly - 1) - 1 = ly - 2
    BY <1>5
  <2>3. ly - 1 <= JdToDate(jd).year
    BY <2>1, <2>2, YearFrom
  <2>4. JdToDate(jd).year <= ly
    BY <1>5, <2>1, YearUpTo
  <2>5. JdToDate(jd).year \in Int
    BY <2>1, YearOfDay
  <2> QED
    BY <1>5, <2>3, <2>4, <2>5
<1>9. MonthsBetween(Month11(ly - 1), start) = j
  <2>1. j \in 0..n
    BY <1>3
  <2> QED
    BY <1>1, <1>2, <2>1, CountMonths
<1>10. SolarToLunar(jd) = AroundMonth11(jd, start, yy)
  BY <1>4, <1>8 DEF SolarToLunar
<1>11. CASE yy = ly
  <2>1. Month11(ly) >= start
    BY <1>6
  <2> QED
    BY <1>1, <1>9, <1>10, <1>11, <2>1 DEF AroundMonth11, LunarDateIn
<1>12. CASE yy = ly - 1 /\ j # 0
  <2>1. ~(Month11(yy) >= start) /\ yy + 1 = ly
    BY <1>3, <1>5, <1>6, <1>12
  <2> QED
    BY <1>1, <1>9, <1>10, <1>12, <2>1 DEF AroundMonth11, LunarDateIn
<1>13. CASE yy = ly - 1 /\ j = 0
  <2>1. ly - 1 \in (MinYear - 1)..(MaxYear + 1)
    BY <1>5
  <2>2. PICK k2 \in Lunations, n2 \in {12, 13} : MonthsOfYear(ly - 1, k2, n2)
    BY <2>1, YearsAssumption
  <2>3. PICK at2 : at2 = LeapOffsets(Month11((ly - 1) - 1), Month11(ly - 1))
    OBVIOUS
  <2>4. k2 + n2 \in Lunations /\ Month11((ly - 1) - 1) = NewMoonDay(k2) /\ Month11(ly - 1) = NewMoonDay(k2 + n2)
    BY <2>2 DEF MonthsOfYear
  <2>5. MonthsBetween(Month11((ly - 1) - 1), Month11(ly - 1)) = n2
    <3>1. n2 \in 0..n2
      OBVIOUS
    <3> QED
      BY <2>4, <3>1, CountMonths
  <2>6. start = Month11(ly - 1) /\ Month11(yy) >= start
    <3>1. k + j = k
      BY <1>3, <1>13
    <3> QED
      BY <1>1, <1>2, <1>6, <1>13, <3>1
  <2>7. SolarToLunar(jd) = LunarDate(jd, start, ly - 1, n2, at2)
    BY <1>10, <1>13, <2>3, <2>5, <2>6 DEF AroundMonth11, LunarDateIn
  <2>8. IsLeapOffset(n2, at2) /\ IsLeapOffset(n, at)
    BY <2>2, <2>3, LeapOffsetsOf
  <2>9. MonthNumber(n2, at2) = 11 /\ n2 \notin at2 /\ n2 \in Int /\ ~(n2 < 4)
    <3>1. CASE n2 = 12
      BY <2>8, <3>1 DEF IsLeapOffset, MonthNumber
    <3>2. CASE n2 = 13
      <4>1. PICK o \in 1..12 : at2 = {o}
        BY <2>8, <3>2 DEF IsLeapOffset
      <4> QED
        BY <3>2, <4>1 DEF MonthNumber
    <3> QED
      BY <3>1, <3>2
  <2>10. MonthNumber(j, at) = 11 /\ j \notin at
    <3>1. CASE n = 12
      BY <1>13, <2>8, <3>1 DEF IsLeapOffset, MonthNumber
    <3>2. CASE n = 13
      <4>1. PICK o \in 1..12 : at = {o}
        BY <2>8, <3>2 DEF IsLeapOffset
      <4> QED
        BY <1>13, <4>1 DEF MonthNumber
    <3> QED
      BY <3>1, <3>2
  <2>11. /\ (ly - 1) - (IF MonthNumber(n2, at2) >= 11 /\ n2 < 4 THEN 1 ELSE 0) = ly - 1
         /\ ly - (IF MonthNumber(j, at) >= 11 /\ j < 4 THEN 1 ELSE 0) = ly - 1
    BY <1>5, <1>13, <2>9, <2>10
  <2> QED
    BY <1>1, <2>7, <2>9, <2>10, <2>11 DEF LunarDate
<1> QED
  BY <1>8, <1>11, <1>12, <1>13

\* The lunar year of a month, by its place in the run from month 11.
YearAt(ly, j, m) == ly - (IF m >= 11 /\ j < 4 THEN 1 ELSE 0)

LEMMA MonthAt ==
  ASSUME NEW ly \in (MinYear - 1)..(MaxYear + 1), NEW k \in Lunations, NEW n \in {12, 13},
         MonthsOfYear(ly, k, n), NEW at, at = LeapOffsets(Month11(ly - 1), Month11(ly)),
         NEW j \in 0..(n - 1), NEW m, m = MonthNumber(j, at), NEW y, y = YearAt(ly, j, m),
         NEW leap \in BOOLEAN, leap <=> j \in at
  PROVE  /\ m \in 1..12 /\ y \in {ly - 1, ly}
         /\ MonthStart(m, y, leap) = NewMoonDay(k + j)
         /\ MonthLength(m, y, leap) = NewMoonDay(k + j + 1) - NewMoonDay(k + j)
<1>1. IsLeapOffset(n, at) /\ ly \in Int /\ k \in Int
  BY LeapOffsetsOf, TablesAssumption, MoonDays
<1>2. /\ m \in 1..12
      /\ m >= 11 => j < 4 /\ m - 11 + (IF \E o \in at : leap \/ m - 11 >= o THEN 1 ELSE 0) = j
      /\ m < 11 => m + 1 + (IF \E o \in at : leap \/ m + 1 >= o THEN 1 ELSE 0) = j
  BY <1>1, NamesOfMonths
<1>0. NearestLunation(Month11(ly - 1)) = k
  BY Nearest DEF MonthsOfYear
<1>3. MonthStart(m, y, leap) = NewMoonDay(k + j)
  <2>1. CASE m >= 11
    <3>1. y = ly - 1 /\ y + 1 = ly /\ ~(m < 11) /\ m - 11 \in Int
      BY <1>1, <1>2, <2>1 DEF YearAt
    <3>2. MonthStart(m, y, leap) = StartAfter(Month11(ly - 1), Month11(ly), m - 11, leap)
      BY <3>1 DEF MonthStart
    <3>3. PICK off \in Int, later \in {0, 1} :
            off = m - 11 /\ later = IF \E o \in at : leap \/ off >= o THEN 1 ELSE 0
      BY <3>1
    <3>4. StartAfter(Month11(ly - 1), Month11(ly), off, leap) = NewMoonDay(k + off + later)
      BY <1>0, <3>3 DEF StartAfter
    <3>5. k + off + later = k + j
      BY <1>1, <1>2, <2>1, <3>3
    <3> QED
      BY <3>2, <3>3, <3>4, <3>5
  <2>2. CASE m < 11
    <3>1. y = ly /\ m + 1 \in Int
      BY <1>1, <1>2, <2>2 DEF YearAt
    <3>2. MonthStart(m, y, leap) = StartAfter(Month11(ly - 1), Month11(ly), m + 1, leap)
      BY <2>2, <3>1 DEF MonthStart
    <3>3. PICK off \in Int, later \in {0, 1} :
            off = m + 1 /\ later = IF \E o \in at : leap \/ off >= o THEN 1 ELSE 0
      BY <3>1
    <3>4. StartAfter(Month11(ly - 1), Month11(ly), off, leap) = NewMoonDay(k + off + later)
      BY <1>0, <3>3 DEF StartAfter
    <3>5. k + off + later = k + j
      BY <1>1, <1>2, <2>2, <3>3
    <3> QED
      BY <3>2, <3>3, <3>4, <3>5
  <2> QED
    BY <1>2, <2>1, <2>2
<1>4. k + j \in Lunations
  <2>1. k + n \in Lunations /\ j \in 0..n
    BY DEF MonthsOfYear
  <2> QED
    BY <2>1, MoonsOfYear
<1>5. MonthAfter(MonthStart(m, y, leap)) = NewMoonDay(k + j + 1)
  BY <1>3, <1>4, Nearest DEF MonthAfter
<1>6. y \in {ly - 1, ly}
  BY <1>1 DEF YearAt
<1> QED
  BY <1>2, <1>3, <1>5, <1>6 DEF MonthLength

\* The month j of the run from lunation k is the regular month m of the year ly.
IsRegularMonth(j, m, ly, y, k, at, leap) ==
  /\ MonthNumber(j, at) = m /\ j \notin at /\ YearAt(y, j, m) = ly
  /\ MonthStart(m, ly, leap) = NewMoonDay(k + j)
  /\ MonthLength(m, ly, leap) = NewMoonDay(k + j + 1) - NewMoonDay(k + j)

LEMMA RegularMonth ==
  ASSUME NEW m \in 1..12, NEW ly \in Int, NEW y, m < 11 => y = ly, m >= 11 => y = ly + 1,
         y \in (MinYear - 1)..(MaxYear + 1), NEW k \in Lunations, NEW n \in {12, 13},
         MonthsOfYear(y, k, n), NEW at, at = LeapOffsets(Month11(y - 1), Month11(y)),
         NEW leap \in BOOLEAN, ~leap
  PROVE  \E j \in 0..(n - 1) : IsRegularMonth(j, m, ly, y, k, at, leap)
<1>1. IsLeapOffset(n, at)
  BY LeapOffsetsOf
<1>2. PICK off \in 0..11, j \in 0..(n - 1) :
           /\ j \notin at /\ MonthNumber(j, at) = m
           /\ m >= 11 <=> MonthNumber(j, at) >= 11 /\ j < 4
  BY <1>1, PlacesOfMonths
<1>3. YearAt(y, j, m) = ly
  BY <1>2 DEF YearAt
<1>4. PICK name, yy : name = MonthNumber(j, at) /\ yy = YearAt(y, j, name)
  OBVIOUS
<1>5. leap <=> j \in at
  BY <1>2
<1>6. /\ MonthStart(name, yy, leap) = NewMoonDay(k + j)
      /\ MonthLength(name, yy, leap) = NewMoonDay(k + j + 1) - NewMoonDay(k + j)
  BY <1>4, <1>5, MonthAt
<1>7. name = m /\ yy = ly
  BY <1>2, <1>3, <1>4
<1> QED
  BY <1>2, <1>3, <1>6, <1>7 DEF IsRegularMonth

-----------------------------------------------------------------------------
(* Every day of the supported years, and the day after the last, is in a   *)
(* month of one of the years.                                              *)
CalendarDays == (LastDay(MinYear - 1) + 1)..(LastDay(MaxYear) + 1)

LEMMA DayHasMonth ==
  ASSUME NEW jd \in CalendarDays
  PROVE  /\ jd \in Nat
         /\ \E ly \in MinYear..(MaxYear + 1), k \in Lunations, n \in {12, 13} :
              /\ MonthsOfYear(ly, k, n)
              /\ \E j \in 0..(n - 1) : NewMoonDay(k + j) <= jd /\ jd < NewMoonDay(k + j + 1)
              /\ ly \in {JdToDate(jd).year, JdToDate(jd).year + 1}
              /\ ly = JdToDate(jd).year <=> jd < Month11(JdToDate(jd).year)
<1>1. MinYear \in Nat /\ MaxYear \in Nat
  BY TablesAssumption
<1>2. /\ LastDay(MinYear - 1) \in Nat /\ LastDay(MaxYear) \in Nat /\ LastDay(MaxYear + 1) \in Nat
      /\ LastDay(MaxYear + 1) - LastDay(MaxYear) \in {365, 366}
  <2>1. MinYear - 1 \in Int /\ -10 <= MinYear - 1
    BY <1>1
  <2>2. MaxYear \in Int /\ -10 <= MaxYear /\ MaxYear + 1 \in Int /\ -10 <= MaxYear + 1
    BY <1>1
  <2> QED
    BY <2>1, <2>2, LastDays
<1>3. jd \in Nat /\ LastDay(MinYear - 1) < jd /\ jd <= LastDay(MaxYear) + 1
  BY <1>2 DEF CalendarDays
<1>4. PICK yy : yy = JdToDate(jd).year
  OBVIOUS
<1>5. yy \in Int /\ LastDay(yy - 1) < jd /\ jd <= LastDay(yy)
  BY <1>3, <1>4, YearOfDay
<1>6. yy \in MinYear..(MaxYear + 1)
  <2>1. MinYear <= yy
    BY <1>1, <1>3, <1>4, YearFrom
  <2>2. jd <= LastDay(MaxYear + 1)
    BY <1>2, <1>3
  <2>3. yy <= MaxYear + 1
    BY <1>1, <1>3, <1>4, <2>2, YearUpTo
  <2> QED
    BY <1>1, <1>5, <2>1, <2>3
<1>7. ASSUME NEW ly \in (MinYear - 1)..(MaxYear + 1), NEW k \in Lunations, NEW n \in {12, 13},
             MonthsOfYear(ly, k, n), Month11(ly - 1) <= jd, jd < Month11(ly)
      PROVE  \E j \in 0..(n - 1) : NewMoonDay(k + j) <= jd /\ jd < NewMoonDay(k + j + 1)
  <2>1. k + n \in Lunations /\ NewMoonDay(k) <= jd /\ jd < NewMoonDay(k + n)
    BY <1>7 DEF MonthsOfYear
  <2>2. jd \in Int
    BY <1>3
  <2> QED
    BY <2>1, <2>2, MonthOfDay
<1>8. yy \in (MinYear - 1)..(MaxYear + 1)
  BY <1>1, <1>6
<1>9. PICK k \in Lunations, n \in {12, 13} : MonthsOfYear(yy, k, n)
  BY <1>8, YearsAssumption
<1>10. /\ Month11(yy - 1) \in Int /\ Month11(yy) \in Int /\ LastDay(yy) - 41 <= Month11(yy)
       /\ Month11(yy - 1) <= LastDay(yy - 1) /\ Month11(yy) <= LastDay(yy)
  BY <1>8, <1>9, YearEnds
<1>11. LastDay(yy) \in Int /\ LastDay(yy - 1) \in Int
  BY <1>5, LastDayInt
<1>12. CASE jd < Month11(yy)
  <2>1. Month11(yy - 1) <= jd
    BY <1>3, <1>5, <1>10, <1>11
  <2>2. \E j \in 0..(n - 1) : NewMoonDay(k + j) <= jd /\ jd < NewMoonDay(k + j + 1)
    BY <1>7, <1>8, <1>9, <1>12, <2>1
  <2> QED
    BY <1>3, <1>4, <1>6, <1>9, <1>12, <2>2
<1>13. CASE ~(jd < Month11(yy))
  <2>1. yy # MaxYear + 1
    <3>1. ASSUME yy = MaxYear + 1 PROVE FALSE
      BY <1>2, <1>3, <1>10, <1>13, <3>1
    <3> QED
      BY <3>1
  <2>2. PICK ly : ly = yy + 1
    OBVIOUS
  <2>3. ly \in MinYear..(MaxYear + 1) /\ ly \in (MinYear - 1)..(MaxYear + 1) /\ ly - 1 = yy /\ ly # yy
    BY <1>1, <1>6, <2>1, <2>2
  <2>4. PICK k2 \in Lunations, n2 \in {12, 13} : MonthsOfYear(ly, k2, n2)
    BY <2>3, YearsAssumption
  <2>5. Month11(ly) \in Int /\ LastDay(ly) - 41 <= Month11(ly)
    BY <2>3, <2>4, YearEnds
  <2>6. LastDay(yy) + 365 <= LastDay(ly) /\ LastDay(ly) \in Int
    <3>1. yy \in Int /\ -10 <= yy
      BY <1>1, <1>6
    <3>2. LastDay(yy + 1) - LastDay(yy) \in {365, 366} /\ LastDay(yy + 1) \in Int
      BY <3>1, LastDays, LastDayInt
    <3> QED
      BY <1>11, <2>2, <3>2
  <2>7. jd < Month11(ly) /\ Month11(ly - 1) <= jd
    BY <1>3, <1>5, <1>10, <1>11, <1>13, <2>3, <2>5, <2>6
  <2>8. \E j \in 0..(n2 - 1) : NewMoonDay(k2 + j) <= jd /\ jd < NewMoonDay(k2 + j + 1)
    BY <1>7, <2>3, <2>4, <2>7
  <2> QED
    BY <1>3, <1>4, <1>13, <2>2, <2>3, <2>4, <2>8
<1> QED
  BY <1>12, <1>13

-----------------------------------------------------------------------------
(* The dates of the days.                                                  *)

\* The day jd is in the month j of the lunar year ly.
InMonth(jd, ly, k, n, at, j) ==
  /\ ly \in MinYear..(MaxYear + 1) /\ k \in Lunations /\ n \in {12, 13} /\ MonthsOfYear(ly, k, n)
  /\ at = LeapOffsets(Month11(ly - 1), Month11(ly))
  /\ j \in 0..(n - 1) /\ jd \in Int /\ NewMoonDay(k + j) <= jd /\ jd < NewMoonDay(k + j + 1)

LEMMA SupportedDays ==
  /\ FirstDay \in Nat /\ FinalDay \in Nat /\ FirstDay = LastDay(MinYear - 1) + 1 /\ FinalDay = LastDay(MaxYear)
  /\ CalendarDays = FirstDay..(FinalDay + 1)
<1>1. MinYear - 1 \in Int /\ -10 <= MinYear - 1 /\ (MinYear - 1) + 1 = MinYear
  BY TablesAssumption
<1>2. MaxYear \in Int /\ -10 <= MaxYear
  BY TablesAssumption
<1>3. LastDay(MinYear - 1) \in Nat /\ LastDay(MaxYear) \in Nat
  BY <1>1, <1>2, LastDays
<1>4. FirstDay = LastDay(MinYear - 1) + 1
  <2>1. JdFromDate(1, 1, (MinYear - 1) + 1) = LastDay(MinYear - 1) + 1
    BY <1>1, LastDays
  <2> QED
    BY <1>1, <2>1 DEF FirstDay
<1>5. FinalDay = LastDay(MaxYear)
  BY DEF FinalDay, LastDay
<1> QED
  BY <1>3, <1>4, <1>5 DEF CalendarDays

LEMMA DayInMonth ==
  ASSUME NEW jd \in CalendarDays
  PROVE  \E ly, k, n, at, j : InMonth(jd, ly, k, n, at, j)
<1>1. jd \in Int
  BY SupportedDays
<1>2. PICK ly \in MinYear..(MaxYear + 1), k \in Lunations, n \in {12, 13} :
         /\ MonthsOfYear(ly, k, n)
         /\ \E j \in 0..(n - 1) : NewMoonDay(k + j) <= jd /\ jd < NewMoonDay(k + j + 1)
  BY DayHasMonth
<1>3. PICK j \in 0..(n - 1) : NewMoonDay(k + j) <= jd /\ jd < NewMoonDay(k + j + 1)
  BY <1>2
<1>4. PICK at : at = LeapOffsets(Month11(ly - 1), Month11(ly))
  OBVIOUS
<1>5. InMonth(jd, ly, k, n, at, j)
  BY <1>1, <1>2, <1>3, <1>4 DEF InMonth
<1> QED
  BY <1>5

LEMMA InMonthDate ==
  ASSUME NewMoonsOnTime, NEW jd, NEW ly, NEW k, NEW n, NEW at, NEW j, InMonth(jd, ly, k, n, at, j)
  PROVE  \E m \in 1..12, y \in {ly - 1, ly}, leap \in BOOLEAN, first \in Int, next \in Int :
           /\ first = NewMoonDay(k + j) /\ next = NewMoonDay(k + j + 1)
           /\ first <= jd /\ jd < next /\ next - first \in {29, 30}
           /\ m = MonthNumber(j, at) /\ y = YearAt(ly, j, m) /\ (leap <=> j \in at)
           /\ SolarToLunar(jd) = [day |-> jd - first + 1, month |-> m, year |-> y, leap |-> leap]
           /\ MonthStart(m, y, leap) = first /\ MonthLength(m, y, leap) = next - first
<1>1. /\ ly \in MinYear..(MaxYear + 1) /\ k \in Lunations /\ n \in {12, 13} /\ MonthsOfYear(ly, k, n)
      /\ at = LeapOffsets(Month11(ly - 1), Month11(ly))
      /\ j \in 0..(n - 1) /\ jd \in Int /\ NewMoonDay(k + j) <= jd /\ jd < NewMoonDay(k + j + 1)
  BY DEF InMonth
<1>2. ly \in (MinYear - 1)..(MaxYear + 1) /\ k \in Int
  BY <1>1, TablesAssumption, MoonDays
<1>3. k + j \in Lunations /\ k + j + 1 \in Lunations
  <2>1. k + n \in Lunations /\ j \in 0..n /\ j + 1 \in 0..n /\ k + (j + 1) = k + j + 1
    BY <1>1, <1>2 DEF MonthsOfYear
  <2> QED
    BY <1>1, <2>1, MoonsOfYear
<1>4. PICK first \in Int, next \in Int : first = NewMoonDay(k + j) /\ next = NewMoonDay(k + j + 1)
  BY <1>3, MoonDays
<1>5. next - first \in {29, 30}
  BY <1>3, <1>4, ShortGap
<1>6. PICK m, y : m = MonthNumber(j, at) /\ y = YearAt(ly, j, m)
  OBVIOUS
<1>7. PICK leap \in BOOLEAN : leap <=> j \in at
  <2>1. CASE j \in at
    <3>1. TRUE <=> j \in at
      BY <2>1
    <3> QED
      BY <3>1
  <2>2. CASE j \notin at
    <3>1. FALSE <=> j \in at
      BY <2>2
    <3> QED
      BY <3>1
  <2> QED
    BY <2>1, <2>2
<1>8. /\ m \in 1..12 /\ y \in {ly - 1, ly}
      /\ MonthStart(m, y, leap) = first /\ MonthLength(m, y, leap) = next - first
  BY <1>1, <1>2, <1>4, <1>6, <1>7, MonthAt
<1>9. SolarToLunar(jd) = LunarDate(jd, first, ly, j, at)
  BY <1>1, <1>4, DateOf
<1>10. SolarToLunar(jd) = [day |-> jd - first + 1, month |-> m, year |-> y, leap |-> leap]
  <2>1. SolarToLunar(jd) = [day |-> jd - first + 1, month |-> m, year |-> y, leap |-> j \in at]
    BY <1>6, <1>9 DEF LunarDate, YearAt
  <2>2. CASE leap
    BY <1>7, <2>1, <2>2
  <2>3. CASE ~leap
    BY <1>7, <2>1, <2>3
  <2> QED
    BY <2>2, <2>3
<1>11. /\ first = NewMoonDay(k + j) /\ next = NewMoonDay(k + j + 1)
       /\ first <= jd /\ jd < next /\ next - first \in {29, 30}
       /\ m = MonthNumber(j, at) /\ y = YearAt(ly, j, m) /\ (leap <=> j \in at)
       /\ SolarToLunar(jd) = [day |-> jd - first + 1, month |-> m, year |-> y, leap |-> leap]
       /\ MonthStart(m, y, leap) = first /\ MonthLength(m, y, leap) = next - first
  BY <1>1, <1>4, <1>5, <1>6, <1>7, <1>8, <1>10
<1>12. m \in 1..12 /\ y \in {ly - 1, ly}
  BY <1>8
<1> QED
  BY <1>11, <1>12, ZenonT(60)

\* From one month of a year to the next.
LEMMA NextInYear ==
  ASSUME NEW ly \in Int, NEW n \in {12, 13}, NEW at, IsLeapOffset(n, at), NEW j \in 0..(n - 2),
         NEW m, m = MonthNumber(j, at), NEW p, p = MonthNumber(j + 1, at)
  PROVE  /\ j + 1 \in at => p = m /\ j \notin at /\ YearAt(ly, j + 1, p) = YearAt(ly, j, m)
         /\ j + 1 \notin at => /\ p = (m % 12) + 1
                               /\ YearAt(ly, j + 1, p) = IF m = 12 THEN YearAt(ly, j, m) + 1 ELSE YearAt(ly, j, m)
<1>1. CASE n = 12
  <2>1. at = {}
    BY <1>1 DEF IsLeapOffset
  <2>2. /\ m = (IF j + 11 > 12 THEN j + 11 - 12 ELSE j + 11)
        /\ p = (IF j + 1 + 11 > 12 THEN j + 1 + 11 - 12 ELSE j + 1 + 11)
    BY <2>1 DEF MonthNumber
  <2>3. j \in 0..10
    BY <1>1
  <2>4. p = (m % 12) + 1
    BY <2>2, <2>3
  <2> QED
    BY <2>1, <2>2, <2>3, <2>4 DEF YearAt
<1>2. CASE n = 13
  <2>1. PICK off \in 1..12 : at = {off}
    BY <1>2 DEF IsLeapOffset
  <2>2. /\ m = (IF j + (IF j >= off THEN 10 ELSE 11) > 12 THEN j + (IF j >= off THEN 10 ELSE 11) - 12
                ELSE j + (IF j >= off THEN 10 ELSE 11))
        /\ p = (IF j + 1 + (IF j + 1 >= off THEN 10 ELSE 11) > 12 THEN j + 1 + (IF j + 1 >= off THEN 10 ELSE 11) - 12
                ELSE j + 1 + (IF j + 1 >= off THEN 10 ELSE 11))
    BY <2>1 DEF MonthNumber
  <2>3. j \in 0..11
    BY <1>2
  <2>4. CASE j + 1 = off
    BY <2>1, <2>2, <2>3, <2>4 DEF YearAt
  <2>5. CASE j + 1 # off
    <3>1. p = (m % 12) + 1
      BY <2>2, <2>3, <2>5
    <3> QED
      BY <2>1, <2>2, <2>3, <2>5, <3>1 DEF YearAt
  <2> QED
    BY <2>4, <2>5
<1> QED
  BY <1>1, <1>2

\* From the last month of a year to the first of the next.
LEMMA NextYear ==
  ASSUME NEW ly \in Int, NEW n \in {12, 13}, NEW at, IsLeapOffset(n, at),
         NEW o \in {12, 13}, NEW next, IsLeapOffset(o, next)
  PROVE  /\ MonthNumber(n - 1, at) = 10 /\ YearAt(ly, n - 1, 10) = ly
         /\ MonthNumber(0, next) = 11 /\ 0 \notin next /\ YearAt(ly + 1, 0, 11) = ly
<1>1. MonthNumber(n - 1, at) = 10 /\ YearAt(ly, n - 1, 10) = ly
  <2>1. CASE n = 12
    BY <2>1 DEF IsLeapOffset, MonthNumber, YearAt
  <2>2. CASE n = 13
    <3>1. PICK off \in 1..12 : at = {off}
      BY <2>2 DEF IsLeapOffset
    <3> QED
      BY <2>2, <3>1 DEF MonthNumber, YearAt
  <2> QED
    BY <2>1, <2>2
<1>2. MonthNumber(0, next) = 11 /\ 0 \notin next /\ YearAt(ly + 1, 0, 11) = ly
  <2>1. CASE o = 12
    BY <2>1 DEF IsLeapOffset, MonthNumber, YearAt
  <2>2. CASE o = 13
    <3>1. PICK off \in 1..12 : next = {off}
      BY <2>2 DEF IsLeapOffset
    <3> QED
      BY <2>2, <3>1 DEF MonthNumber, YearAt
  <2> QED
    BY <2>1, <2>2
<1> QED
  BY <1>1, <1>2

LEMMA NextDayInMonth ==
  ASSUME NEW jd \in CalendarDays, jd + 1 \in CalendarDays,
         NEW ly, NEW k, NEW n, NEW at, NEW j, InMonth(jd, ly, k, n, at, j)
  PROVE  \/ jd + 1 < NewMoonDay(k + j + 1) /\ InMonth(jd + 1, ly, k, n, at, j)
         \/ /\ j \in 0..(n - 2) /\ jd + 1 = NewMoonDay(k + (j + 1))
            /\ InMonth(jd + 1, ly, k, n, at, j + 1)
         \/ /\ j = n - 1
            /\ \E k2, n2, at2 : InMonth(jd + 1, ly + 1, k2, n2, at2, 0) /\ jd + 1 = NewMoonDay(k2 + 0)
<1>1. /\ ly \in MinYear..(MaxYear + 1) /\ k \in Lunations /\ n \in {12, 13} /\ MonthsOfYear(ly, k, n)
      /\ at = LeapOffsets(Month11(ly - 1), Month11(ly))
      /\ j \in 0..(n - 1) /\ jd \in Int /\ NewMoonDay(k + j) <= jd /\ jd < NewMoonDay(k + j + 1)
  BY DEF InMonth
<1>2. /\ k + n \in Lunations /\ k \in Int /\ Month11(ly) = NewMoonDay(k + n)
      /\ ly \in Int /\ MaxYear \in Nat /\ MinYear \in Nat
  BY <1>1, MoonDays, TablesAssumption DEF MonthsOfYear
<1>3. k + j \in Lunations /\ k + j + 1 \in Lunations /\ k + j + 1 = k + (j + 1)
  <2>1. j \in 0..n /\ j + 1 \in 0..n /\ k + (j + 1) = k + j + 1
    BY <1>1, <1>2
  <2> QED
    BY <1>1, <1>2, <2>1, MoonsOfYear
<1>4. PICK first \in Int, next \in Int : first = NewMoonDay(k + j) /\ next = NewMoonDay(k + j + 1)
  BY <1>3, MoonDays
<1>5. CASE jd + 1 < next
  <2>1. jd + 1 \in Int /\ NewMoonDay(k + j) <= jd + 1 /\ jd + 1 < NewMoonDay(k + j + 1)
    BY <1>1, <1>4, <1>5
  <2> QED
    BY <1>1, <2>1 DEF InMonth
<1>6. CASE ~(jd + 1 < next) /\ j # n - 1
  <2>1. j \in 0..(n - 2) /\ j + 1 \in 0..(n - 1) /\ jd + 1 = next /\ jd + 1 \in Int
    BY <1>1, <1>4, <1>6
  <2>2. k + (j + 1) + 1 \in Lunations
    <3>1. (j + 1) + 1 \in 0..n /\ k + ((j + 1) + 1) = k + (j + 1) + 1
      BY <1>1, <1>2, <2>1
    <3> QED
      BY <1>1, <1>2, <3>1, MoonsOfYear
  <2>3. NewMoonDay(k + (j + 1) + 1) - NewMoonDay(k + (j + 1)) \in {29, 30}
    BY <1>3, <2>2, ShortGap
  <2>4. NewMoonDay(k + (j + 1) + 1) \in Int
    BY <2>2, MoonDays
  <2>5. NewMoonDay(k + (j + 1)) <= jd + 1 /\ jd + 1 < NewMoonDay(k + (j + 1) + 1)
    BY <1>3, <1>4, <2>1, <2>3, <2>4
  <2>6. InMonth(jd + 1, ly, k, n, at, j + 1)
    BY <1>1, <2>1, <2>5 DEF InMonth
  <2> QED
    BY <1>3, <1>4, <2>1, <2>6
<1>7. CASE ~(jd + 1 < next) /\ j = n - 1
  <2>1. jd + 1 = next /\ k + j + 1 = k + n /\ next = Month11(ly) /\ jd + 1 \in Int
    BY <1>1, <1>2, <1>4, <1>7
  <2>2. ly \in (MinYear - 1)..(MaxYear + 1)
    BY <1>1, <1>2
  <2>3. ly # MaxYear + 1
    <3>1. ASSUME ly = MaxYear + 1 PROVE FALSE
      <4>1. LastDay(ly) - 41 <= Month11(ly)
        BY <1>1, <2>2, YearEnds
      <4>2. MaxYear \in Int /\ -10 <= MaxYear
        BY <1>2
      <4>3. LastDay(MaxYear) \in Nat /\ LastDay(MaxYear + 1) - LastDay(MaxYear) \in {365, 366}
        BY <4>2, LastDays
      <4>4. LastDay(MaxYear + 1) \in Int
        BY <4>2, LastDayInt
      <4>5. jd + 1 <= LastDay(MaxYear) + 1
        BY SupportedDays, <4>3 DEF CalendarDays
      <4> QED
        BY <2>1, <3>1, <4>1, <4>3, <4>4, <4>5
    <3> QED
      BY <3>1
  <2>4. ly + 1 \in (MinYear - 1)..(MaxYear + 1) /\ ly + 1 \in MinYear..(MaxYear + 1) /\ (ly + 1) - 1 = ly
    BY <1>1, <1>2, <2>3
  <2>5. PICK k2 \in Lunations, n2 \in {12, 13} : MonthsOfYear(ly + 1, k2, n2)
    BY <2>4, YearsAssumption
  <2>6. PICK at2 : at2 = LeapOffsets(Month11((ly + 1) - 1), Month11(ly + 1))
    OBVIOUS
  <2>7. /\ k2 + n2 \in Lunations /\ k2 \in Int /\ k2 + 0 = k2 /\ NewMoonDay(k2) = Month11(ly)
        /\ 0 \in 0..(n2 - 1)
    BY <2>4, <2>5, MoonDays DEF MonthsOfYear
  <2>8. k2 + 0 + 1 \in Lunations /\ k2 + 0 + 1 = k2 + 1
    <3>1. 1 \in 0..n2 /\ k2 + 0 + 1 = k2 + 1
      BY <2>7
    <3> QED
      BY <2>5, <2>7, <3>1, MoonsOfYear
  <2>9. NewMoonDay(k2 + 0) <= jd + 1 /\ jd + 1 < NewMoonDay(k2 + 0 + 1)
    <3>1. NewMoonDay(k2 + 1) - NewMoonDay(k2) \in {29, 30} /\ NewMoonDay(k2 + 1) \in Int
      BY <2>8, ShortGap, MoonDays
    <3> QED
      BY <2>1, <2>7, <2>8, <3>1
  <2>10. InMonth(jd + 1, ly + 1, k2, n2, at2, 0)
    BY <2>1, <2>4, <2>5, <2>6, <2>7, <2>9 DEF InMonth
  <2> QED
    BY <1>7, <2>1, <2>7, <2>10
<1> QED
  BY <1>5, <1>6, <1>7, Zenon

LEMMA DateInMonth ==
  ASSUME NewMoonsOnTime, NEW jd, NEW ly, NEW k, NEW n, NEW at, NEW j, InMonth(jd, ly, k, n, at, j)
  PROVE  SolarToLunar(jd) = [day |-> jd - NewMoonDay(k + j) + 1, month |-> MonthNumber(j, at),
                             year |-> YearAt(ly, j, MonthNumber(j, at)), leap |-> j \in at]
<1>1. SolarToLunar(jd) = LunarDate(jd, NewMoonDay(k + j), ly, j, at)
  <2>1. /\ ly \in MinYear..(MaxYear + 1) /\ k \in Lunations /\ n \in {12, 13} /\ MonthsOfYear(ly, k, n)
        /\ at = LeapOffsets(Month11(ly - 1), Month11(ly))
        /\ j \in 0..(n - 1) /\ jd \in Int /\ NewMoonDay(k + j) <= jd /\ jd < NewMoonDay(k + j + 1)
    BY Zenon DEF InMonth
  <2> QED
    BY <2>1, DateOf, SMT
<1> QED
  BY <1>1, Zenon DEF LunarDate, YearAt

\* The first days of two months in a row.
LEMMA LeapMonthNext ==
  ASSUME NEW m, NEW y, NEW leap, NEW to
  PROVE  leap = FALSE /\ to = TRUE =>
           NextMonth([day |-> 1, month |-> m, year |-> y, leap |-> leap],
                     [day |-> 1, month |-> m, year |-> y, leap |-> to])
<1>1. PICK l : l = [day |-> 1, month |-> m, year |-> y, leap |-> leap]
  OBVIOUS
<1>2. PICK d : d = [day |-> 1, month |-> m, year |-> y, leap |-> to]
  OBVIOUS
<1>3. [l EXCEPT !.leap = to] = d
  BY <1>1, <1>2, SMT
<1>4. l.leap = leap
  BY <1>1
<1>5. ASSUME leap = FALSE, to = TRUE
      PROVE  NextMonth(l, d)
  <2>1. ~l.leap
    BY <1>4, <1>5
  <2>2. d = [l EXCEPT !.leap = TRUE]
    BY <1>3, <1>5, Zenon
  <2> QED
    BY <2>1, <2>2 DEF NextMonth
<1> QED
  BY <1>1, <1>2, <1>5

LEMMA RegularMonthNext ==
  ASSUME NEW m, NEW y, NEW leap, NEW to
  PROVE  to = FALSE =>
           NextMonth([day |-> 1, month |-> m, year |-> y, leap |-> leap],
                     [day |-> 1, month |-> (m % 12) + 1, year |-> IF m = 12 THEN y + 1 ELSE y, leap |-> to])
<1>1. PICK p, z : p = (m % 12) + 1 /\ z = IF m = 12 THEN y + 1 ELSE y
  OBVIOUS
<1>2. PICK l : l = [day |-> 1, month |-> m, year |-> y, leap |-> leap]
  OBVIOUS
<1>3. PICK d : d = [day |-> 1, month |-> p, year |-> z, leap |-> to]
  OBVIOUS
<1>4. l.month = m /\ l.year = y
  BY <1>2
<1>5. [l EXCEPT !.leap = to, !.month = p, !.year = z] = d
  <2>1. PICK a : a = [day |-> 1, month |-> m, year |-> y, leap |-> to]
    OBVIOUS
  <2>2. PICK b : b = [day |-> 1, month |-> p, year |-> y, leap |-> to]
    OBVIOUS
  <2>3. [l EXCEPT !.leap = to] = a
    BY <1>2, <2>1, SMT
  <2>4. [a EXCEPT !.month = p] = b
    BY <2>1, <2>2, SMT
  <2>5. [b EXCEPT !.year = z] = d
    BY <1>3, <2>2, SMT
  <2>6. [l EXCEPT !.leap = to, !.month = p, !.year = z]
          = [[[l EXCEPT !.leap = to] EXCEPT !.month = p] EXCEPT !.year = z]
    OBVIOUS
  <2> QED
    BY <2>3, <2>4, <2>5, <2>6
<1>6. (l.month % 12) + 1 = p /\ (IF l.month = 12 THEN l.year + 1 ELSE l.year) = z
  BY <1>1, <1>4
<1>7. ASSUME to = FALSE
      PROVE  NextMonth(l, d)
  <2>1. [l EXCEPT !.leap = to, !.month = (l.month % 12) + 1,
                  !.year = IF l.month = 12 THEN l.year + 1 ELSE l.year] = d
    BY <1>5, <1>6, Zenon
  <2>2. d = [l EXCEPT !.leap = FALSE, !.month = (l.month % 12) + 1,
                      !.year = IF l.month = 12 THEN l.year + 1 ELSE l.year]
    BY <1>7, <2>1, Zenon
  <2> QED
    BY <2>2 DEF NextMonth
<1>8. d = [day |-> 1, month |-> (m % 12) + 1, year |-> IF m = 12 THEN y + 1 ELSE y, leap |-> to]
  BY <1>1, <1>3, Zenon
<1> QED
  BY <1>2, <1>7, <1>8, Zenon

LEMMA DatesAdvance ==
  ASSUME NewMoonsOnTime, NEW jd \in CalendarDays, jd + 1 \in CalendarDays,
         NEW l, l = SolarToLunar(jd), NEW d, d = SolarToLunar(jd + 1)
  PROVE  /\ LunarToSolar(l) = jd
         /\ IF l.day < MonthLength(l.month, l.year, l.leap)
            THEN d = [l EXCEPT !.day = l.day + 1]
            ELSE d.day = 1 /\ NextMonth([l EXCEPT !.day = 1], d)
<1>1. PICK ly, k, n, at, j : InMonth(jd, ly, k, n, at, j)
  BY DayInMonth
<1>2. PICK m \in 1..12, y \in {ly - 1, ly}, leap \in BOOLEAN, first \in Int, next \in Int :
           /\ first = NewMoonDay(k + j) /\ next = NewMoonDay(k + j + 1)
           /\ first <= jd /\ jd < next /\ next - first \in {29, 30}
           /\ m = MonthNumber(j, at) /\ y = YearAt(ly, j, m) /\ (leap <=> j \in at)
           /\ SolarToLunar(jd) = [day |-> jd - first + 1, month |-> m, year |-> y, leap |-> leap]
           /\ MonthStart(m, y, leap) = first /\ MonthLength(m, y, leap) = next - first
  BY <1>1, InMonthDate
<1>3. l.day = jd - first + 1 /\ l.month = m /\ l.year = y /\ l.leap = leap
  BY <1>2
<1>4. /\ ly \in Int /\ n \in {12, 13} /\ j \in 0..(n - 1) /\ jd \in Int /\ IsLeapOffset(n, at)
  <2>1. /\ ly \in Int /\ n \in {12, 13} /\ j \in 0..(n - 1) /\ jd \in Int /\ k \in Lunations
        /\ MonthsOfYear(ly, k, n) /\ at = LeapOffsets(Month11(ly - 1), Month11(ly))
    BY <1>1, TablesAssumption DEF InMonth
  <2> QED
    BY <2>1, LeapOffsetsOf
<1>5. LunarToSolar(l) = jd
  BY <1>2, <1>3, <1>4 DEF LunarToSolar
<1>6. l.day < MonthLength(l.month, l.year, l.leap) <=> jd + 1 < next
  BY <1>2, <1>3, <1>4
<1>7. l = [day |-> jd - first + 1, month |-> m, year |-> y, leap |-> j \in at]
  BY <1>1, <1>2, DateInMonth
<1>8. CASE jd + 1 < next
  <2>2. InMonth(jd + 1, ly, k, n, at, j)
    BY <1>1, <1>2, <1>4, <1>8 DEF InMonth
  <2>3. d = [day |-> (jd + 1) - first + 1, month |-> m, year |-> y, leap |-> j \in at]
    BY <1>2, <2>2, DateInMonth
  <2>4. (jd + 1) - first + 1 = l.day + 1
    BY <1>2, <1>3, <1>4
  <2>5. d = [l EXCEPT !.day = l.day + 1]
    BY <1>7, <2>3, <2>4
  <2> QED
    BY <1>5, <1>6, <1>8, <2>5
<1>9. CASE ~(jd + 1 < next)
  <2>1. PICK one : one = [day |-> 1, month |-> m, year |-> y, leap |-> leap]
    OBVIOUS
  <2>2. [l EXCEPT !.day = 1] = one
    BY <1>2, <2>1
  <2>3. ASSUME j \in 0..(n - 2), jd + 1 = NewMoonDay(k + (j + 1)), InMonth(jd + 1, ly, k, n, at, j + 1)
        PROVE  d.day = 1 /\ NextMonth(one, d)
    <3>1. PICK p : p = MonthNumber(j + 1, at)
      OBVIOUS
    <3>2. PICK z : z = YearAt(ly, j + 1, p)
      OBVIOUS
    <3>3. d = [day |-> (jd + 1) - (jd + 1) + 1, month |-> p, year |-> z, leap |-> (j + 1) \in at]
      BY <2>3, <3>1, <3>2, DateInMonth
    <3>4. (jd + 1) - (jd + 1) + 1 = 1
      BY <1>4
    <3>5. /\ j + 1 \in at => p = m /\ j \notin at /\ z = y
          /\ j + 1 \notin at => p = (m % 12) + 1 /\ z = IF m = 12 THEN y + 1 ELSE y
      <4>1. m = MonthNumber(j, at) /\ y = YearAt(ly, j, m)
        BY <1>2
      <4>2. /\ j + 1 \in at => p = m /\ j \notin at /\ YearAt(ly, j + 1, p) = YearAt(ly, j, m)
            /\ j + 1 \notin at => /\ p = (m % 12) + 1
                                  /\ YearAt(ly, j + 1, p) = IF m = 12 THEN YearAt(ly, j, m) + 1 ELSE YearAt(ly, j, m)
        BY <1>4, <2>3, <3>1, <4>1, NextInYear
      <4> QED
        BY <3>2, <4>1, <4>2
    <3>6. CASE j + 1 \in at
      <4>1. PICK to : to = TRUE
        OBVIOUS
      <4>2. (j + 1 \in at) = TRUE
        BY <3>6
      <4>3. d = [day |-> 1, month |-> m, year |-> y, leap |-> to]
        <5>1. d = [day |-> 1, month |-> m, year |-> y, leap |-> TRUE]
          BY <3>3, <3>4, <3>5, <3>6, <4>2
        <5> QED
          BY <4>1, <5>1, Zenon
      <4>4. leap = FALSE
        BY <1>2, <3>5, <3>6
      <4>5. NextMonth([day |-> 1, month |-> m, year |-> y, leap |-> leap],
                      [day |-> 1, month |-> m, year |-> y, leap |-> to])
        BY <4>1, <4>4, LeapMonthNext, Zenon
      <4>6. d.day = 1
        BY <4>3
      <4> QED
        BY <2>1, <4>3, <4>5, <4>6, Zenon
    <3>7. CASE j + 1 \notin at
      <4>1. PICK to : to = FALSE
        OBVIOUS
      <4>2. (j + 1 \in at) = FALSE
        BY <3>7
      <4>3. d = [day |-> 1, month |-> p, year |-> z, leap |-> to]
        <5>1. d = [day |-> 1, month |-> p, year |-> z, leap |-> FALSE]
          BY <3>3, <3>4, <4>2
        <5> QED
          BY <4>1, <5>1, Zenon
      <4>4. p = (m % 12) + 1 /\ z = IF m = 12 THEN y + 1 ELSE y
        BY <3>5, <3>7
      <4>5. NextMonth([day |-> 1, month |-> m, year |-> y, leap |-> leap],
                      [day |-> 1, month |-> (m % 12) + 1, year |-> IF m = 12 THEN y + 1 ELSE y, leap |-> to])
        BY <4>1, RegularMonthNext, Zenon
      <4>6. d.day = 1
        BY <4>3
      <4> QED
        BY <2>1, <4>3, <4>4, <4>5, <4>6, Zenon
    <3> QED
      BY <3>6, <3>7
  <2>4. ASSUME j = n - 1, NEW k2, NEW n2, NEW at2, InMonth(jd + 1, ly + 1, k2, n2, at2, 0),
               jd + 1 = NewMoonDay(k2 + 0)
        PROVE  d.day = 1 /\ NextMonth(one, d)
    <3>1. n2 \in {12, 13} /\ IsLeapOffset(n2, at2)
      <4>1. /\ n2 \in {12, 13} /\ k2 \in Lunations /\ ly + 1 \in MinYear..(MaxYear + 1)
            /\ MonthsOfYear(ly + 1, k2, n2) /\ at2 = LeapOffsets(Month11((ly + 1) - 1), Month11(ly + 1))
        BY <2>4 DEF InMonth
      <4>2. ly + 1 \in (MinYear - 1)..(MaxYear + 1)
        BY <1>4, <4>1, TablesAssumption
      <4> QED
        BY <4>1, <4>2, LeapOffsetsOf
    <3>2. /\ MonthNumber(n - 1, at) = 10 /\ YearAt(ly, n - 1, 10) = ly
          /\ MonthNumber(0, at2) = 11 /\ 0 \notin at2 /\ YearAt(ly + 1, 0, 11) = ly
      BY <1>4, <3>1, NextYear
    <3>3. m = 10 /\ y = ly
      BY <1>2, <2>4, <3>2
    <3>4. d = [day |-> (jd + 1) - (jd + 1) + 1, month |-> 11, year |-> ly, leap |-> 0 \in at2]
      BY <2>4, <3>2, DateInMonth
    <3>5. (jd + 1) - (jd + 1) + 1 = 1 /\ (m % 12) + 1 = 11
      BY <1>4, <3>3
    <3>6. PICK to : to = FALSE
      OBVIOUS
    <3>7. (0 \in at2) = FALSE
      BY <3>2
    <3>8. d = [day |-> 1, month |-> 11, year |-> ly, leap |-> to]
      <4>1. d = [day |-> 1, month |-> 11, year |-> ly, leap |-> FALSE]
        BY <3>4, <3>5, <3>7
      <4> QED
        BY <3>6, <4>1, Zenon
    <3>9. 11 = (m % 12) + 1 /\ ly = IF m = 12 THEN y + 1 ELSE y
      BY <3>3, <3>5
    <3>10. NextMonth([day |-> 1, month |-> m, year |-> y, leap |-> leap],
                     [day |-> 1, month |-> (m % 12) + 1, year |-> IF m = 12 THEN y + 1 ELSE y, leap |-> to])
      BY <3>6, RegularMonthNext, Zenon
    <3>11. d.day = 1
      BY <3>8
    <3> QED
      BY <2>1, <3>8, <3>9, <3>10, <3>11, Zenon
  <2>5. \/ j \in 0..(n - 2) /\ jd + 1 = NewMoonDay(k + (j + 1)) /\ InMonth(jd + 1, ly, k, n, at, j + 1)
        \/ j = n - 1 /\ \E k2, n2, at2 : InMonth(jd + 1, ly + 1, k2, n2, at2, 0) /\ jd + 1 = NewMoonDay(k2 + 0)
    BY <1>1, <1>2, <1>9, NextDayInMonth
  <2>6. d.day = 1 /\ NextMonth([l EXCEPT !.day = 1], d)
    BY <2>2, <2>3, <2>4, <2>5
  <2> QED
    BY <1>5, <1>6, <1>9, <2>6
<1> QED
  BY <1>8, <1>9

-----------------------------------------------------------------------------
(* The gio.                                                                *)

LEMMA MonthsInYear ==
  ASSUME NEW k \in Lunations, NEW n \in {12, 13}, k + n \in Lunations, NEW j \in 0..(n - 1)
  PROVE  /\ k + j \in Lunations /\ k + j + 1 \in Lunations
         /\ NewMoonDay(k) + 29 * j <= NewMoonDay(k + j)
         /\ NewMoonDay(k + j + 1) <= NewMoonDay(k + n)
<1>1. k \in Int /\ j \in Nat /\ j \in 0..n /\ j + 1 \in 0..n /\ k + j + 1 = k + (j + 1)
  BY MoonDays
<1>2. k + j \in Lunations /\ k + (j + 1) \in Lunations
  BY <1>1, MoonsOfYear
<1>3. PICK a \in Int, b \in Int, c \in Int, d \in Int :
        a = NewMoonDay(k) /\ b = NewMoonDay(k + j) /\ c = NewMoonDay(k + (j + 1)) /\ d = NewMoonDay(k + n)
  BY <1>2, MoonDays
<1>4. 29 * j <= b - a
  BY <1>1, <1>2, <1>3, LongGap
<1>5. c <= d
  <2>1. PICK m \in Nat : m = n - (j + 1) /\ (k + (j + 1)) + m = k + n
    BY <1>1
  <2>2. 29 * m <= NewMoonDay((k + (j + 1)) + m) - NewMoonDay(k + (j + 1))
    BY <1>2, <2>1, LongGap
  <2> QED
    BY <1>3, <2>1, <2>2
<1> QED
  BY <1>1, <1>2, <1>3, <1>4, <1>5

\* The day of a month of length `length` on which a gio of day `day` is kept.
KeptDay(lunar, length) == IF lunar = 30 /\ length = 29 THEN 29 ELSE lunar

LEMMA ObservedInMonth ==
  ASSUME NewMoonsOnTime, NEW jd \in FirstDay..FinalDay, NEW death,
         NEW ly, NEW k, NEW n, NEW at, NEW j, InMonth(jd, ly, k, n, at, j),
         NEW first, first = NewMoonDay(k + j), NEW length, length = NewMoonDay(k + j + 1) - first
  PROVE  /\ first \in Int /\ length \in {29, 30}
         /\ SolarToLunar(jd).month = MonthNumber(j, at)
         /\ SolarToLunar(jd).year = YearAt(ly, j, MonthNumber(j, at))
         /\ SolarToLunar(jd).day = jd - first + 1
         /\ (SolarToLunar(jd).leap <=> j \in at)
         /\ Observes(death, jd) <=> /\ j \notin at /\ MonthNumber(j, at) = death.month
                                    /\ jd - first + 1 = KeptDay(death.day, length)
<1>1. /\ jd \in CalendarDays /\ jd + 1 \in CalendarDays /\ jd \in Int
      /\ jd \in FirstDay..(FinalDay + 1) /\ jd + 1 \in FirstDay..(FinalDay + 1)
  BY SupportedDays
<1>2. PICK m \in 1..12, y \in {ly - 1, ly}, leap \in BOOLEAN, next \in Int :
           /\ first \in Int /\ next = NewMoonDay(k + j + 1)
           /\ first <= jd /\ jd < next /\ next - first \in {29, 30}
           /\ m = MonthNumber(j, at) /\ y = YearAt(ly, j, m) /\ (leap <=> j \in at)
           /\ SolarToLunar(jd) = [day |-> jd - first + 1, month |-> m, year |-> y, leap |-> leap]
           /\ MonthStart(m, y, leap) = first /\ MonthLength(m, y, leap) = next - first
  BY InMonthDate
<1>3. PICK l : l = SolarToLunar(jd)
  OBVIOUS
<1>4. PICK d : d = SolarToLunar(jd + 1)
  OBVIOUS
<1>5. l.day = jd - first + 1 /\ l.month = m /\ l.year = y /\ l.leap = leap
  BY <1>2, <1>3
<1>6. /\ l.day < MonthLength(l.month, l.year, l.leap) => d = [l EXCEPT !.day = l.day + 1]
      /\ ~(l.day < MonthLength(l.month, l.year, l.leap)) => d.day = 1
  BY <1>1, <1>3, <1>4, DatesAdvance
<1>7. MonthLength(l.month, l.year, l.leap) = length /\ length = next - first /\ length \in {29, 30}
  BY <1>2, <1>5
<1>8. l.day = 29 => (d.day = 1 <=> length = 29)
  <2>1. ASSUME l.day = 29, length = 30 PROVE d.day = 30
    <3>1. d = [l EXCEPT !.day = l.day + 1] /\ l.day + 1 = 30
      BY <1>6, <1>7, <2>1
    <3>2. l = [day |-> l.day, month |-> m, year |-> y, leap |-> leap]
      BY <1>2, <1>3, <1>5
    <3> QED
      BY <3>1, <3>2
  <2>2. ASSUME l.day = 29, length = 29 PROVE d.day = 1
    BY <1>6, <1>7, <2>2
  <2> QED
    BY <1>7, <2>1, <2>2
<1>9. LunarOf[jd] = l /\ LunarOf[jd + 1] = d
  BY <1>1, <1>3, <1>4 DEF LunarOf
<1>10. Observes(death, jd) <=> /\ ~l.leap /\ l.month = death.month
                               /\ \/ l.day = death.day
                                  \/ death.day = 30 /\ l.day = 29 /\ d.day = 1
  BY <1>9 DEF Observes
<1>11. l.day \in 1..length
  BY <1>1, <1>2, <1>5, <1>7
<1>12. (l.day = death.day \/ (death.day = 30 /\ l.day = 29 /\ d.day = 1))
         <=> l.day = KeptDay(death.day, length)
  BY <1>7, <1>8, <1>11 DEF KeptDay
<1>13. Observes(death, jd) <=> /\ j \notin at /\ MonthNumber(j, at) = death.month
                               /\ jd - first + 1 = KeptDay(death.day, length)
  BY <1>2, <1>5, <1>10, <1>12
<1>14. (l.leap <=> j \in at) /\ l.month = MonthNumber(j, at) /\ l.year = YearAt(ly, j, MonthNumber(j, at))
  BY <1>2, <1>5
<1>15. first \in Int
  BY <1>2
<1> QED
  BY <1>3, <1>5, <1>7, <1>13, <1>14, <1>15

\* Where a gio of the month m is looked up.
LEMMA GioMonth ==
  ASSUME NEW m \in 1..12, NEW ly \in (MinYear - 1)..MaxYear
  PROVE  \E y \in (MinYear - 1)..(MaxYear + 1), k \in Lunations, n \in {12, 13}, j \in 0..12 :
           /\ MonthsOfYear(y, k, n) /\ j \in 0..(n - 1)
           /\ \E at : /\ at = LeapOffsets(Month11(y - 1), Month11(y))
                     /\ MonthNumber(j, at) = m /\ j \notin at /\ YearAt(y, j, m) = ly
           /\ MonthStart(m, ly, FALSE) = NewMoonDay(k + j)
           /\ MonthLength(m, ly, FALSE) = NewMoonDay(k + j + 1) - NewMoonDay(k + j)
<1>1. PICK y : y = IF m < 11 THEN ly ELSE ly + 1
  OBVIOUS
<1>2. y \in (MinYear - 1)..(MaxYear + 1) /\ ly \in Int
  BY <1>1, TablesAssumption
<1>3. PICK k \in Lunations, n \in {12, 13} : MonthsOfYear(y, k, n)
  BY <1>2, YearsAssumption
<1>4. PICK at : at = LeapOffsets(Month11(y - 1), Month11(y))
  OBVIOUS
<1>5. PICK leap \in BOOLEAN : leap = FALSE
  OBVIOUS
<1>6. (m < 11 => y = ly) /\ (m >= 11 => y = ly + 1)
  BY <1>1
<1>7. PICK j \in 0..(n - 1) : IsRegularMonth(j, m, ly, y, k, at, leap)
  BY <1>2, <1>3, <1>4, <1>5, <1>6, RegularMonth
<1>8. /\ MonthNumber(j, at) = m /\ j \notin at /\ YearAt(y, j, m) = ly
      /\ MonthStart(m, ly, FALSE) = NewMoonDay(k + j)
      /\ MonthLength(m, ly, FALSE) = NewMoonDay(k + j + 1) - NewMoonDay(k + j)
  BY <1>5, <1>7 DEF IsRegularMonth
<1>9. \E a : /\ a = LeapOffsets(Month11(y - 1), Month11(y))
            /\ MonthNumber(j, a) = m /\ j \notin a /\ YearAt(y, j, m) = ly
  BY <1>4, <1>8
<1>10. j \in 0..12
  BY <1>7
<1> QED
  BY <1>2, <1>3, <1>7, <1>8, <1>9, <1>10

LEMMA GioIsDay ==
  ASSUME NEW death, NEW ly
  PROVE  GioOccurrence(death, ly) \subseteq Int
<1> SUFFICES ASSUME NEW jd \in GioOccurrence(death, ly) PROVE jd \in Int
  OBVIOUS
<1>1. PICK m : m = death.month
  OBVIOUS
<1>2. /\ ly \in (MinYear - 1)..MaxYear /\ m \in 1..12 /\ death.day \in 1..30
      /\ jd = MonthStart(m, ly, FALSE) + ObservedDay(death, ly) - 1
  BY <1>1 DEF GioOccurrence, Supported, LunarToSolar
<1>3. m \in 1..12 /\ ly \in (MinYear - 1)..MaxYear
  BY <1>2
<1>4. MonthStart(m, ly, FALSE) \in Int
  <2>1. PICK y \in (MinYear - 1)..(MaxYear + 1), k \in Lunations, n \in {12, 13}, j \in 0..12 :
          /\ MonthsOfYear(y, k, n) /\ j \in 0..(n - 1)
          /\ \E at : /\ at = LeapOffsets(Month11(y - 1), Month11(y))
                    /\ MonthNumber(j, at) = m /\ j \notin at /\ YearAt(y, j, m) = ly
          /\ MonthStart(m, ly, FALSE) = NewMoonDay(k + j)
          /\ MonthLength(m, ly, FALSE) = NewMoonDay(k + j + 1) - NewMoonDay(k + j)
    BY <1>3, GioMonth, Zenon
  <2>2. k + n \in Lunations
    BY <2>1, Zenon DEF MonthsOfYear
  <2> QED
    BY <2>1, <2>2, MonthsInYear, MoonDays
<1>5. ObservedDay(death, ly) \in Int
  <2>1. ObservedDay(death, ly) = 29 \/ ObservedDay(death, ly) = death.day
    BY Zenon DEF ObservedDay
  <2> QED
    BY <1>2, <2>1
<1>6. PICK a \in Int, b \in Int : a = MonthStart(m, ly, FALSE) /\ b = ObservedDay(death, ly)
  BY <1>4, <1>5
<1>7. jd = a + b - 1
  BY <1>2, <1>6, Zenon
<1> QED
  BY <1>7

\* A day on which a gio occurs is the one on which it is observed.
LEMMA GioObserved ==
  ASSUME NewMoonsOnTime, NEW jd \in FirstDay..FinalDay, NEW death, NEW ly,
         jd \in GioOccurrence(death, ly)
  PROVE  /\ Observes(death, jd) /\ SolarToLunar(jd).year = ly
         /\ SolarToLunar(jd).day = ObservedDay(death, ly)
<1>1. PICK m : m = death.month
  OBVIOUS
<1>2. /\ ly \in (MinYear - 1)..MaxYear /\ m \in 1..12 /\ death.day \in 1..30
      /\ jd = MonthStart(m, ly, FALSE) + ObservedDay(death, ly) - 1
  BY <1>1 DEF GioOccurrence, Supported, LunarToSolar
<1>3. PICK y \in (MinYear - 1)..(MaxYear + 1), k \in Lunations, n \in {12, 13}, j \in 0..12 :
           /\ MonthsOfYear(y, k, n) /\ j \in 0..(n - 1)
           /\ \E at : /\ at = LeapOffsets(Month11(y - 1), Month11(y))
                     /\ MonthNumber(j, at) = m /\ j \notin at /\ YearAt(y, j, m) = ly
           /\ MonthStart(m, ly, FALSE) = NewMoonDay(k + j)
           /\ MonthLength(m, ly, FALSE) = NewMoonDay(k + j + 1) - NewMoonDay(k + j)
  BY <1>2, GioMonth, Zenon
<1>4. y \in (MinYear - 1)..(MaxYear + 1) /\ MinYear \in Nat /\ MaxYear \in Nat
  BY <1>3, TablesAssumption
<1>5. MonthsOfYear(y, k, n) /\ j \in 0..(n - 1)
  BY <1>3
<1>6. PICK at : /\ at = LeapOffsets(Month11(y - 1), Month11(y))
                /\ MonthNumber(j, at) = m /\ j \notin at /\ YearAt(y, j, m) = ly
  BY <1>3
<1>7. /\ MonthNumber(j, at) = m /\ j \notin at /\ YearAt(y, j, m) = ly
      /\ MonthStart(m, ly, FALSE) = NewMoonDay(k + j)
      /\ MonthLength(m, ly, FALSE) = NewMoonDay(k + j + 1) - NewMoonDay(k + j)
  BY <1>3, <1>6
<1>8. k + n \in Lunations /\ Month11(y) = NewMoonDay(k + n)
  BY <1>5 DEF MonthsOfYear
<1>9. /\ k + j \in Lunations /\ k + j + 1 \in Lunations
      /\ NewMoonDay(k + j + 1) <= NewMoonDay(k + n)
  BY <1>5, <1>8, MonthsInYear
<1>10. PICK first \in Int, next \in Int : first = NewMoonDay(k + j) /\ next = NewMoonDay(k + j + 1)
  BY <1>9, MoonDays
<1>11. PICK length \in {29, 30} : length = next - first
  BY <1>9, <1>10, ShortGap
<1>12. ObservedDay(death, ly) = KeptDay(death.day, length)
  BY <1>1, <1>7, <1>10, <1>11 DEF ObservedDay, KeptDay
<1>13. KeptDay(death.day, length) \in 1..length
  BY <1>2, <1>11 DEF KeptDay
<1>14. PICK kept \in 1..length : kept = KeptDay(death.day, length)
  BY <1>13
<1>15. jd = first + kept - 1 /\ jd \in Int /\ first <= jd /\ jd < next
  <2>1. MonthStart(m, ly, FALSE) = first
    BY <1>7, <1>10
  <2>2. jd = first + kept - 1
    BY <1>2, <1>12, <1>14, <2>1
  <2> QED
    BY <1>11, <2>2
<1>16. y # MinYear - 1
  <2>1. ASSUME y = MinYear - 1 PROVE FALSE
    <3>1. Month11(y) \in Int /\ Month11(y) <= LastDay(y)
      BY <1>4, <1>5, YearEnds
    <3>2. FirstDay = LastDay(y) + 1 /\ FirstDay \in Nat /\ FirstDay <= jd
      BY <2>1, SupportedDays
    <3>3. LastDay(y) \in Int
      BY <1>4, LastDayInt
    <3> QED
      BY <1>8, <1>9, <1>10, <1>15, <3>1, <3>2, <3>3
  <2> QED
    BY <2>1
<1>17. y \in MinYear..(MaxYear + 1)
  BY <1>4, <1>16
<1>18. InMonth(jd, y, k, n, at, j)
  BY <1>5, <1>6, <1>10, <1>15, <1>17 DEF InMonth
<1>19. /\ SolarToLunar(jd).year = YearAt(y, j, MonthNumber(j, at))
       /\ SolarToLunar(jd).day = jd - first + 1
       /\ Observes(death, jd) <=> /\ j \notin at /\ MonthNumber(j, at) = death.month
                                  /\ jd - first + 1 = KeptDay(death.day, length)
  <2>1. length = NewMoonDay(k + j + 1) - first
    BY <1>10, <1>11
  <2> QED
    BY <1>10, <1>18, <2>1, ObservedInMonth
<1>20. jd - first + 1 = kept
  BY <1>15
<1> QED
  BY <1>1, <1>7, <1>12, <1>14, <1>19, <1>20

\* The first days of the last year belong to the lunar year before.
LEMMA ObservedYear ==
  ASSUME NEW jd \in FirstDay..FinalDay,
         NEW ly, NEW k, NEW n, NEW at, NEW j, InMonth(jd, ly, k, n, at, j)
  PROVE  YearAt(ly, j, MonthNumber(j, at)) \in (MinYear - 1)..MaxYear
<1>1. /\ ly \in MinYear..(MaxYear + 1) /\ k \in Lunations /\ n \in {12, 13} /\ MonthsOfYear(ly, k, n)
      /\ at = LeapOffsets(Month11(ly - 1), Month11(ly))
      /\ j \in 0..(n - 1) /\ jd \in Int /\ NewMoonDay(k + j) <= jd
  BY DEF InMonth
<1>2. /\ ly \in (MinYear - 1)..(MaxYear + 1) /\ ly \in Int /\ MinYear \in Nat /\ MaxYear \in Nat
      /\ k + n \in Lunations /\ Month11(ly - 1) = NewMoonDay(k)
  BY <1>1, TablesAssumption DEF MonthsOfYear
<1>3. PICK m : m = MonthNumber(j, at)
  OBVIOUS
<1>4. YearAt(ly, j, m) \in {ly - 1, ly} /\ (m >= 11 /\ j < 4 => YearAt(ly, j, m) = ly - 1)
  BY <1>2 DEF YearAt
<1>5. CASE ly # MaxYear + 1
  BY <1>1, <1>2, <1>3, <1>4, <1>5
<1>6. CASE ly = MaxYear + 1
  <2>1. /\ LastDay(ly - 1) - 41 <= Month11(ly - 1) /\ Month11(ly - 1) \in Int
    BY <1>1, <1>2, YearEnds
  <2>2. ly - 1 = MaxYear /\ jd <= LastDay(MaxYear) /\ LastDay(MaxYear) \in Nat
    BY <1>2, <1>6, SupportedDays
  <2>3. k + j \in Lunations /\ NewMoonDay(k) + 29 * j <= NewMoonDay(k + j)
    BY <1>1, <1>2, MonthsInYear
  <2>4. NewMoonDay(k + j) \in Int
    BY <2>3, MoonDays
  <2>5. j \in {0, 1}
    BY <1>1, <1>2, <2>1, <2>2, <2>3, <2>4
  <2>6. IsLeapOffset(n, at)
    BY <1>1, <1>2, LeapOffsetsOf
  <2>7. m >= 11
    <3>1. CASE n = 12
      <4>1. at = {}
        BY <2>6, <3>1 DEF IsLeapOffset
      <4> QED
        BY <1>3, <2>5, <4>1 DEF MonthNumber
    <3>2. CASE n = 13
      <4>1. PICK off \in 1..12 : at = {off}
        BY <2>6, <3>2 DEF IsLeapOffset
      <4> QED
        BY <1>3, <2>5, <4>1 DEF MonthNumber
    <3> QED
      BY <1>1, <3>1, <3>2
  <2>8. YearAt(ly, j, m) = ly - 1
    BY <1>4, <2>5, <2>7
  <2> QED
    BY <1>1, <1>2, <1>3, <1>6, <2>8
<1> QED
  BY <1>5, <1>6

\* A gio that is observed on a day occurs on it.
LEMMA ObservedGio ==
  ASSUME NewMoonsOnTime, NEW jd \in FirstDay..FinalDay, NEW death,
         death.day \in 1..30, death.month \in 1..12, Observes(death, jd)
  PROVE  jd \in GioOccurrence(death, SolarToLunar(jd).year)
<1>1. jd \in CalendarDays /\ jd \in Int
  BY SupportedDays
<1>2. PICK ly, k, n, at, j : InMonth(jd, ly, k, n, at, j)
  BY <1>1, DayInMonth
<1>3. PICK m \in 1..12, y \in {ly - 1, ly}, leap \in BOOLEAN, first \in Int, next \in Int :
           /\ first = NewMoonDay(k + j) /\ next = NewMoonDay(k + j + 1)
           /\ first <= jd /\ jd < next /\ next - first \in {29, 30}
           /\ m = MonthNumber(j, at) /\ y = YearAt(ly, j, m) /\ (leap <=> j \in at)
           /\ MonthStart(m, y, leap) = first /\ MonthLength(m, y, leap) = next - first
  BY <1>2, InMonthDate
<1>4. PICK length \in {29, 30} : length = next - first
  BY <1>3
<1>5. /\ SolarToLunar(jd).year = y
      /\ j \notin at /\ m = death.month /\ jd - first + 1 = KeptDay(death.day, length)
  BY <1>2, <1>3, <1>4, ObservedInMonth
<1>6. leap = FALSE
  BY <1>3, <1>5
<1>7. MonthStart(m, y, FALSE) = first /\ MonthLength(m, y, FALSE) = length
  BY <1>3, <1>4, <1>6
<1>8. ObservedDay(death, y) = KeptDay(death.day, length)
  BY <1>5, <1>7 DEF ObservedDay, KeptDay
<1>9. y \in (MinYear - 1)..MaxYear
  BY <1>2, <1>3, ObservedYear
<1>10. PICK kept \in Int : kept = KeptDay(death.day, length)
  BY <1>1, <1>5
<1>11. LunarToSolar([day |-> ObservedDay(death, y), month |-> death.month, year |-> y, leap |-> FALSE])
         = first + kept - 1
  BY <1>5, <1>7, <1>8, <1>10 DEF LunarToSolar
<1>12. first + kept - 1 = jd
  BY <1>1, <1>3, <1>5, <1>10
<1> QED
  BY <1>5, <1>9, <1>11, <1>12 DEF GioOccurrence, Supported

-----------------------------------------------------------------------------
(* The sweep and the calendars.                                            *)

LEMMA DayYear ==
  ASSUME NewMoonsOnTime, NEW jd \in FirstDay..FinalDay
  PROVE  SolarToLunar(jd).year \in Int /\ SolarToLunar(jd).year \in (MinYear - 1)..MaxYear
<1>1. jd \in CalendarDays
  BY SupportedDays
<1>2. PICK ly, k, n, at, j : InMonth(jd, ly, k, n, at, j)
  BY <1>1, DayInMonth
<1>3. SolarToLunar(jd).year = YearAt(ly, j, MonthNumber(j, at))
  BY <1>2, ObservedInMonth
<1>4. SolarToLunar(jd).year \in (MinYear - 1)..MaxYear
  BY <1>2, <1>3, ObservedYear
<1> QED
  BY <1>4

\* A later day is at most a lunar year back, across a new year.
LEMMA YearsInOrder ==
  ASSUME NewMoonsOnTime, NEW a \in FirstDay..FinalDay, NEW b \in FirstDay..FinalDay, a <= b
  PROVE  SolarToLunar(a).year - 1 <= SolarToLunar(b).year
<1>1. /\ a \in CalendarDays /\ b \in CalendarDays /\ a \in Int /\ b \in Int
  BY SupportedDays
<1>2. PICK ly, k, n, at, j : InMonth(a, ly, k, n, at, j)
  BY <1>1, DayInMonth
<1>3. PICK ly2, k2, n2, at2, j2 : InMonth(b, ly2, k2, n2, at2, j2)
  BY <1>1, DayInMonth
<1>4. /\ SolarToLunar(a).year \in {ly - 1, ly} /\ SolarToLunar(b).year \in {ly2 - 1, ly2}
  <2>1. SolarToLunar(a).year = YearAt(ly, j, MonthNumber(j, at))
    BY <1>2, ObservedInMonth
  <2>2. SolarToLunar(b).year = YearAt(ly2, j2, MonthNumber(j2, at2))
    BY <1>3, ObservedInMonth
  <2>3. ly \in Int /\ ly2 \in Int
    BY <1>2, <1>3, TablesAssumption DEF InMonth
  <2> QED
    BY <2>1, <2>2, <2>3 DEF YearAt
<1>5. /\ ly \in (MinYear - 1)..(MaxYear + 1) /\ ly \in Int /\ k \in Lunations /\ n \in {12, 13}
      /\ MonthsOfYear(ly, k, n) /\ j \in 0..(n - 1)
      /\ k + n \in Lunations /\ Month11(ly - 1) = NewMoonDay(k)
      /\ NewMoonDay(k + j) <= a
  BY <1>2, TablesAssumption DEF InMonth, MonthsOfYear
<1>6. /\ ly2 \in (MinYear - 1)..(MaxYear + 1) /\ ly2 \in Int /\ k2 \in Lunations /\ n2 \in {12, 13}
      /\ MonthsOfYear(ly2, k2, n2) /\ j2 \in 0..(n2 - 1)
      /\ k2 + n2 \in Lunations /\ Month11(ly2) = NewMoonDay(k2 + n2)
      /\ b < NewMoonDay(k2 + j2 + 1)
  BY <1>3, TablesAssumption DEF InMonth, MonthsOfYear
<1>7. Month11(ly - 1) <= a /\ Month11(ly - 1) \in Int
  <2>1. k + j \in Lunations /\ NewMoonDay(k) + 29 * j <= NewMoonDay(k + j)
    BY <1>5, MonthsInYear
  <2>2. NewMoonDay(k) \in Int /\ NewMoonDay(k + j) \in Int
    BY <1>5, <2>1, MoonDays
  <2> QED
    BY <1>1, <1>5, <2>1, <2>2
<1>8. b < Month11(ly2) /\ Month11(ly2) \in Int
  <2>1. k2 + j2 + 1 \in Lunations /\ NewMoonDay(k2 + j2 + 1) <= NewMoonDay(k2 + n2)
    BY <1>6, MonthsInYear
  <2>2. NewMoonDay(k2 + n2) \in Int /\ NewMoonDay(k2 + j2 + 1) \in Int
    BY <1>6, <2>1, MoonDays
  <2> QED
    BY <1>1, <1>6, <2>1, <2>2
<1>9. ~(ly2 < ly)
  <2>1. CASE ly2 = ly - 1
    BY <1>1, <1>7, <1>8, <2>1
  <2>2. CASE ly2 < ly - 1
    <3>1. Month11(ly2) <= LastDay(ly2) /\ LastDay(ly - 1) - 41 <= Month11(ly - 1) /\ -2 <= ly2 - 1
      BY <1>5, <1>6, YearEnds
    <3>2. ly2 + 1 \in Int /\ ly - 1 \in Int /\ ly2 + 1 <= ly - 1 /\ -10 <= ly2
      BY <1>5, <1>6, <2>2, <3>1
    <3>3. LastDay(ly2 + 1) <= LastDay(ly - 1)
      BY <3>2, LastDaysGrow
    <3>4. LastDay(ly2) \in Int /\ LastDay(ly2 + 1) - LastDay(ly2) \in {365, 366}
      BY <1>6, <3>2, LastDays
    <3>5. LastDay(ly2 + 1) \in Int /\ LastDay(ly - 1) \in Int
      BY <3>2, LastDayInt
    <3> QED
      BY <1>1, <1>7, <1>8, <3>1, <3>3, <3>4, <3>5
  <2> QED
    BY <1>5, <1>6, <2>1, <2>2
<1> QED
  BY <1>4, <1>5, <1>6, <1>9

LEMMA YearCovered ==
  ASSUME NewMoonsOnTime, NEW a \in FirstDay..FinalDay, NEW b \in FirstDay..FinalDay,
         NEW jd \in a..b
  PROVE  SolarToLunar(jd).year \in LunarYearsCovering(a, b) /\ jd \in FirstDay..FinalDay
<1>1. FirstDay \in Nat /\ FinalDay \in Nat
  BY SupportedDays
<1>2. jd \in FirstDay..FinalDay /\ a <= jd /\ jd <= b
  BY <1>1
<1>3. PICK x, y, z : x = SolarToLunar(a).year /\ y = SolarToLunar(jd).year /\ z = SolarToLunar(b).year
  OBVIOUS
<1>4. x \in Int /\ y \in Int /\ z \in Int /\ y \in (MinYear - 1)..MaxYear
  BY <1>2, <1>3, DayYear
<1>5. x - 1 <= y /\ y - 1 <= z
  BY <1>2, <1>3, YearsInOrder
<1>6. MinYear \in Nat /\ MaxYear \in Nat
  BY TablesAssumption
<1>7. y \in SupportedYears(x - 1, z + 1)
  BY <1>4, <1>5, <1>6 DEF SupportedYears
<1> QED
  BY <1>2, <1>3, <1>7 DEF LunarYearsCovering

\* The sweep takes a day for a gio only if it is observed on that day.
LEMMA SweptIsObserved ==
  ASSUME NewMoonsOnTime, NEW death, NEW jd \in FirstDay..FinalDay,
         GioOccurrencesInRange(death, jd, jd) # {}
  PROVE  Observes(death, jd)
<1>1. PICK d \in GioOccurrencesInRange(death, jd, jd) : TRUE
  OBVIOUS
<1>2. PICK ly : d \in GioOccurrence(death, ly) /\ jd <= d /\ d <= jd
  BY <1>1 DEF GioOccurrencesInRange
<1>3. d \in Int /\ jd \in Int
  BY <1>2, GioIsDay, SupportedDays
<1>4. d = jd
  BY <1>2, <1>3
<1> QED
  BY <1>2, <1>4, GioObserved

\* And whenever one is.
LEMMA ObservedIsSwept ==
  ASSUME NewMoonsOnTime, NEW death, NEW jd \in FirstDay..FinalDay,
         death.day \in 1..30, death.month \in 1..12, Observes(death, jd)
  PROVE  GioOccurrencesInRange(death, jd, jd) # {}
<1>1. PICK ly : ly = SolarToLunar(jd).year
  OBVIOUS
<1>2. jd \in GioOccurrence(death, ly)
  BY <1>1, ObservedGio
<1>3. jd \in jd..jd /\ jd <= jd
  BY SupportedDays
<1>4. ly \in LunarYearsCovering(jd, jd)
  BY <1>1, <1>3, YearCovered
<1>5. jd \in GioOccurrencesInRange(death, jd, jd)
  BY <1>2, <1>3, <1>4 DEF GioOccurrencesInRange
<1> QED
  BY <1>5

LEMMA SweepKeepsGioDates ==
  ASSUME NewMoonsOnTime, NEW jd \in FirstDay..FinalDay
  PROVE  GioDates[jd]
<1>1. ASSUME NEW death \in {Death(n, m) : n \in {1, 29, 30}, m \in 1..12}
      PROVE  (GioOccurrencesInRange(death, jd, jd) # {}) <=> Observes(death, jd)
  <2>1. death.day \in 1..30 /\ death.month \in 1..12
    <3>1. PICK n \in {1, 29, 30}, m \in 1..12 : death = Death(n, m)
      OBVIOUS
    <3> QED
      BY <3>1 DEF Death
  <2> QED
    BY <2>1, SweptIsObserved, ObservedIsSwept
<1> QED
  BY <1>1 DEF GioDates

LEMMA DatesAreInts ==
  ASSUME NEW dd \in Int, NEW mm \in Int, NEW yy \in Int
  PROVE  JdFromDate(dd, mm, yy) \in Int
BY SMT DEF JdFromDate, Floor

LEMMA NextYearIsDay ==
  ASSUME NEW jd \in Int
  PROVE  OneYearFrom(jd) \in Int
<1>1. PICK d : d = JdToDate(jd)
  OBVIOUS
<1>2. d.day \in Int /\ d.month \in Int /\ d.year \in Int
  BY <1>1, SMT DEF JdToDate, Floor
<1>3. PICK dd \in Int, mm \in Int, yy \in Int :
        /\ dd = IF d.month = 2 /\ d.day = 29 THEN 28 ELSE d.day
        /\ mm = d.month /\ yy = d.year + 1
  BY <1>2
<1>4. OneYearFrom(jd) = JdFromDate(dd, mm, yy)
  BY <1>1, <1>3, Zenon DEF OneYearFrom
<1> QED
  BY <1>4, DatesAreInts

LEMMA WindowDays ==
  ASSUME NEW today \in FirstDay..FinalDay, NEW w \in Windows(today), ValidWindow(w)
  PROVE  w[1] \in FirstDay..FinalDay /\ w[2] \in FirstDay..FinalDay
<1>1. /\ today \in Int /\ FirstDay \in Nat /\ FinalDay \in Nat
      /\ FirstDay = LastDay(MinYear - 1) + 1 /\ FinalDay = LastDay(MaxYear)
      /\ MinYear \in Nat /\ MaxYear \in Nat
  BY SupportedDays, TablesAssumption
<1>2. w[1] <= w[2] /\ JdToDate(w[2]).year <= MaxYear
  BY DEF ValidWindow
<1>3. CASE w = <<today, OneYearFrom(today)>>
  <2>1. PICK a \in Int, b \in Int : a = w[1] /\ b = w[2] /\ a = today
    BY <1>1, <1>3, NextYearIsDay
  <2>2. b \in Nat
    BY <1>1, <1>2, <2>1
  <2>3. PICK yy \in Int : yy = JdToDate(b).year /\ b <= LastDay(yy)
    BY <2>2, YearOfDay
  <2>4. LastDay(yy) <= LastDay(MaxYear) /\ LastDay(yy) \in Int
    BY <1>1, <1>2, <2>1, <2>3, LastDaysGrow, LastDayInt
  <2> QED
    BY <1>1, <1>2, <2>1, <2>3, <2>4
<1>4. CASE w # <<today, OneYearFrom(today)>>
  <2>1. PICK yy \in MinYear..MaxYear : w = <<JdFromDate(1, 1, yy), JdFromDate(31, 12, yy)>>
    BY <1>4, Zenon DEF Windows
  <2>2. yy \in Int /\ yy - 1 \in Int /\ -10 <= yy - 1 /\ (yy - 1) + 1 = yy /\ MinYear - 1 <= yy - 1 /\ yy <= MaxYear
        /\ MinYear - 1 \in Int
    BY <1>1, <2>1
  <2>3. JdFromDate(1, 1, (yy - 1) + 1) = LastDay(yy - 1) + 1
    BY <2>2, LastDays
  <2>4. w[1] = LastDay(yy - 1) + 1 /\ w[2] = LastDay(yy)
    BY <2>1, <2>2, <2>3 DEF LastDay
  <2>5. LastDay(MinYear - 1) <= LastDay(yy - 1) /\ LastDay(yy) <= LastDay(MaxYear)
    BY <1>1, <2>2, LastDaysGrow
  <2>6. LastDay(MinYear - 1) \in Int /\ LastDay(yy - 1) \in Int /\ LastDay(yy) \in Int
    BY <2>2, LastDayInt
  <2> QED
    BY <1>1, <1>2, <2>4, <2>5, <2>6
<1> QED
  BY <1>3, <1>4

\* The items of a calendar, one by one.
LEMMA ItemsOf ==
  ASSUME NEW deathOf, NEW w, NEW x
  PROVE  x \in ItemsFor(deathOf, w) <=>
           \E p \in DOMAIN deathOf, ly \in LunarYearsCovering(w[1], w[2]) :
             \E d \in GioOccurrence(deathOf[p], ly) \cap w[1]..w[2] :
               x = Item(p, deathOf[p], ly, d, ObservedDay(deathOf[p], ly))
BY DEF ItemsFor

\* They are the days on which a gio is observed.
LEMMA ItemsObserved ==
  ASSUME NewMoonsOnTime, NEW deaths, \A p \in deaths : p.day \in 1..30 /\ p.month \in 1..12,
         NEW w, w[1] \in FirstDay..FinalDay, w[2] \in FirstDay..FinalDay, NEW x
  PROVE  x \in ItemsFor([death \in deaths |-> death], w) <=>
           \E p \in deaths, d \in w[1]..w[2] :
             Observes(p, d) /\ x = Item(p, p, LunarOf[d].year, d, LunarOf[d].day)
<1>1. PICK deathOf : deathOf = [death \in deaths |-> death]
  OBVIOUS
<1>2. DOMAIN deathOf = deaths /\ \A p \in deaths : deathOf[p] = p
  BY <1>1
<1>3. ASSUME NEW d \in w[1]..w[2]
      PROVE  /\ d \in FirstDay..FinalDay /\ LunarOf[d] = SolarToLunar(d)
             /\ SolarToLunar(d).year \in LunarYearsCovering(w[1], w[2])
  <2>1. d \in FirstDay..FinalDay /\ SolarToLunar(d).year \in LunarYearsCovering(w[1], w[2])
    BY YearCovered
  <2>2. d \in FirstDay..(FinalDay + 1)
    BY <2>1, SupportedDays
  <2> QED
    BY <2>1, <2>2 DEF LunarOf
<1>4. ASSUME x \in ItemsFor(deathOf, w)
      PROVE  \E p \in deaths, d \in w[1]..w[2] :
               Observes(p, d) /\ x = Item(p, p, LunarOf[d].year, d, LunarOf[d].day)
  <2>1. PICK p \in deaths, ly \in LunarYearsCovering(w[1], w[2]) :
             \E d \in GioOccurrence(deathOf[p], ly) \cap w[1]..w[2] :
               x = Item(p, deathOf[p], ly, d, ObservedDay(deathOf[p], ly))
    BY <1>2, <1>4, ItemsOf
  <2>2. PICK d \in w[1]..w[2] : /\ d \in GioOccurrence(deathOf[p], ly)
                                /\ x = Item(p, deathOf[p], ly, d, ObservedDay(deathOf[p], ly))
    BY <2>1
  <2>3. d \in GioOccurrence(p, ly) /\ x = Item(p, p, ly, d, ObservedDay(p, ly))
    BY <1>2, <2>2
  <2>4. Observes(p, d) /\ SolarToLunar(d).year = ly /\ SolarToLunar(d).day = ObservedDay(p, ly)
    BY <1>3, <2>3, GioObserved
  <2>5. x = Item(p, p, LunarOf[d].year, d, LunarOf[d].day)
    BY <1>3, <2>3, <2>4
  <2> QED
    BY <2>4, <2>5
<1>5. ASSUME NEW p \in deaths, NEW d \in w[1]..w[2], Observes(p, d),
             x = Item(p, p, LunarOf[d].year, d, LunarOf[d].day)
      PROVE  x \in ItemsFor(deathOf, w)
  <2>1. PICK ly : ly = SolarToLunar(d).year
    OBVIOUS
  <2>2. d \in GioOccurrence(p, ly)
    BY <1>3, <1>5, <2>1, ObservedGio
  <2>3. SolarToLunar(d).day = ObservedDay(p, ly)
    BY <1>3, <2>2, GioObserved
  <2>4. x = Item(p, p, ly, d, ObservedDay(p, ly))
    BY <1>3, <1>5, <2>1, <2>3
  <2>5. /\ ly \in LunarYearsCovering(w[1], w[2]) /\ p \in DOMAIN deathOf
        /\ d \in GioOccurrence(deathOf[p], ly) \cap w[1]..w[2]
        /\ x = Item(p, deathOf[p], ly, d, ObservedDay(deathOf[p], ly))
    BY <1>2, <1>3, <2>1, <2>2, <2>4
  <2> QED
    BY <2>5, ItemsOf
<1> QED
  BY <1>1, <1>4, <1>5

LEMMA CalendarKeepsGioDates ==
  ASSUME NewMoonsOnTime, NEW today \in FirstDay..FinalDay,
         NEW w \in Windows(today), ValidWindow(w)
  PROVE  CalendarHolds[w]
<1>1. \A p \in DeathsAsked : p.day \in 1..30 /\ p.month \in 1..12
  BY DEF Death, DeathsAsked
<1>2. w[1] \in FirstDay..FinalDay /\ w[2] \in FirstDay..FinalDay
  BY WindowDays
<1> DEFINE observed == {Item(g[1], g[1], LunarOf[g[2]].year, g[2], LunarOf[g[2]].day) :
                          g \in {h \in DeathsAsked \X (w[1]..w[2]) : Observes(h[1], h[2])}}
<1>3. ASSUME NEW x
      PROVE  x \in observed <=> \E p \in DeathsAsked, d \in w[1]..w[2] :
                 Observes(p, d) /\ x = Item(p, p, LunarOf[d].year, d, LunarOf[d].day)
  <2>1. ASSUME x \in observed
        PROVE  \E p \in DeathsAsked, d \in w[1]..w[2] :
                 Observes(p, d) /\ x = Item(p, p, LunarOf[d].year, d, LunarOf[d].day)
    <3>1. PICK g \in DeathsAsked \X (w[1]..w[2]) :
            Observes(g[1], g[2]) /\ x = Item(g[1], g[1], LunarOf[g[2]].year, g[2], LunarOf[g[2]].day)
      BY <2>1
    <3>2. g[1] \in DeathsAsked /\ g[2] \in w[1]..w[2]
      OBVIOUS
    <3> QED
      BY <3>1, <3>2
  <2>2. ASSUME NEW p \in DeathsAsked, NEW d \in w[1]..w[2],
               Observes(p, d), x = Item(p, p, LunarOf[d].year, d, LunarOf[d].day)
        PROVE  x \in observed
    <3>1. <<p, d>> \in {h \in DeathsAsked \X (w[1]..w[2]) : Observes(h[1], h[2])}
      BY <2>2
    <3>2. <<p, d>>[1] = p /\ <<p, d>>[2] = d
      OBVIOUS
    <3> QED
      BY <2>2, <3>1, <3>2
  <2> QED
    BY <2>1, <2>2
<1>4. ItemsFor([death \in DeathsAsked |-> death], w) = observed
  <2> HIDE DEF observed
  <2>1. \A x : x \in ItemsFor([death \in DeathsAsked |-> death], w) <=> x \in observed
    BY <1>1, <1>2, <1>3, ItemsObserved
  <2> QED
    BY <2>1
<1>5. w \in {v \in UNION {Windows(d) : d \in FirstDay..FinalDay} : ValidWindow(v)}
  OBVIOUS
<1> QED
  BY <1>4, <1>5 DEF CalendarHolds

-----------------------------------------------------------------------------
(* Nobody is reminded twice.                                               *)

KeysIn(pushes) == {p.key : p \in pushes}

RunOK(q) ==
  /\ {"todo", "sending", "results", "touched"} \subseteq DOMAIN q
  /\ \A a, b \in q.todo : a.key = b.key => a = b
  /\ \A a, b \in q.sending : a = b
  /\ \A a \in q.todo, b \in q.sending : a.key # b.key

RunsOK == \A r \in DOMAIN run : RunOK(run[r])

HeldOnce == \A q, r \in DOMAIN run : q # r => Holds(q) \cap Holds(r) \subseteq excused

Taken(k) == At(accepted, k, 0)

Counted ==
  \A r \in DOMAIN run :
    /\ \A k \in KeysIn(run[r].todo) \ excused : Taken(k) = 0
    /\ \A k \in KeysIn(run[r].sending) \ excused :
         Taken(k) = IF Took(run[r].results) THEN 1 ELSE 0

Gone(k) == k[1] = "appointment" /\ k[2] \in Appts /\ appt[k[2]].state = "gone"
BeingLogged(k) ==
  \E r \in DOMAIN run : k \in KeysIn(run[r].sending) /\ Took(run[r].results)
Remembered == \A k : Taken(k) # 0 /\ k \notin excused => Logged(k) = "sent" \/ BeingLogged(k) \/ Gone(k)

AtMostOnce == \A k : k \in excused \/ Taken(k) \in {0, 1}

OInv == RunsOK /\ HeldOnce /\ Counted /\ Remembered /\ AtMostOnce

LEMMA WithAt ==
  ASSUME NEW f, NEW key, NEW value, NEW k, NEW default
  PROVE  At(With(f, key, value), k, default) = IF k = key THEN value ELSE At(f, k, default)
BY DEF With, At

LEMMA HoldsKeys == \A r : Holds(r) = KeysIn(run[r].todo) \cup KeysIn(run[r].sending)
BY DEF Holds, KeysIn

LEMMA HoldsKeysNext == \A r : Holds(r)' = KeysIn(run'[r].todo) \cup KeysIn(run'[r].sending)
BY DEF Holds, KeysIn

LEMMA InitOnce == Init => OInv
<1> SUFFICES ASSUME Init PROVE OInv
  OBVIOUS
<1>1. \A r \in DOMAIN run : run[r] = IdleRun
  BY DEF Init
<1>2. accepted = << >> /\ \A k : Taken(k) = 0
  BY DEF Init, Taken, At
<1>3. RunsOK /\ HeldOnce /\ Counted
  BY <1>1 DEF RunsOK, RunOK, HeldOnce, Counted, Holds, KeysIn, IdleRun
<1> QED
  BY <1>2, <1>3 DEF OInv, Remembered, AtMostOnce

(* The runs go on as they were, and what has gone stays gone.              *)
LEMMA SteadyOnce ==
  ASSUME OInv, accepted' = accepted, excused' = excused, DOMAIN run' = DOMAIN run,
         \A r \in DOMAIN run :
           /\ run'[r].todo = run[r].todo /\ run'[r].sending = run[r].sending
           /\ run'[r].results = run[r].results
           /\ {"todo", "sending", "results", "touched"} \subseteq DOMAIN run'[r],
         \A k : Gone(k) => Gone(k)',
         \A k : Logged(k) = "sent" => Logged(k)' = "sent" \/ Gone(k)'
  PROVE  OInv'
<1>1. RunsOK /\ HeldOnce /\ Counted /\ Remembered /\ AtMostOnce
  BY DEF OInv
<1>2. \A k : Taken(k)' = Taken(k)
  BY DEF Taken
<1>3. RunsOK'
  BY <1>1 DEF RunsOK, RunOK
<1>4. HeldOnce'
  BY <1>1, HoldsKeys, HoldsKeysNext DEF HeldOnce
<1>5. Counted'
  BY <1>1, <1>2 DEF Counted
<1>6. \A k : BeingLogged(k) => BeingLogged(k)'
  BY DEF BeingLogged
<1>7. Remembered'
  BY <1>1, <1>2, <1>6 DEF Remembered
<1>8. AtMostOnce'
  BY <1>1, <1>2 DEF AtMostOnce
<1> QED
  BY <1>3, <1>4, <1>5, <1>7, <1>8 DEF OInv

(* One run lets go of what it is sending, and maybe of its list: the key   *)
(* was excused or logged.                                                  *)
LEMMA EndOnce ==
  ASSUME OInv, accepted' = accepted, excused \subseteq excused', appt' = appt,
         NEW r \in DOMAIN run, NEW q,
         {"todo", "sending", "results", "touched"} \subseteq DOMAIN q,
         q.todo \subseteq run[r].todo, q.sending = {}, run' = [run EXCEPT ![r] = q],
         \A k : /\ k \notin excused' /\ Taken(k) # 0
                /\ Logged(k) = "sent" \/ k \in KeysIn(run[r].sending)
                => Logged(k)' = "sent"
  PROVE  OInv'
<1>1. RunsOK /\ HeldOnce /\ Counted /\ Remembered /\ AtMostOnce
  BY DEF OInv
<1>2. \A k : Taken(k)' = Taken(k)
  BY DEF Taken
<1>3. DOMAIN run' = DOMAIN run /\ \A s \in DOMAIN run : run'[s] = IF s = r THEN q ELSE run[s]
  OBVIOUS
<1>4. \A s \in DOMAIN run : /\ KeysIn(run'[s].todo) \subseteq KeysIn(run[s].todo)
                            /\ KeysIn(run'[s].sending) \subseteq KeysIn(run[s].sending)
  BY <1>3 DEF KeysIn
<1>5. RunsOK'
  BY <1>1, <1>3 DEF RunsOK, RunOK
<1>6. HeldOnce'
  BY <1>1, <1>3, <1>4, HoldsKeys, HoldsKeysNext DEF HeldOnce
<1>7. Counted'
  BY <1>1, <1>2, <1>3, <1>4 DEF Counted, KeysIn
<1>8. ASSUME NEW k, Taken(k)' # 0, k \notin excused'
      PROVE  Logged(k)' = "sent" \/ BeingLogged(k)' \/ Gone(k)'
  <2>1. Logged(k) = "sent" \/ BeingLogged(k) \/ Gone(k)
    BY <1>1, <1>2, <1>8 DEF Remembered
  <2>2. CASE BeingLogged(k)
    <3>1. PICK s \in DOMAIN run : k \in KeysIn(run[s].sending) /\ Took(run[s].results)
      BY <2>2 DEF BeingLogged
    <3>2. CASE s = r
      BY <1>2, <1>8, <3>1, <3>2
    <3>3. CASE s # r
      BY <1>3, <3>1, <3>3 DEF BeingLogged
    <3> QED
      BY <3>2, <3>3
  <2> QED
    BY <1>2, <1>8, <2>1, <2>2 DEF Gone
<1>9. Remembered' /\ AtMostOnce'
  BY <1>1, <1>2, <1>8 DEF Remembered, AtMostOnce
<1> QED
  BY <1>5, <1>6, <1>7, <1>9 DEF OInv

LEMMA StartOnce ==
  ASSUME OInv, NEW r \in DOMAIN run, NEW pushes, Start(r, pushes),
         \A a, b \in pushes : a.key = b.key => a = b,
         \A a \in pushes : ~Gone(a.key)
  PROVE  OInv'
<1>1. RunsOK /\ HeldOnce /\ Counted /\ Remembered /\ AtMostOnce
  BY DEF OInv
<1>2. PICK todo : todo = {p \in pushes : ~Already(p.key)}
  OBVIOUS
<1>3. PICK q : q = [run[r] EXCEPT !.todo = todo]
  OBVIOUS
<1>4. /\ run[r] = IdleRun /\ run' = [run EXCEPT ![r] = q]
      /\ accepted' = accepted /\ log' = log /\ appt' = appt
      /\ excused' = excused \cup UNION {Holds(s) \cap KeysIn(todo) : s \in DOMAIN run \ {r}}
  BY <1>2, <1>3 DEF Start, KeysIn
<1>5. /\ q.todo = todo /\ q.sending = {}
      /\ {"todo", "sending", "results", "touched"} \subseteq DOMAIN q
  BY <1>3, <1>4 DEF IdleRun
<1>6. DOMAIN run' = DOMAIN run /\ \A s \in DOMAIN run : run'[s] = IF s = r THEN q ELSE run[s]
  BY <1>4
<1>7. \A k : Taken(k)' = Taken(k)
  BY <1>4 DEF Taken
<1>8. RunsOK'
  BY <1>1, <1>2, <1>5, <1>6 DEF RunsOK, RunOK
<1>9. \A s \in DOMAIN run : s # r => Holds(s) \cap KeysIn(todo) \subseteq excused'
  BY <1>4
<1>10. Holds(r)' = KeysIn(todo) /\ \A s \in DOMAIN run : s # r => Holds(s)' = Holds(s)
  BY <1>5, <1>6, HoldsKeys, HoldsKeysNext DEF KeysIn
<1>11. HeldOnce'
  BY <1>1, <1>4, <1>6, <1>9, <1>10 DEF HeldOnce
<1>12. ASSUME NEW k \in KeysIn(todo) \ excused' PROVE Taken(k) = 0
  <2>1. PICK p \in pushes : p.key = k /\ ~Already(p.key)
    BY <1>2 DEF KeysIn
  <2>2. Logged(k) # "sent" /\ ~Gone(k) /\ k \notin excused
    BY <1>4, <2>1 DEF Already
  <2>3. ~BeingLogged(k)
    BY <1>4, <1>9, <1>12, HoldsKeys DEF BeingLogged, IdleRun, KeysIn
  <2> QED
    BY <1>1, <2>2, <2>3 DEF Remembered
<1>13. Counted'
  <2>1. ASSUME NEW s \in DOMAIN run
        PROVE  /\ \A k \in KeysIn(run'[s].todo) \ excused' : Taken(k) = 0
               /\ \A k \in KeysIn(run'[s].sending) \ excused' :
                    Taken(k) = IF Took(run'[s].results) THEN 1 ELSE 0
    <3>1. CASE s = r
      BY <1>5, <1>6, <1>12, <3>1 DEF KeysIn
    <3>2. CASE s # r
      BY <1>1, <1>4, <1>6, <3>2 DEF Counted
    <3> QED
      BY <3>1, <3>2
  <2> QED
    BY <1>6, <1>7, <2>1 DEF Counted
<1>14. \A k : BeingLogged(k) => BeingLogged(k)'
  BY <1>4, <1>6 DEF BeingLogged, IdleRun, KeysIn
<1>15. \A k : Logged(k)' = Logged(k) /\ Gone(k)' = Gone(k)
  BY <1>4 DEF Logged, Gone
<1>16. Remembered' /\ AtMostOnce'
  BY <1>1, <1>4, <1>7, <1>14, <1>15 DEF Remembered, AtMostOnce
<1> QED
  BY <1>8, <1>11, <1>13, <1>16 DEF OInv

LEMMA SendOnce == ASSUME OInv, NEW r \in DOMAIN run, Send(r) PROVE OInv'
<1>1. RunsOK /\ HeldOnce /\ Counted /\ Remembered /\ AtMostOnce
  BY DEF OInv
<1>2. PICK p \in run[r].todo : \E results \in Answers(p.tokens) :
        /\ run[r].sending = {}
        /\ run' = [run EXCEPT ![r].todo = @ \ {p}, ![r].sending = {p}, ![r].results = results]
        /\ accepted' = IF Delivered(results)
                       THEN With(accepted, p.key, IF At(accepted, p.key, 0) = 0 THEN 1 ELSE 2)
                       ELSE accepted
        /\ log' = log /\ appt' = appt /\ excused' = excused
  BY DEF Send
<1>3. PICK results : 
        /\ run[r].sending = {}
        /\ run' = [run EXCEPT ![r].todo = @ \ {p}, ![r].sending = {p}, ![r].results = results]
        /\ accepted' = IF Delivered(results)
                       THEN With(accepted, p.key, IF At(accepted, p.key, 0) = 0 THEN 1 ELSE 2)
                       ELSE accepted
        /\ log' = log /\ appt' = appt /\ excused' = excused
  BY <1>2
<1>4. PICK q : q = [run[r] EXCEPT !.todo = @ \ {p}, !.sending = {p}, !.results = results]
  OBVIOUS
<1>5. /\ q.todo = run[r].todo \ {p} /\ q.sending = {p} /\ q.results = results
      /\ {"todo", "sending", "results", "touched"} \subseteq DOMAIN q
  BY <1>1, <1>4 DEF RunsOK, RunOK
<1>6. DOMAIN run' = DOMAIN run /\ \A s \in DOMAIN run : run'[s] = IF s = r THEN q ELSE run[s]
  BY <1>3, <1>4
<1>7. RunsOK'
  BY <1>1, <1>5, <1>6 DEF RunsOK, RunOK
<1>8. \A s \in DOMAIN run : Holds(s)' \subseteq Holds(s)
  BY <1>5, <1>6, HoldsKeys, HoldsKeysNext DEF KeysIn
<1>9. HeldOnce'
  BY <1>1, <1>3, <1>6, <1>8 DEF HeldOnce
<1>10. \A k : k # p.key => Taken(k)' = Taken(k)
  BY <1>3, WithAt DEF Taken
<1>11. p.key \notin excused => Taken(p.key) = 0 /\ Taken(p.key)' = IF Took(results) THEN 1 ELSE 0
  <2>1. p.key \notin excused => Taken(p.key) = 0
    BY <1>1 DEF Counted, KeysIn
  <2> QED
    BY <1>3, <2>1, WithAt DEF Taken, Took
<1>12. p.key \in Holds(r) /\ p.key \notin KeysIn(q.todo)
  BY <1>1, <1>5, HoldsKeys DEF RunsOK, RunOK, KeysIn
<1>13. \A s \in DOMAIN run : s # r /\ p.key \in Holds(s) => p.key \in excused
  BY <1>1, <1>12 DEF HeldOnce
<1>14. Counted'
  <2>1. ASSUME NEW s \in DOMAIN run
        PROVE  /\ \A k \in KeysIn(run'[s].todo) \ excused : Taken(k)' = 0
               /\ \A k \in KeysIn(run'[s].sending) \ excused :
                    Taken(k)' = IF Took(run'[s].results) THEN 1 ELSE 0
    <3>1. CASE s = r
      <4>1. run'[s] = q /\ KeysIn(q.todo) \subseteq KeysIn(run[r].todo) /\ KeysIn(q.sending) = {p.key}
        BY <1>5, <1>6, <3>1 DEF KeysIn
      <4> QED
        BY <1>1, <1>5, <1>10, <1>11, <1>12, <4>1 DEF Counted
    <3>2. CASE s # r
      BY <1>1, <1>6, <1>10, <1>13, <3>2, HoldsKeys DEF Counted
    <3> QED
      BY <3>1, <3>2
  <2> QED
    BY <1>3, <1>6, <2>1 DEF Counted
<1>15. \A k : BeingLogged(k) => BeingLogged(k)'
  BY <1>3, <1>6 DEF BeingLogged, KeysIn
<1>16. \A k : Logged(k)' = Logged(k) /\ Gone(k)' = Gone(k)
  BY <1>3 DEF Logged, Gone
<1>17. ASSUME NEW k, k \notin excused
       PROVE  /\ Taken(k)' \in {0, 1}
              /\ Taken(k)' # 0 => Logged(k)' = "sent" \/ BeingLogged(k)' \/ Gone(k)'
  <2>1. CASE k = p.key
    <3>1. Took(results) => BeingLogged(k)'
      BY <1>5, <1>6, <2>1 DEF BeingLogged, KeysIn
    <3> QED
      BY <1>11, <1>17, <2>1, <3>1
  <2>2. CASE k # p.key
    BY <1>1, <1>10, <1>15, <1>16, <1>17, <2>2 DEF Remembered, AtMostOnce
  <2> QED
    BY <2>1, <2>2
<1>18. Remembered' /\ AtMostOnce'
  BY <1>3, <1>17 DEF Remembered, AtMostOnce
<1> QED
  BY <1>7, <1>9, <1>14, <1>18 DEF OInv

LEMMA Next1Run ==
  ASSUME OInv, NEW r \in DOMAIN run
  PROVE  /\ {"todo", "sending", "results", "touched"} \subseteq DOMAIN Next1(r)
         /\ Next1(r).todo \subseteq run[r].todo /\ Next1(r).sending = {}
BY DEF Next1, IdleRun, OInv, RunsOK, RunOK

LEMMA RecordOnce == ASSUME OInv, NEW r \in DOMAIN run, Record(r) PROVE OInv'
<1>1. PICK p \in run[r].sending :
        /\ log' = With(log, p.key, IF Took(run[r].results) THEN "sent" ELSE "failed")
        /\ run' = [run EXCEPT ![r] = Next1(r)]
        /\ appt' = appt /\ accepted' = accepted /\ excused' = excused
  BY DEF Record
<1>2. PICK q : q = Next1(r)
  OBVIOUS
<1>3. KeysIn(run[r].sending) = {p.key}
  BY DEF OInv, RunsOK, RunOK, KeysIn
<1>4. \A k : Logged(k)' = IF k = p.key THEN IF Took(run[r].results) THEN "sent" ELSE "failed"
                                       ELSE Logged(k)
  BY <1>1, WithAt DEF Logged
<1>5. \A k : /\ k \notin excused /\ Taken(k) # 0
             /\ Logged(k) = "sent" \/ k \in KeysIn(run[r].sending)
             => Logged(k)' = "sent"
  BY <1>3, <1>4 DEF OInv, Counted
<1>6. /\ {"todo", "sending", "results", "touched"} \subseteq DOMAIN q
      /\ q.todo \subseteq run[r].todo /\ q.sending = {} /\ run' = [run EXCEPT ![r] = q]
  BY <1>1, <1>2, Next1Run
<1>7. accepted' = accepted /\ appt' = appt /\ excused' = excused
  BY <1>1
<1> QED
  BY <1>5, <1>6, <1>7, EndOnce

LEMMA UnloggedOnce ==
  ASSUME OInv, NEW r \in DOMAIN run, RecordRefused(r) \/ RecordFails(r)
  PROVE  OInv'
<1>1. PICK p \in run[r].sending :
        /\ excused' = excused \cup {p.key} /\ run' = [run EXCEPT ![r] = Next1(r)]
        /\ appt' = appt /\ accepted' = accepted /\ log' = log
  BY DEF RecordRefused, RecordFails, Unlogged
<1>2. PICK q : q = Next1(r)
  OBVIOUS
<1>3. KeysIn(run[r].sending) = {p.key}
  BY DEF OInv, RunsOK, RunOK, KeysIn
<1>4. \A k : k \notin excused' /\ (Logged(k) = "sent" \/ k \in KeysIn(run[r].sending))
             => Logged(k)' = "sent"
  BY <1>1, <1>3 DEF Logged
<1>5. /\ {"todo", "sending", "results", "touched"} \subseteq DOMAIN q
      /\ q.todo \subseteq run[r].todo /\ q.sending = {} /\ run' = [run EXCEPT ![r] = q]
  BY <1>1, <1>2, Next1Run
<1>6. accepted' = accepted /\ appt' = appt /\ excused \subseteq excused'
  BY <1>1
<1> QED
  BY <1>4, <1>5, <1>6, EndOnce

LEMMA StopOnce == ASSUME OInv, NEW r \in DOMAIN run, Stop(r) PROVE OInv'
<1>1. /\ excused' = excused \cup KeysIn(run[r].sending) /\ run' = [run EXCEPT ![r] = IdleRun]
      /\ appt' = appt /\ accepted' = accepted /\ log' = log
  BY DEF Stop, KeysIn
<1>2. PICK q : q = IdleRun
  OBVIOUS
<1>3. \A k : k \notin excused' /\ (Logged(k) = "sent" \/ k \in KeysIn(run[r].sending))
             => Logged(k)' = "sent"
  BY <1>1 DEF Logged
<1>4. /\ {"todo", "sending", "results", "touched"} \subseteq DOMAIN q
      /\ q.todo \subseteq run[r].todo /\ q.sending = {} /\ run' = [run EXCEPT ![r] = q]
  BY <1>1, <1>2 DEF IdleRun
<1>5. accepted' = accepted /\ appt' = appt /\ excused \subseteq excused'
  BY <1>1
<1> QED
  BY <1>3, <1>4, <1>5, EndOnce

-----------------------------------------------------------------------------
(* What a run collects: one push a key, and no appointment that has gone.  *)

LEMMA GioPushed ==
  ASSUME NEW a \in GioPushes
  PROVE  \E u \in Users : \E p \in Followed(u, DueOn(day + before)) :
           a = Push(GioKey(p, u, day + before), u, ActiveTokens(u))
BY DEF GioPushes

LEMMA GioPushesKeyed ==
  /\ \A a, b \in GioPushes : a.key = b.key => a = b
  /\ \A a \in GioPushes : ~Gone(a.key)
<1>1. ASSUME NEW a \in GioPushes, NEW b \in GioPushes, a.key = b.key PROVE a = b
  <2>1. PICK p, u : a = Push(GioKey(p, u, day + before), u, ActiveTokens(u))
    BY GioPushed
  <2>2. PICK q, v : b = Push(GioKey(q, v, day + before), v, ActiveTokens(v))
    BY GioPushed
  <2>3. a.key = GioKey(p, u, day + before) /\ b.key = GioKey(q, v, day + before)
    BY <2>1, <2>2 DEF Push
  <2>4. a.key[2] = p /\ a.key[3] = u /\ b.key[2] = q /\ b.key[3] = v
    BY <2>3 DEF GioKey
  <2> QED
    BY <1>1, <2>1, <2>2, <2>4
<1>2. ASSUME NEW a \in GioPushes PROVE ~Gone(a.key)
  <2>1. PICK p, u : a = Push(GioKey(p, u, day + before), u, ActiveTokens(u))
    BY GioPushed
  <2>2. a.key[1] = "gio"
    BY <2>1 DEF Push, GioKey
  <2> QED
    BY <2>2 DEF Gone
<1> QED
  BY <1>1, <1>2

LEMMA ApptPushesKeyed ==
  /\ \A a, b \in ApptPushes : a.key = b.key => a = b
  /\ \A a \in ApptPushes : ~Gone(a.key)
<1>1. \A a \in ApptPushes : \E m \in Appts :
        /\ InWindow(m)
        /\ a = Push(ApptKey(m, day), appt[m].owner, ActiveTokens(appt[m].owner))
  BY DEF ApptPushes
<1>2. ASSUME NEW a \in ApptPushes, NEW b \in ApptPushes, a.key = b.key PROVE a = b
  <2>1. PICK m : a = Push(ApptKey(m, day), appt[m].owner, ActiveTokens(appt[m].owner))
    BY <1>1
  <2>2. PICK n : b = Push(ApptKey(n, day), appt[n].owner, ActiveTokens(appt[n].owner))
    BY <1>1
  <2>3. a.key = ApptKey(m, day) /\ b.key = ApptKey(n, day)
    BY <2>1, <2>2 DEF Push
  <2>4. a.key[2] = m /\ b.key[2] = n
    BY <2>3 DEF ApptKey
  <2> QED
    BY <1>2, <2>1, <2>2, <2>4
<1>3. ASSUME NEW a \in ApptPushes PROVE ~Gone(a.key)
  <2>1. PICK m \in Appts :
          InWindow(m) /\ a = Push(ApptKey(m, day), appt[m].owner, ActiveTokens(appt[m].owner))
    BY <1>1
  <2>2. a.key[2] = m
    BY <2>1 DEF Push, ApptKey
  <2> QED
    BY <2>1, <2>2 DEF Gone, InWindow
<1> QED
  BY <1>2, <1>3

-----------------------------------------------------------------------------
(* What happens meanwhile.                                                 *)

LEMMA TouchKeeps ==
  ASSUME OInv, NEW us, Touch(us)
  PROVE  /\ DOMAIN run' = DOMAIN run
         /\ \A r \in DOMAIN run :
              /\ run'[r].todo = run[r].todo /\ run'[r].sending = run[r].sending
              /\ run'[r].results = run[r].results
              /\ {"todo", "sending", "results", "touched"} \subseteq DOMAIN run'[r]
              /\ run[r] # IdleRun => run'[r].touched = run[r].touched \cup us
<1>1. DOMAIN run' = DOMAIN run
  BY DEF Touch
<1>2. ASSUME NEW r \in DOMAIN run
      PROVE  /\ run'[r].todo = run[r].todo /\ run'[r].sending = run[r].sending
             /\ run'[r].results = run[r].results
             /\ {"todo", "sending", "results", "touched"} \subseteq DOMAIN run'[r]
             /\ run[r] # IdleRun => run'[r].touched = run[r].touched \cup us
  <2>1. PICK q : q = run[r]
    OBVIOUS
  <2>2. {"todo", "sending", "results", "touched"} \subseteq DOMAIN q
    BY <2>1 DEF OInv, RunsOK, RunOK
  <2>3. run'[r] = IF q = IdleRun THEN IdleRun ELSE [q EXCEPT !.touched = @ \cup us]
    BY <2>1 DEF Touch
  <2> QED
    BY <2>1, <2>2, <2>3 DEF IdleRun
<1> QED
  BY <1>1, <1>2

(* One POST of a list of appointments.                                     *)
Replaced(u, keep, new, date, lead) ==
    /\ left > 0 /\ left' = left - 1
    /\ appt' = [a \in Appts |->
         IF a \in keep \cup new
         THEN [state |-> "live", owner |-> u, date |-> date, lead |-> lead]
         ELSE IF a \in Owned(u) THEN [Absent EXCEPT !.state = "gone"] ELSE appt[a]]
    /\ log' = [k \in {x \in DOMAIN log : ~(x[1] = "appointment" /\ x[2] \in Owned(u) \ keep)} |->
                 log[k]]
    /\ Touch({u})
    /\ UNCHANGED <<day, lastDay, before, live, member, follow, fcm, accepted, excused,
                   device>>

LEMMA ReplacedCase ==
  ASSUME ReplaceAppointments
  PROVE  \E u \in Users : \E keep \in SUBSET Owned(u) :
         \E new \in {{}} \cup {{a} : a \in {b \in Appts : appt[b].state = "new"}} :
         \E date \in {day, day + 1}, lead \in {0, 1} : Replaced(u, keep, new, date, lead)
BY Zenon DEF ReplaceAppointments, Replaced

LEMMA ReplaceOnce == ASSUME OInv, ReplaceAppointments PROVE OInv'
<1>1. PICK u \in Users : \E keep \in SUBSET Owned(u) :
        \E new \in {{}} \cup {{a} : a \in {b \in Appts : appt[b].state = "new"}} :
        \E date \in {day, day + 1}, lead \in {0, 1} : Replaced(u, keep, new, date, lead)
  BY ReplacedCase
<1>2. PICK keep \in SUBSET Owned(u) :
        \E new \in {{}} \cup {{a} : a \in {b \in Appts : appt[b].state = "new"}} :
        \E date \in {day, day + 1}, lead \in {0, 1} : Replaced(u, keep, new, date, lead)
  BY <1>1
<1>3. PICK new \in {{}} \cup {{a} : a \in {b \in Appts : appt[b].state = "new"}} :
        \E date \in {day, day + 1}, lead \in {0, 1} : Replaced(u, keep, new, date, lead)
  BY <1>2
<1>4. PICK date \in {day, day + 1}, lead \in {0, 1} :
        /\ appt' = [a \in Appts |->
             IF a \in keep \cup new
             THEN [state |-> "live", owner |-> u, date |-> date, lead |-> lead]
             ELSE IF a \in Owned(u) THEN [Absent EXCEPT !.state = "gone"] ELSE appt[a]]
        /\ log' = [k \in {x \in DOMAIN log : ~(x[1] = "appointment" /\ x[2] \in Owned(u) \ keep)} |->
                     log[k]]
        /\ Touch({u}) /\ accepted' = accepted /\ excused' = excused
  BY <1>3 DEF Replaced
<1>5. \A a \in new : appt[a].state = "new"
  BY <1>3
<1>6. \A a \in Owned(u) : a \in Appts /\ appt[a].state = "live"
  BY DEF Owned
<1>7. \A a \in Appts : appt[a].state = "gone" => appt'[a].state = "gone"
  BY <1>4, <1>5, <1>6
<1>8. \A a \in Owned(u) \ keep : a \in Appts /\ appt'[a].state = "gone"
  BY <1>4, <1>5, <1>6 DEF Absent
<1>9. \A k : Gone(k) => Gone(k)'
  BY <1>7 DEF Gone
<1>10. \A k : Logged(k) = "sent" => Logged(k)' = "sent" \/ Gone(k)'
  BY <1>4, <1>8 DEF Logged, At, Gone
<1> QED
  BY <1>4, <1>9, <1>10, TouchKeeps, SteadyOnce

LEMMA RequestOnce == ASSUME OInv, NEW us, Request(us), appt' = appt PROVE OInv'
<1>1. Touch(us) /\ accepted' = accepted /\ excused' = excused /\ log' = log
  BY DEF Request, requestVars
<1>2. \A k : Logged(k)' = Logged(k) /\ Gone(k)' = Gone(k)
  BY <1>1 DEF Logged, Gone
<1> QED
  BY <1>1, <1>2, TouchKeeps, SteadyOnce

LEMMA NextOnce == ASSUME OInv, [Next]_vars PROVE OInv'
<1>1. ASSUME NEW r \in DOMAIN run, GoesOn(r) \/ RecordFails(r) \/ Stop(r) PROVE OInv'
  <2>1. CASE StartGio(r)
    BY <2>1, StartOnce, GioPushesKeyed DEF StartGio
  <2>2. CASE StartAppointments(r)
    BY <2>2, StartOnce, ApptPushesKeyed DEF StartAppointments
  <2> QED
    BY <1>1, <2>1, <2>2, SendOnce, RecordOnce, UnloggedOnce, StopOnce DEF GoesOn
<1>2. CASE \/ RegisterDevice \/ ForgetDevice \/ PutFollow \/ DeleteFollow
           \/ RosterChanges \/ PersonChanges \/ SettingChanges
  <2>1. PICK us : Request(us) /\ appt' = appt
    BY <1>2 DEF RegisterDevice, ForgetDevice, PutFollow, DeleteFollow, RosterChanges,
                PersonChanges, SettingChanges
  <2> QED
    BY <2>1, RequestOnce
<1>3. CASE ReplaceAppointments
  BY <1>3, ReplaceOnce
<1>4. CASE NewDay
  <2>1. /\ Touch(Users) /\ accepted' = accepted /\ excused' = excused /\ log' = log
        /\ appt' = appt
    BY <1>4 DEF NewDay
  <2>2. \A k : Logged(k)' = Logged(k) /\ Gone(k)' = Gone(k)
    BY <2>1 DEF Logged, Gone
  <2> QED
    BY <2>1, <2>2, TouchKeeps, SteadyOnce
<1>5. CASE FcmFails \/ FcmRecovers \/ UNCHANGED vars
  <2>1. /\ run' = run /\ accepted' = accepted /\ excused' = excused /\ log' = log
        /\ appt' = appt
    BY <1>5 DEF FcmFails, FcmRecovers, vars
  <2>2. \A k : Logged(k)' = Logged(k) /\ Gone(k)' = Gone(k)
    BY <2>1 DEF Logged, Gone
  <2>3. \A r \in DOMAIN run : {"todo", "sending", "results", "touched"} \subseteq DOMAIN run[r]
    BY DEF OInv, RunsOK, RunOK
  <2> QED
    BY <2>1, <2>2, <2>3, SteadyOnce
<1> QED
  BY <1>1, <1>2, <1>3, <1>4, <1>5 DEF Next

THEOREM RemindersCounted == Spec => []OInv
<1>1. OInv /\ [Next]_vars => OInv'
  BY NextOnce
<1> QED
  BY InitOnce, <1>1, PTL DEF Spec

(***************************************************************************)
(* Nobody is pushed the same reminder twice, over all devices, re-runs,    *)
(* days, changes of the lead time and edits, unless a run lost its log or  *)
(* overlapped another that was about to send the same.                     *)
(***************************************************************************)
THEOREM NobodyRemindedTwice == Spec => []RemindedOnce
<1>1. OInv => RemindedOnce
  <2> SUFFICES ASSUME OInv, NEW k \in DOMAIN accepted, accepted[k] > 1 PROVE k \in excused
    BY DEF RemindedOnce
  <2>1. Taken(k) = accepted[k]
    BY DEF Taken, At
  <2>2. k \in excused \/ Taken(k) \in {0, 1}
    BY DEF OInv, AtMostOnce
  <2> QED
    BY <2>1, <2>2
<1> QED
  BY <1>1, RemindersCounted, PTL

-----------------------------------------------------------------------------
(* The walk of gio_follow finds the ancestors: it is the walk of Genealogy *)
(* in the tree turned upside down.                                         *)

Upwards == [c \in Persons |-> {p \in Persons : c \in Parents[p]}]

LEMMA UpwardsChildren ==
  /\ DOMAIN Upwards = Persons
  /\ \A p \in Persons : Children(Upwards, p) = Parents[p]
BY RemindersAssumption DEF Upwards, Children

LEMMA AncestorsWalk ==
  ASSUME NEW self \in Persons
  PROVE  Ancestors(self) = Descendants(Upwards, self) \ {self}
<1> DEFINE N == Cardinality(Persons)
           Defines(f) == f = [n \in 0..N |-> IF n = 0 THEN EdgesAll(self)
                                ELSE f[n - 1] \cup UNION {EdgesAll(p) : p \in f[n - 1]}]
<1>1. N \in Nat /\ IsFiniteSet(DOMAIN Upwards) /\ Cardinality(DOMAIN Upwards) = N
  BY RemindersAssumption, UpwardsChildren, FS_CardinalityType
<1>2. PICK h : Rounds(h, Upwards, self) /\ Descendants(Upwards, self) = h[N]
  BY <1>1, DescendantsRounds
<1>3. /\ h \in [0..N -> SUBSET Persons] /\ h[0] = EdgesAll(self)
      /\ \A i \in 1..N : h[i] = h[i - 1] \cup UNION {Children(Upwards, c) : c \in h[i - 1]}
  BY <1>1, <1>2, UpwardsChildren DEF Rounds, EdgesAll
<1>4. \A i \in 1..N : h[i] = h[i - 1] \cup UNION {EdgesAll(p) : p \in h[i - 1]}
  <2> TAKE i \in 1..N
  <2>1. h[i - 1] \in SUBSET Persons
    BY <1>1, <1>3
  <2> QED
    BY <1>3, <2>1, UpwardsChildren DEF EdgesAll
<1>5. Defines(h)
  BY <1>1, <1>3, <1>4
<1>6. PICK f : f = CHOOSE k : Defines(k)
  OBVIOUS
<1>7. Defines(f)
  BY <1>5, <1>6
<1>8. f[0] = EdgesAll(self) /\ 0 \in 0..N
  BY <1>1, <1>7
<1>9. \A i \in 1..N : f[i] = f[i - 1] \cup UNION {EdgesAll(p) : p \in f[i - 1]}
  <2> TAKE i \in 1..N
  <2>1. i \in 0..N /\ i # 0
    BY <1>1
  <2> QED
    BY <1>7, <2>1
<1>10. \A i \in 0..N : f[i] = h[i]
  <2> DEFINE Off == {i \in 0..N : f[i] # h[i]}
  <2> SUFFICES ASSUME Off # {} PROVE FALSE
    OBVIOUS
  <2>1. PICK n \in Off : \A m \in Off : n <= m
    <3>1. Off \in SUBSET Nat
      BY <1>1
    <3> HIDE DEF Off
    <3> QED
      BY <3>1, LeastNat
  <2>2. n # 0
    BY <1>3, <1>8, <2>1
  <2>3. n - 1 \in 0..N /\ n - 1 \notin Off /\ n \in 1..N
    BY <1>1, <2>1, <2>2
  <2>4. f[n - 1] = h[n - 1]
    BY <2>3
  <2>5. f[n] = h[n]
    BY <1>4, <1>9, <2>3, <2>4
  <2> QED
    BY <2>1, <2>5
<1>11. Ancestors(self) = f[N] \ {self}
  BY <1>6 DEF Ancestors
<1> QED
  BY <1>1, <1>2, <1>10, <1>11

(* Followers are found by the walk exactly where IsAncestor says.          *)
LEMMA AncestorsAreAbove ==
  ASSUME NEW self \in Persons, NEW p
  PROVE  p \in Ancestors(self) <=> IsAncestor(p, self)
<1>1. IsFiniteSet(DOMAIN Upwards) /\ DOMAIN Upwards = Persons
  BY RemindersAssumption, UpwardsChildren
<1>2. PICK D : D = Descendants(Upwards, self)
  OBVIOUS
<1>3. Ancestors(self) = D \ {self}
  BY <1>2, AncestorsWalk
<1>4. ASSUME NEW S \in SUBSET Persons, Parents[self] \subseteq S, \A q \in S : Parents[q] \subseteq S
      PROVE  D \subseteq S
  <2>1. Children(Upwards, self) \subseteq S /\ HoldsChildren(Upwards, S)
    BY <1>4, UpwardsChildren DEF HoldsChildren
  <2> QED
    BY <1>1, <1>2, <2>1, DescendantsLeast
<1>5. D \in SUBSET Persons /\ Parents[self] \subseteq D /\ \A q \in D : Parents[q] \subseteq D
  BY <1>1, <1>2, DescendantsClosed, UpwardsChildren DEF HoldsChildren
<1> QED
  BY <1>3, <1>4, <1>5 DEF IsAncestor

-----------------------------------------------------------------------------
(* Who is on the lists.                                                    *)

StateOK ==
  /\ device \in [Tokens -> DeviceRows]
  /\ member \in [Users -> Persons \cup {Unbound, NotMember}]
  /\ follow \in [Users -> [Persons -> {"none", "on", "off"}]]
  /\ live \subseteq Persons
  /\ \A a \in Appts : appt[a].state = "live" => appt[a].owner \in Users

Reaches(push) ==
  /\ IsFor(push)
  /\ \A t \in push.tokens : device[t].owner = push.user
  /\ ActiveTokens(push.user) \subseteq push.tokens

PushOK(push) ==
  /\ push.user \in Users /\ push.tokens \subseteq Tokens
  /\ push.key[1] # "gio" => push.key[2] \in Appts

Listed(q) == \A push \in q.todo : PushOK(push) /\ (push.user \notin q.touched => Reaches(push))

AInv == OInv /\ StateOK /\ \A r \in DOMAIN run : Listed(run[r])

(* Nothing about a user has changed that their pushes depend on.           *)
Unaffected(u) ==
  /\ member'[u] = member[u] /\ follow'[u] = follow[u] /\ live' = live /\ day' = day
  /\ \A a \in Appts : appt[a].state = "live" /\ appt[a].owner = u => appt'[a] = appt[a]
  /\ \A t \in Tokens : device[t].owner = u => device'[t].owner = u
  /\ ActiveTokens(u)' \subseteq ActiveTokens(u)

LEMMA ReachesStill ==
  ASSUME NEW push, PushOK(push), Reaches(push), Unaffected(push.user)
  PROVE  Reaches(push)'
<1>1. \A t \in push.tokens : device'[t].owner = push.user
  BY DEF Reaches, PushOK, Unaffected
<1>2. ActiveTokens(push.user)' \subseteq push.tokens
  BY DEF Reaches, Unaffected
<1>3. IsFor(push)'
  <2>1. CASE push.key[1] = "gio"
    <3>1. /\ push.key[3] = push.user
          /\ HasGio(push.key[2]) /\ Observes(DeathOf[push.key[2]], push.key[4])
          /\ Follows(push.user, push.key[2])
      BY <2>1 DEF Reaches, IsFor
    <3>2. HasGio(push.key[2])' /\ Follows(push.user, push.key[2])'
      BY <3>1 DEF Unaffected, HasGio, Follows
    <3> QED
      BY <2>1, <3>1, <3>2 DEF IsFor
  <2>2. CASE push.key[1] # "gio"
    <3>1. PICK a \in Appts : a = push.key[2]
      BY <2>2 DEF PushOK
    <3>2. InWindow(a) /\ appt[a].owner = push.user
      BY <2>2, <3>1 DEF Reaches, IsFor
    <3>3. appt'[a] = appt[a] /\ day' = day
      BY <3>2 DEF Unaffected, InWindow
    <3>4. InWindow(a)' /\ appt'[a].owner = push.user
      BY <3>2, <3>3 DEF InWindow
    <3> QED
      BY <2>2, <3>1, <3>4 DEF IsFor
  <2> QED
    BY <2>1, <2>2
<1> QED
  BY <1>1, <1>2, <1>3 DEF Reaches

(* Every list gets shorter, or stays; whoever is affected is touched.      *)
LEMMA ListsStill ==
  ASSUME AInv, DOMAIN run' = DOMAIN run, StateOK', OInv',
         \A r \in DOMAIN run :
           /\ run'[r].todo \subseteq run[r].todo
           /\ run'[r].todo # {} => run[r].touched \subseteq run'[r].touched,
         \A r \in DOMAIN run : \A u \in Users :
           run'[r].todo # {} /\ u \notin run'[r].touched => Unaffected(u)
  PROVE  AInv'
<1>1. ASSUME NEW r \in DOMAIN run, NEW push \in run'[r].todo
      PROVE  PushOK(push) /\ (push.user \notin run'[r].touched => Reaches(push)')
  <2>1. push \in run[r].todo /\ run'[r].todo # {}
    OBVIOUS
  <2>2. PushOK(push) /\ (push.user \notin run[r].touched => Reaches(push))
    BY <2>1 DEF AInv, Listed
  <2>3. push.user \notin run'[r].touched => Reaches(push) /\ Unaffected(push.user)
    BY <2>1, <2>2 DEF PushOK
  <2> QED
    BY <2>2, <2>3, ReachesStill
<1>2. \A r \in DOMAIN run' : Listed(run[r])'
  BY <1>1 DEF Listed, PushOK
<1> QED
  BY <1>2 DEF AInv

LEMMA FollowedFollow ==
  ASSUME AInv, NEW u \in Users, NEW due \in SUBSET Persons, NEW p \in Followed(u, due)
  PROVE  p \in due /\ Follows(u, p)
<1>1. /\ member[u] \in Persons \cup {Unbound, NotMember}
      /\ follow[u] \in [Persons -> {"none", "on", "off"}] /\ NotMember \notin Persons
  BY RemindersAssumption DEF AInv, StateOK
<1>2. CASE member[u] = NotMember
  <2>1. \A q \in Persons : OverridesOf(u)[q] = "none"
    BY <1>2 DEF OverridesOf
  <2> QED
    BY <1>1, <1>2, <2>1 DEF Followed
<1>3. CASE member[u] # NotMember
  <2>1. OverridesOf(u) = follow[u]
    BY <1>3 DEF OverridesOf
  <2>2. CASE member[u] \in Persons /\ p \in Ancestors(member[u]) \cap due /\ follow[u][p] # "off"
    <3>1. IsAncestor(p, member[u])
      BY <2>2, AncestorsAreAbove
    <3> QED
      BY <1>1, <1>3, <2>2, <3>1 DEF Follows
  <2>3. CASE p \in due /\ follow[u][p] = "on"
    BY <1>3, <2>3 DEF Follows
  <2> QED
    BY <2>1, <2>2, <2>3 DEF Followed
<1> QED
  BY <1>2, <1>3

\* No day the sweep takes for a gio is another.
GioDaysObserved == \A p \in DOMAIN DeathOf : \A d \in GioDays[p] : Observes(DeathOf[p], d)

LEMMA GioReach ==
  ASSUME AInv, GioDaysObserved, NEW a \in GioPushes
  PROVE  PushOK(a) /\ Reaches(a)
<1>1. PICK u \in Users : \E p \in Followed(u, DueOn(day + before)) :
        a = Push(GioKey(p, u, day + before), u, ActiveTokens(u))
  BY GioPushed
<1>2. PICK p \in Followed(u, DueOn(day + before)) :
        a = Push(GioKey(p, u, day + before), u, ActiveTokens(u))
  BY <1>1
<1>3. DueOn(day + before) \in SUBSET Persons
  BY RemindersAssumption DEF DueOn
<1>4. p \in DueOn(day + before) /\ Follows(u, p)
  BY <1>3, FollowedFollow
<1>5. HasGio(p) /\ Observes(DeathOf[p], day + before)
  BY <1>4 DEF DueOn, HasGio, GioDaysObserved
<1>6. /\ a.user = u /\ a.tokens = ActiveTokens(u)
      /\ a.key[1] = "gio" /\ a.key[2] = p /\ a.key[3] = u /\ a.key[4] = day + before
  BY <1>2 DEF Push, GioKey
<1>7. IsFor(a)
  BY <1>4, <1>5, <1>6 DEF IsFor
<1> QED
  BY <1>6, <1>7 DEF PushOK, Reaches, ActiveTokens

LEMMA ApptReach == ASSUME AInv, NEW a \in ApptPushes PROVE PushOK(a) /\ Reaches(a)
<1>1. PICK m \in Appts : /\ InWindow(m)
                         /\ a = Push(ApptKey(m, day), appt[m].owner, ActiveTokens(appt[m].owner))
  BY DEF ApptPushes
<1>2. /\ a.user = appt[m].owner /\ a.tokens = ActiveTokens(appt[m].owner)
      /\ a.key[1] = "appointment" /\ a.key[2] = m
  BY <1>1 DEF Push, ApptKey
<1>3. appt[m].owner \in Users
  BY <1>1 DEF InWindow, AInv, StateOK
<1>4. IsFor(a)
  BY <1>1, <1>2 DEF IsFor
<1> QED
  BY <1>2, <1>3, <1>4 DEF PushOK, Reaches, ActiveTokens

LEMMA StartAudience ==
  ASSUME AInv, OInv', NEW r \in DOMAIN run, NEW pushes, Start(r, pushes),
         \A a \in pushes : PushOK(a) /\ Reaches(a)
  PROVE  AInv'
<1>1. PICK q : q = [run[r] EXCEPT !.todo = {p \in pushes : ~Already(p.key)}]
  OBVIOUS
<1>2. /\ run[r] = IdleRun /\ run' = [run EXCEPT ![r] = q]
      /\ UNCHANGED <<day, live, member, follow, appt, device>>
  BY <1>1 DEF Start
<1>3. q.todo \subseteq pushes
  BY <1>1, <1>2 DEF IdleRun
<1>4. \A push : Reaches(push)' <=> Reaches(push)
  <2> TAKE push
  <2>1. IsFor(push)' <=> IsFor(push)
    BY <1>2 DEF IsFor, HasGio, Follows, InWindow
  <2> QED
    BY <1>2, <2>1 DEF Reaches, ActiveTokens
<1>5. \A s \in DOMAIN run : Listed(run[s])
  BY DEF AInv
<1>6. \A s \in DOMAIN run' : Listed(run[s])'
  BY <1>2, <1>3, <1>4, <1>5 DEF Listed, PushOK
<1>7. StateOK'
  BY <1>2 DEF AInv, StateOK
<1> QED
  BY <1>6, <1>7 DEF AInv

LEMMA DeactivatedRows ==
  ASSUME AInv, NEW results, device' = Deactivated(results)
  PROVE  /\ device' \in [Tokens -> DeviceRows]
         /\ \A t \in Tokens : device'[t].owner = device[t].owner
         /\ \A u : ActiveTokens(u)' \subseteq ActiveTokens(u)
<1>1. \A t \in Tokens : device[t] \in DeviceRows
  BY DEF AInv, StateOK
<1>2. \A t \in Tokens : /\ device'[t] \in DeviceRows /\ device'[t].owner = device[t].owner
                        /\ device'[t].active => device[t].active
  <2> TAKE t \in Tokens
  <2>1. PICK row \in DeviceRows : row = device[t]
    BY <1>1
  <2>2. device'[t] = row \/ device'[t] = [row EXCEPT !.active = FALSE]
    BY <2>1 DEF Deactivated
  <2> QED
    BY <2>1, <2>2 DEF DeviceRows
<1>3. device' = [t \in Tokens |-> device'[t]]
  BY DEF Deactivated
<1> QED
  BY <1>2, <1>3 DEF ActiveTokens

LEMMA RunAudience ==
  ASSUME AInv, OInv', NEW r \in DOMAIN run,
         Send(r) \/ Record(r) \/ RecordRefused(r) \/ RecordFails(r) \/ Stop(r)
  PROVE  AInv'
<1>1. UNCHANGED <<day, live, member, follow, appt>>
  BY DEF Send, Record, RecordRefused, RecordFails, Unlogged, Stop
<1>2. device' = device \/ \E results : device' = Deactivated(results)
  BY DEF Send, Record, RecordRefused, RecordFails, Unlogged, Stop
<1>3. /\ device' \in [Tokens -> DeviceRows]
      /\ \A t \in Tokens : device'[t].owner = device[t].owner
      /\ \A u : ActiveTokens(u)' \subseteq ActiveTokens(u)
  <2>1. CASE device' = device
    BY <2>1 DEF AInv, StateOK, ActiveTokens
  <2> QED
    BY <1>2, <2>1, DeactivatedRows
<1>4. StateOK'
  BY <1>1, <1>3 DEF AInv, StateOK
<1>5. {"todo", "sending", "results", "touched"} \subseteq DOMAIN run[r]
  BY DEF AInv, OInv, RunsOK, RunOK
<1>6. \E q : /\ run' = [run EXCEPT ![r] = q] /\ q.todo \subseteq run[r].todo
             /\ q.todo # {} => q.touched = run[r].touched
  <2>1. CASE Send(r)
    <3>1. PICK p \in run[r].todo : \E results \in Answers(p.tokens) :
            run' = [run EXCEPT ![r].todo = @ \ {p}, ![r].sending = {p}, ![r].results = results]
      BY <2>1 DEF Send
    <3>2. PICK results \in Answers(p.tokens) :
           run' = [run EXCEPT ![r].todo = @ \ {p}, ![r].sending = {p}, ![r].results = results]
      BY <3>1
    <3>3. PICK q : q = [run[r] EXCEPT !.todo = @ \ {p}, !.sending = {p}, !.results = results]
      OBVIOUS
    <3>4. q.todo \subseteq run[r].todo /\ q.touched = run[r].touched
      BY <1>5, <3>3
    <3> QED
      BY <3>2, <3>3, <3>4
  <2>2. CASE Record(r) \/ RecordRefused(r) \/ RecordFails(r)
    <3>1. run' = [run EXCEPT ![r] = Next1(r)]
      BY <2>2 DEF Record, RecordRefused, RecordFails, Unlogged
    <3>2. PICK q : q = Next1(r)
      OBVIOUS
    <3>3. q.todo \subseteq run[r].todo /\ (q.todo # {} => q.touched = run[r].touched)
      BY <1>5, <3>2 DEF Next1, IdleRun
    <3> QED
      BY <3>1, <3>2, <3>3
  <2>3. CASE Stop(r)
    <3>1. run' = [run EXCEPT ![r] = IdleRun] /\ IdleRun.todo = {}
      BY <2>3 DEF Stop, IdleRun
    <3> QED
      BY <3>1
  <2> QED
    BY <2>1, <2>2, <2>3
<1>7. PICK q : /\ run' = [run EXCEPT ![r] = q] /\ q.todo \subseteq run[r].todo
               /\ q.todo # {} => q.touched = run[r].touched
  BY <1>6
<1>8. DOMAIN run' = DOMAIN run /\ \A s \in DOMAIN run : run'[s] = IF s = r THEN q ELSE run[s]
  BY <1>7
<1>9. \A u : Unaffected(u)
  BY <1>1, <1>3 DEF Unaffected
<1>10. \A s \in DOMAIN run : /\ run'[s].todo \subseteq run[s].todo
                             /\ run'[s].todo # {} => run[s].touched \subseteq run'[s].touched
  BY <1>7, <1>8
<1> QED
  BY <1>4, <1>8, <1>9, <1>10, ListsStill

(* A request touches whom it affects, in every run that has a list.        *)
LEMMA TouchAudience ==
  ASSUME AInv, OInv', StateOK', NEW us, Touch(us), \A u \in Users \ us : Unaffected(u)
  PROVE  AInv'
<1>1. OInv
  BY DEF AInv
<1>2. DOMAIN run' = DOMAIN run /\ \A r \in DOMAIN run :
        run'[r].todo = run[r].todo /\ (run[r] # IdleRun => run'[r].touched = run[r].touched \cup us)
  BY <1>1, TouchKeeps
<1>3. \A r \in DOMAIN run : run'[r].todo # {} => run[r] # IdleRun
  BY <1>2 DEF IdleRun
<1> QED
  BY <1>2, <1>3, ListsStill

LEMMA RegisterAudience == ASSUME AInv, OInv', RegisterDevice PROVE AInv'
<1>1. PICK t \in Tokens, v \in Users :
        /\ device' = Registered(t, v)
        /\ Request({v, device[t].owner} \cap Users)
        /\ UNCHANGED <<before, live, member, follow, appt>>
  BY DEF RegisterDevice
<1>2. PICK us : us = {v, device[t].owner} \cap Users
  OBVIOUS
<1>3. Touch(us) /\ day' = day
  BY <1>1, <1>2 DEF Request, requestVars
<1>4. device \in [Tokens -> DeviceRows]
  BY DEF AInv, StateOK
<1>5. PICK row : row = [owner |-> v, active |-> TRUE]
  OBVIOUS
<1>6. row \in DeviceRows /\ row.owner = v
  BY <1>5 DEF DeviceRows
<1>7. device' = [device EXCEPT ![t] = row]
  BY <1>1, <1>5 DEF Registered
<1>8. StateOK'
  BY <1>1, <1>4, <1>6, <1>7 DEF AInv, StateOK
<1>9. \A s \in Tokens : device'[s] = IF s = t THEN row ELSE device[s]
  BY <1>4, <1>7
<1>10. ASSUME NEW u \in Users \ us PROVE Unaffected(u)
  <2>1. u # v /\ u # device[t].owner
    BY <1>2
  <2> QED
    BY <1>1, <1>3, <1>6, <1>9, <2>1 DEF Unaffected, ActiveTokens
<1> QED
  BY <1>3, <1>8, <1>10, TouchAudience

LEMMA ForgetAudience == ASSUME AInv, OInv', ForgetDevice PROVE AInv'
<1>1. PICK t \in Tokens, v \in Users :
        /\ device' = Forgotten(t, v) /\ Request({v})
        /\ UNCHANGED <<before, live, member, follow, appt>>
  BY DEF ForgetDevice
<1>2. Touch({v}) /\ day' = day
  BY <1>1 DEF Request, requestVars
<1>3. device \in [Tokens -> DeviceRows]
  BY DEF AInv, StateOK
<1>4. PICK row : row = IF device[t].owner = v THEN NoDeviceRow ELSE device[t]
  OBVIOUS
<1>5. row \in DeviceRows /\ (row = device[t] \/ (device[t].owner = v /\ row.owner = NoUser))
  BY <1>3, <1>4 DEF NoDeviceRow, DeviceRows
<1>6. device' = [device EXCEPT ![t] = row]
  BY <1>1, <1>3, <1>4 DEF Forgotten
<1>7. StateOK'
  BY <1>1, <1>3, <1>5, <1>6 DEF AInv, StateOK
<1>8. \A s \in Tokens : device'[s] = IF s = t THEN row ELSE device[s]
  BY <1>3, <1>6
<1>9. ASSUME NEW u \in Users \ {v} PROVE Unaffected(u)
  BY <1>1, <1>2, <1>5, <1>8, NoUserAssumption DEF Unaffected, ActiveTokens
<1> QED
  BY <1>2, <1>7, <1>9, TouchAudience

LEMMA FollowAudience == ASSUME AInv, OInv', PutFollow \/ DeleteFollow PROVE AInv'
<1>1. PICK u \in Users, p \in Persons, v \in {"none", "on", "off"} :
        /\ follow' = [follow EXCEPT ![u][p] = v] /\ Request({u})
        /\ UNCHANGED <<before, live, member, appt, device>>
  <2>1. CASE PutFollow
    BY <2>1 DEF PutFollow
  <2>2. CASE DeleteFollow
    BY <2>2 DEF DeleteFollow, AInv, StateOK
  <2> QED
    BY <2>1, <2>2
<1>2. Touch({u}) /\ day' = day
  BY <1>1 DEF Request, requestVars
<1>3. PICK overrides : overrides = [follow[u] EXCEPT ![p] = v]
  OBVIOUS
<1>4. overrides \in [Persons -> {"none", "on", "off"}]
  BY <1>3 DEF AInv, StateOK
<1>5. follow \in [Users -> [Persons -> {"none", "on", "off"}]]
  BY DEF AInv, StateOK
<1>6. follow' = [follow EXCEPT ![u] = overrides]
  BY <1>1, <1>3
<1>7. StateOK'
  BY <1>1, <1>4, <1>5, <1>6 DEF AInv, StateOK
<1>8. \A w \in Users \ {u} : Unaffected(w)
  BY <1>1, <1>2, <1>5, <1>6 DEF Unaffected, ActiveTokens
<1> QED
  BY <1>2, <1>7, <1>8, TouchAudience

LEMMA RosterAudience == ASSUME AInv, OInv', RosterChanges PROVE AInv'
<1>1. PICK u \in Users, p \in {Unbound, NotMember} \cup live :
        /\ p # member[u] /\ (member[u] = NotMember => p = Unbound)
        /\ \A v \in Users : p \in Persons => member[v] # p
        /\ member' = [member EXCEPT ![u] = p]
        /\ Request({u})
        /\ UNCHANGED <<before, live, follow, appt, device>>
  BY DEF RosterChanges
<1>2. Touch({u}) /\ day' = day
  BY <1>1 DEF Request, requestVars
<1>3. p \in Persons \cup {Unbound, NotMember}
  BY DEF AInv, StateOK
<1>4. member \in [Users -> Persons \cup {Unbound, NotMember}]
  BY DEF AInv, StateOK
<1>5. StateOK'
  BY <1>1, <1>3, <1>4 DEF AInv, StateOK
<1>6. \A w \in Users \ {u} : Unaffected(w)
  BY <1>1, <1>2, <1>4 DEF Unaffected, ActiveTokens
<1> QED
  BY <1>2, <1>5, <1>6, TouchAudience

LEMMA EveryoneAudience ==
  ASSUME AInv, OInv', PersonChanges \/ SettingChanges \/ NewDay
  PROVE  AInv'
<1>1. /\ Touch(Users) /\ member' = member /\ follow' = follow /\ appt' = appt /\ device' = device
      /\ live' \subseteq Persons
  BY DEF PersonChanges, SettingChanges, NewDay, Request, AInv, StateOK
<1>2. StateOK'
  BY <1>1 DEF AInv, StateOK
<1> QED
  BY <1>1, <1>2, TouchAudience

LEMMA ReplaceAudience == ASSUME AInv, OInv', ReplaceAppointments PROVE AInv'
<1>1. PICK u \in Users : \E keep \in SUBSET Owned(u) :
        \E new \in {{}} \cup {{a} : a \in {b \in Appts : appt[b].state = "new"}} :
        \E date \in {day, day + 1}, lead \in {0, 1} : Replaced(u, keep, new, date, lead)
  BY ReplacedCase
<1>2. PICK keep \in SUBSET Owned(u) :
        \E new \in {{}} \cup {{a} : a \in {b \in Appts : appt[b].state = "new"}} :
        \E date \in {day, day + 1}, lead \in {0, 1} : Replaced(u, keep, new, date, lead)
  BY <1>1
<1>3. PICK new \in {{}} \cup {{a} : a \in {b \in Appts : appt[b].state = "new"}} :
        \E date \in {day, day + 1}, lead \in {0, 1} : Replaced(u, keep, new, date, lead)
  BY <1>2
<1>4. PICK date \in {day, day + 1}, lead \in {0, 1} :
        /\ appt' = [a \in Appts |->
             IF a \in keep \cup new
             THEN [state |-> "live", owner |-> u, date |-> date, lead |-> lead]
             ELSE IF a \in Owned(u) THEN [Absent EXCEPT !.state = "gone"] ELSE appt[a]]
        /\ Touch({u})
        /\ UNCHANGED <<day, live, member, follow, device>>
  BY <1>3 DEF Replaced
<1>5. \A a \in new : appt[a].state = "new"
  BY <1>3
<1>6. \A a \in Owned(u) : appt[a].owner = u
  BY DEF Owned
<1>7. \A a \in Appts : appt'[a].state = "live" => appt'[a].owner \in Users
  BY <1>4 DEF Absent, AInv, StateOK
<1>8. \A a \in Appts : appt[a].state = "live" /\ appt[a].owner # u => appt'[a] = appt[a]
  BY <1>4, <1>5, <1>6
<1>9. StateOK'
  BY <1>4, <1>7 DEF AInv, StateOK
<1>10. \A w \in Users \ {u} : Unaffected(w)
  BY <1>4, <1>8 DEF Unaffected, ActiveTokens
<1> QED
  BY <1>4, <1>9, <1>10, TouchAudience

LEMMA NextAudience == ASSUME AInv, GioDaysObserved, [Next]_vars PROVE AInv'
<1>0. OInv'
  BY NextOnce DEF AInv
<1>1. ASSUME NEW r \in DOMAIN run, GoesOn(r) \/ RecordFails(r) \/ Stop(r) PROVE AInv'
  <2>1. CASE StartGio(r)
    BY <1>0, <2>1, StartAudience, GioReach DEF StartGio
  <2>2. CASE StartAppointments(r)
    BY <1>0, <2>2, StartAudience, ApptReach DEF StartAppointments
  <2> QED
    BY <1>0, <1>1, <2>1, <2>2, RunAudience DEF GoesOn
<1>2. CASE \/ RegisterDevice \/ ForgetDevice \/ PutFollow \/ DeleteFollow \/ RosterChanges
           \/ PersonChanges \/ SettingChanges \/ ReplaceAppointments \/ NewDay
  BY <1>0, <1>2, RegisterAudience, ForgetAudience, FollowAudience, RosterAudience,
     EveryoneAudience, ReplaceAudience
<1>3. CASE FcmFails \/ FcmRecovers \/ UNCHANGED vars
  <2>1. /\ run' = run /\ UNCHANGED <<day, live, member, follow, appt, device>>
    BY <1>3 DEF FcmFails, FcmRecovers, vars
  <2>2. StateOK' /\ \A u : Unaffected(u)
    BY <2>1 DEF AInv, StateOK, Unaffected, ActiveTokens
  <2> QED
    BY <1>0, <2>1, <2>2, ListsStill
<1> QED
  BY <1>1, <1>2, <1>3 DEF Next

LEMMA InitAudience == Init => AInv
<1> SUFFICES ASSUME Init PROVE AInv
  OBVIOUS
<1>1. StateOK
  BY ScenariosAssumption DEF Init, StateOK
<1>2. \A r \in DOMAIN run : Listed(run[r])
  BY DEF Init, IdleRun, Listed
<1> QED
  BY <1>1, <1>2, InitOnce DEF AInv

LEMMA GioDaysAreObserved ==
  ASSUME NewMoonsOnTime
  PROVE  GioDaysObserved
BY SweptIsObserved DEF GioDaysObserved, GioDays

\* No day of a behaviour is outside the calendar.
DaysInv == day \in FirstDay..FinalDay /\ lastDay \in FirstDay..FinalDay

LEMMA InitDays == Init => DaysInv
BY ScenariosAssumption, Zenon DEF Init, DaysInv, FirstDay, FinalDay

LEMMA NextDays == DaysInv /\ [Next]_vars => DaysInv'
<1> SUFFICES ASSUME DaysInv, [Next]_vars PROVE DaysInv'
  OBVIOUS
<1>1. CASE UNCHANGED <<day, lastDay>>
  BY <1>1 DEF DaysInv
<1>2. CASE NewDay
  <2>1. day' = day + 1 /\ lastDay' = lastDay /\ day < lastDay
    BY <1>2 DEF NewDay
  <2> QED
    BY <2>1, SupportedDays DEF DaysInv
<1>3. UNCHANGED <<day, lastDay>> \/ NewDay
  <2>1. ASSUME NEW r \in DOMAIN run, GoesOn(r) \/ RecordFails(r) \/ Stop(r)
        PROVE  UNCHANGED <<day, lastDay>>
    BY <2>1 DEF GoesOn, StartGio, StartAppointments, Start, Send, Record, RecordRefused, RecordFails,
         Unlogged, Stop
  <2>2. CASE \/ RegisterDevice \/ ForgetDevice \/ PutFollow \/ DeleteFollow \/ RosterChanges
             \/ PersonChanges \/ SettingChanges \/ ReplaceAppointments \/ FcmFails \/ FcmRecovers
             \/ UNCHANGED vars
    BY <2>2 DEF RegisterDevice, ForgetDevice, PutFollow, DeleteFollow, RosterChanges, PersonChanges,
         SettingChanges, ReplaceAppointments, FcmFails, FcmRecovers, vars, Request, requestVars
  <2> QED
    BY <2>1, <2>2 DEF Next
<1> QED
  BY <1>1, <1>2, <1>3

(***************************************************************************)
(* If no new moon is a day late, the lunar date moves on by one from day   *)
(* to day, into the next month after the length of the month, leap month   *)
(* included, and leads back to the same day (solar_to_lunar,               *)
(* lunar_to_solar): no month boundary is shifted, skipped or doubled.      *)
(***************************************************************************)
THEOREM LunarDatesGoOn ==
  ASSUME NewMoonsOnTime
  PROVE  Spec => []LunarDatesAdvance
<1>1. DaysInv => LunarDatesAdvance
  <2> SUFFICES ASSUME DaysInv PROVE LunarDatesAdvance
    OBVIOUS
  <2>1. /\ day \in CalendarDays /\ day + 1 \in CalendarDays
        /\ LunarOf[day] = SolarToLunar(day) /\ LunarOf[day + 1] = SolarToLunar(day + 1)
    BY SupportedDays DEF DaysInv, LunarOf
  <2> QED
    BY <2>1, DatesAdvance DEF LunarDatesAdvance
<1> QED
  BY <1>1, InitDays, NextDays, PTL DEF Spec

(***************************************************************************)
(* If no new moon is a day late, a gio is kept on its lunar day every      *)
(* year, on the 29th where the month has no 30th, never in a leap month:   *)
(* the daily sweep finds it there, and every calendar that can be opened   *)
(* that day lists it once and under the right lunar year                   *)
(* (gio_occurrences_in_range, the years of lunar_years_covering).          *)
(***************************************************************************)
THEOREM GioIsKept ==
  ASSUME NewMoonsOnTime
  PROVE  Spec => []GioKeepsItsLunarDay
<1>1. DaysInv => GioKeepsItsLunarDay
  BY SweepKeepsGioDates, CalendarKeepsGioDates DEF DaysInv, GioKeepsItsLunarDay
<1> QED
  BY <1>1, InitDays, NextDays, PTL DEF Spec

(***************************************************************************)
(* If no new moon is a day late, what a run is about to push is meant for  *)
(* that user and goes to their devices, all of the active ones, unless     *)
(* something about that user changed after the run collected               *)
(* (due_rows, followers_by_person, due_appointments).                      *)
(***************************************************************************)
THEOREM RemindersReachTheirAudience ==
  ASSUME NewMoonsOnTime
  PROVE  Spec => []PushesReachTheirAudience
<1>1. AInv /\ [Next]_vars => AInv'
  BY NextAudience, GioDaysAreObserved
<1>2. AInv => PushesReachTheirAudience
  BY DEF AInv, Listed, Reaches, PushesReachTheirAudience
<1> QED
  BY <1>1, <1>2, InitAudience, PTL DEF Spec
===============================================================================
