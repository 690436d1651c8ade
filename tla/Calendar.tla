------------------------------ MODULE Calendar ------------------------------
(***************************************************************************)
(* ascdate (system/ascdate.c): from the time to the date and hour that are *)
(* shown.  Time is counted in hours since 1970; minutes and seconds are    *)
(* what is left of the division and are not modelled.                      *)
(***************************************************************************)
EXTENDS Integers

CONSTANT DateAsked    \* the times asked for

ASSUME DateAssumption == DateAsked \subseteq Nat

VARIABLES
  asked,              \* the time that was asked for last
  dt_daylight         \* daylight saving: "off", "on" or "auto"

calvars == <<asked, dt_daylight>>

CalInit == asked = 0 /\ dt_daylight = "auto"

SECPERDY == 24

(* Jan to Dec, numbered from 0.                                            *)
dt_msize  == [m \in 0..11 |-> IF m = 1 THEN 28 ELSE IF m \in {3, 5, 8, 10} THEN 30 ELSE 31]
isleap(y) == y % 4 = 0
LeapDay(y) == IF isleap(y) THEN 1 ELSE 0

(* When each year begins, and of how many days the months before m are.   *)
Begins ==
  LET at[y \in 1970..2110] ==
        IF y = 1970 THEN 0 ELSE at[y - 1] + (365 + LeapDay(y - 1)) * SECPERDY
  IN  [y \in 1970..2110 |-> at[y]]
MonthAt ==
  LET at[m \in 0..12] == IF m = 0 THEN 0 ELSE at[m - 1] + dt_msize[m - 1]
  IN  [m \in 0..12 |-> at[m]]
DaysBefore(m, y) == MonthAt[m] + IF m > 1 THEN LeapDay(y) ELSE 0

YearOf(now) ==
  CHOOSE y \in (1970 + now \div (366 * SECPERDY))..(1970 + now \div (365 * SECPERDY)) :
    Begins[y] <= now /\ now < Begins[y + 1]

MonthOf(days, y) ==
  CHOOSE m \in 0..11 : DaysBefore(m, y) <= days /\ days < DaysBefore(m + 1, y)

(* Day of the week, Sunday is 0, of January 1.                             *)
Jan1LeapLate(y) == (4 + (y - 1970) + (y - 1970) \div 4) % 7
Jan1(y)         == (4 + (y - 1970) + (y - 1969) \div 4) % 7

(* The second Sunday in March and the first in November.                   *)
Marss(y) == LET mar1 == (Jan1(y) + DaysBefore(2, y)) % 7
            IN  IF mar1 = 0 THEN 8 ELSE 15 - mar1
Novfs(y) == LET nov1 == (Jan1(y) + DaysBefore(10, y)) % 7
            IN  IF nov1 = 0 THEN 1 ELSE 8 - nov1

Dst(y, month, day, hour) ==
  CASE dt_daylight = "on"  -> TRUE
    [] dt_daylight = "off" -> FALSE
    [] OTHER -> \/ month \in 3..9
                \/ month = 2 /\ (day > Marss(y) \/ (day = Marss(y) /\ hour >= 2))
                \/ month = 10 /\ ~(day > Novfs(y) \/ (day = Novfs(y) /\ hour >= 1))

(* The date and hour shown; with daylight saving an hour later, and from   *)
(* 23:00 on the next day, or the first of the next month.                  *)
Ascdate(now) ==
  LET y     == YearOf(now)
      days  == (now - Begins[y]) \div SECPERDY
      month == MonthOf(days, y)
      day   == days - DaysBefore(month, y) + 1
      hour  == now % SECPERDY
      dst   == Dst(y, month, day, hour)
      late  == dst /\ hour = 23
      turn  == late /\ day + 1 > dt_msize[month]
  IN  [dayofweek |-> (Jan1(y) + days) % 7, year |-> y, dst |-> dst,
       month |-> IF turn THEN month + 1 ELSE month,
       day   |-> IF turn THEN 1 ELSE IF late THEN day + 1 ELSE day,
       hour  |-> IF late THEN 0 ELSE IF dst THEN hour + 1 ELSE hour]

(* The command date, with -d, -s or -a sets daylight saving; it shows the  *)
(* date (xsh_date).                                                        *)
Date ==
  /\ dt_daylight' \in {"off", "on", "auto"}
  /\ asked' \in DateAsked

-----------------------------------------------------------------------------
(* The civil calendar: what a clock shows an hour after it showed d.       *)
Gregorian(y)    == y % 4 = 0 /\ (y % 100 # 0 \/ y % 400 = 0)
DaysIn(m, y)    == IF m = 1 THEN (IF Gregorian(y) THEN 29 ELSE 28)
                   ELSE IF m \in {3, 5, 8, 10} THEN 30 ELSE 31
NextDay(d) ==
  LET last == d.day = DaysIn(d.month, d.year)
  IN  [d EXCEPT !.hour = 0, !.day = IF last THEN 1 ELSE @ + 1,
                !.month = IF last THEN (@ + 1) % 12 ELSE @,
                !.year = IF last /\ d.month = 11 THEN @ + 1 ELSE @,
                !.dayofweek = (@ + 1) % 7]
NextHour(d) == IF d.hour = 23 THEN NextDay(d) ELSE [d EXCEPT !.hour = @ + 1]

(* Daylight saving goes on at 2 on the second Sunday in March, off at 2 on *)
(* the first Sunday in November.                                           *)
GoesOn(d)  == d.month = 2 /\ d.dayofweek = 0 /\ d.day \in 8..14 /\ d.hour = 1 /\ ~d.dst
GoesOff(d) == d.month = 10 /\ d.dayofweek = 0 /\ d.day \in 1..7 /\ d.hour = 1 /\ d.dst
HourLater(d) ==
  IF dt_daylight = "auto" /\ GoesOn(d) THEN [NextHour(NextHour(d)) EXCEPT !.dst = TRUE]
  ELSE IF dt_daylight = "auto" /\ GoesOff(d) THEN [d EXCEPT !.dst = FALSE]
  ELSE NextHour(d)

(* The first hour of a day with daylight saving is shown with the name of  *)
(* the day before; named is what is meant.                                 *)
Named(d) == IF d.dst /\ d.hour = 0 THEN [d EXCEPT !.dayofweek = (@ + 1) % 7] ELSE d

(* With daylight saving on all year, the hour that would begin February 29 *)
(* or January 1 is shown as the first of a month that has not come.        *)
TurnsTooFar(now) ==
  /\ dt_daylight = "on" /\ now % SECPERDY = 23
  /\ LET y == YearOf(now)
         d == (now - Begins[y]) \div SECPERDY
     IN  d + 1 = DaysBefore(12, y) \/ (isleap(y) /\ d = 58)

(* From each hour to the next, through the ends of months and years, leap  *)
(* years and the changes of daylight saving, the date shown goes on as the *)
(* civil calendar does (1970-2099, ascdate.c:43), but for the name of the  *)
(* day after midnight (ascdate.c:113), and for two hours of the year when  *)
(* daylight saving is set on (ascdate.c:211).                              *)
DatesRight ==
  /\ ~TurnsTooFar(asked) /\ ~TurnsTooFar(asked + 1) =>
       Named(Ascdate(asked + 1)) = HourLater(Named(Ascdate(asked)))
  /\ asked = 0 /\ dt_daylight # "on" =>
       Ascdate(asked) = [dayofweek |-> 4, year |-> 1970, dst |-> FALSE,
                         month |-> 0, day |-> 1, hour |-> 0]
=============================================================================
