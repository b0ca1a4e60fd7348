------------------------------- MODULE EcDate -------------------------------
(***************************************************************************)
(* ec::Date and ec::Time (libeventc++11): a broken-down local time that    *)
(* setters change field by field and mktime normalises when a stamp is     *)
(* asked for, and a count of seconds.  One Date and one Time in a zone of  *)
(* fixed offset.  A stamp is a day since 1970 and a second of that day.    *)
(***************************************************************************)
EXTENDS Integers, FiniteSetsExt

CONSTANTS
  Zones,        \* seconds east of Greenwich
  Dates,        \* the dates given to the constructor: <<year, month, day, hour, minute, second>>
  Wdays,        \* what an uninitialised tm_wday may hold
  Numbers,      \* arguments of the add and set functions, by function
  MaxDateOps    \* bound on the calls

VARIABLES
  zone,
  tm,       \* Date::_tm
  tv,       \* Time::_tv.tv_sec
  last,     \* the last call: its name, argument, and the state before it
  dateOps

dateVars == <<zone, tm, tv, last, dateOps>>

DaySeconds == 86400

\* Division and remainder of C.
CDiv(a, b) == IF a >= 0 THEN a \div b ELSE -((-a) \div b)
CMod(a, b) == a - CDiv(a, b) * b

-----------------------------------------------------------------------------
(* The C library: the Gregorian calendar.                                  *)

Leap(y) == y % 4 = 0 /\ (y % 100 # 0 \/ y % 400 = 0)
DaysIn(y, mon) == CASE mon = 1 -> IF Leap(y) THEN 29 ELSE 28
                    [] mon \in {3, 5, 8, 10} -> 30
                    [] OTHER -> 31
Leaps(y) == y \div 4 - y \div 100 + y \div 400
NewYear(y) == 365 * (y - 1970) + Leaps(y - 1) - Leaps(1969)
Months(t) == (t.year + 1900) * 12 + t.mon
DayNumber(t) ==
  LET y == Months(t) \div 12
      m == Months(t) % 12
  IN NewYear(y) + MapThenSumSet(LAMBDA k : DaysIn(y, k), 0..(m - 1)) + t.mday - 1

Stamp(day, sec) == [day |-> day + sec \div DaySeconds, sec |-> sec % DaySeconds]

mktime(t) == Stamp(DayNumber(t), t.hour * 3600 + t.min * 60 + t.sec - zone)

localtime(s) ==
  LET l == Stamp(s.day, s.sec + zone)
      guess == 1970 + l.day \div 366
      y == CHOOSE n \in (guess - 2)..(guess + 2) : NewYear(n) <= l.day /\ l.day < NewYear(n + 1)
      First(m) == DayNumber([year |-> y - 1900, mon |-> m, mday |-> 1])
      mon == CHOOSE m \in 0..11 : First(m) <= l.day /\ l.day < First(m + 1)
  IN [year |-> y - 1900, mon |-> mon, mday |-> l.day - First(mon) + 1,
      hour |-> l.sec \div 3600, min |-> (l.sec % 3600) \div 60, sec |-> l.sec % 60,
      wday |-> (l.day + 4) % 7]

-----------------------------------------------------------------------------
(* Date.                                                                   *)

\* The constructor of six numbers leaves tm_wday as it is.
DateOf(d, w) == [year |-> d[1] - 1900, mon |-> d[2] - 1, mday |-> d[3],
                 hour |-> d[4], min |-> d[5], sec |-> d[6], wday |-> w]

DateInit ==
  /\ zone \in Zones
  /\ \E d \in Dates, w \in Wdays : tm = DateOf(d, w) /\ tv = mktime(DateOf(d, w))
  /\ last = [op |-> "none"] /\ dateOps = 0

\* What the getters year, month, day, hour, minute and second answer.
Shown(t) == <<t.year + 1900, t.mon + 1, t.mday, t.hour, t.min, t.sec>>

week(t) == IF t.wday > 0 THEN t.wday ELSE 7

isLeapYear(t) == (t.year + 1900) % 4 = 0 /\ (t.year + 1900) % 100 # 0

getMonthDays(t) ==
  CASE t.mon \in {0, 2, 4, 6, 7, 9, 11} -> 31
    [] t.mon \in {3, 5, 8, 10} -> 30
    [] t.mon = 1 -> IF isLeapYear(t) THEN 29 ELSE 28
    [] OTHER -> 0

isEndOfMonth(t) == t.mday >= getMonthDays(t)

Clamped(t) == IF t.mday > getMonthDays(t) THEN [t EXCEPT !.mday = getMonthDays(t)] ELSE t

addYear(t, n) == Clamped([t EXCEPT !.year = IF t.year + n < 0 THEN 0 ELSE t.year + n])

addMonth(t, n) ==
  Clamped([t EXCEPT !.year = t.year + CDiv(t.mon + n, 12), !.mon = CMod(t.mon + n, 12)])

addSecond(s, n) == Stamp(s.day, s.sec + n)
addSeconds(s, days, n) == addSecond([s EXCEPT !.day = @ + days], n)

sharpMinute(t) == [t EXCEPT !.sec = 0]
sharpHour(t)   == [t EXCEPT !.sec = 0, !.min = 0]
sharpDay(t)    == [t EXCEPT !.sec = 0, !.min = 0, !.hour = 0]
sharpMonth(t)  == [t EXCEPT !.sec = 0, !.min = 0, !.hour = 0, !.mday = 1]
sharpYear(t)   == [t EXCEPT !.sec = 0, !.min = 0, !.hour = 0, !.mday = 1, !.mon = 0]
sharpWeek(t)   == localtime(addSeconds(mktime(sharpDay(t)), 1 - week(t), 0))

setYear(t, n)   == [t EXCEPT !.year = IF n < 1900 THEN 0 ELSE n - 1900]
setMonth(t, n)  == [t EXCEPT !.mon  = IF CMod(n, 13) > 0 THEN CMod(n, 13) - 1 ELSE 0]
setDay(t, n)    == [t EXCEPT !.mday = IF CMod(n, 32) > 1 THEN CMod(n, 32) ELSE 1]
setHour(t, n)   == [t EXCEPT !.hour = IF CMod(n, 24) > 0 THEN CMod(n, 24) ELSE 0]
setMinute(t, n) == [t EXCEPT !.min  = IF CMod(n, 60) > 0 THEN CMod(n, 60) ELSE 0]
setSecond(t, n) == [t EXCEPT !.sec  = IF CMod(n, 60) > 0 THEN CMod(n, 60) ELSE 0]

DateResult(op, n) ==
  CASE op = "setYear" -> setYear(tm, n)     [] op = "setMonth" -> setMonth(tm, n)
    [] op = "setDay" -> setDay(tm, n)       [] op = "setHour" -> setHour(tm, n)
    [] op = "setMinute" -> setMinute(tm, n) [] op = "setSecond" -> setSecond(tm, n)
    [] op = "addYear" -> addYear(tm, n)     [] op = "addMonth" -> addMonth(tm, n)
    [] op = "addSecond" -> localtime(addSecond(mktime(tm), n))
    [] op = "sharpYear" -> sharpYear(tm)    [] op = "sharpMonth" -> sharpMonth(tm)
    [] op = "sharpWeek" -> sharpWeek(tm)    [] op = "sharpDay" -> sharpDay(tm)
    [] op = "sharpHour" -> sharpHour(tm)    [] op = "sharpMinute" -> sharpMinute(tm)
    [] op = "set" -> localtime(tv)

Called(op, n) ==
  /\ dateOps < MaxDateOps /\ dateOps' = dateOps + 1
  /\ last' = [op |-> op, n |-> n, tm |-> tm, tv |-> tv]
  /\ UNCHANGED zone

DateOp(op, n) == Called(op, n) /\ tm' = DateResult(op, n) /\ UNCHANGED tv

\* stamp, and toTime, which keeps it: mktime writes to the const _tm.
toTime == Called("toTime", 0) /\ tv' = mktime(tm) /\ tm' = localtime(mktime(tm))

-----------------------------------------------------------------------------
(* Time.                                                                   *)

\* To the multiple of u seconds that the division of C gives.
Down(s, u) ==
  LET r == s.sec % u
  IN IF s.day < 0 /\ r # 0 THEN Stamp(s.day, s.sec - r + u) ELSE Stamp(s.day, s.sec - r)
TimeSharpHour(s) == Down(s, 3600)
TimeSharpMinute(s) == Down(s, 60)

\* The product of a period, in the 64 bits of time_t.
Span(type, times) ==
  CASE type = "minute" -> Stamp(times \div 1440, 60 * (times % 1440))
    [] type = "hour" -> Stamp(times \div 24, 3600 * (times % 24))
    [] type = "day" -> Stamp(times, 0)
    [] type = "week" -> Stamp(7 * times, 0)

\* It is given to addSecond(int), which keeps its low 32 bits: 2^32 seconds are
\* 49710 days and 23296 seconds.
IsInt(p) ==
  /\ p.day \in -24856..24855
  /\ p.day = -24856 => p.sec >= 74752
  /\ p.day = 24855 => p.sec < 11648
ToInt(p) ==
  LET k == p.day \div 49710
      Less(j) == Stamp(p.day - 49710 * j, p.sec - 23296 * j)
  IN Less(CHOOSE j \in (k - 1)..(k + 1) : IsInt(Less(j)))

nextPeriod(s, type, times) ==
  CASE type \in {"minute", "hour", "day", "week"} ->
         LET p == ToInt(Span(type, times)) IN addSeconds(s, p.day, p.sec)
    [] type = "month" -> mktime(addMonth(localtime(s), times))
    [] type = "year" -> mktime(addYear(localtime(s), times))

getTimeZoneOffset == mktime(DateOf(<<1970, 1, 1, 0, 0, 0>>, 0))
utcStamp(s) == Stamp(s.day + getTimeZoneOffset.day, s.sec + getTimeZoneOffset.sec)
getFullDays(s) == LET u == utcStamp(s) IN IF u.day < 0 /\ u.sec # 0 THEN u.day + 1 ELSE u.day

Periods == {"minute", "hour", "day", "week", "month", "year"}
TimeResult(op, n) ==
  CASE op = "timeSharpHour" -> TimeSharpHour(tv)
    [] op = "timeSharpMinute" -> TimeSharpMinute(tv)
    [] op = "timeAddSecond" -> addSecond(tv, n)
    [] op \in Periods -> nextPeriod(tv, op, n)
TimeOp(op, n) == Called(op, n) /\ tv' = TimeResult(op, n) /\ UNCHANGED tm

NoArgument == {"sharpYear", "sharpMonth", "sharpWeek", "sharpDay", "sharpHour", "sharpMinute", "set"}
DateNext ==
  \/ \E op \in NoArgument : DateOp(op, 0)
  \/ \E op \in DOMAIN Numbers \ {"period"} : \E n \in Numbers[op] : DateOp(op, n)
  \/ toTime
  \/ \E op \in {"timeSharpHour", "timeSharpMinute"} : TimeOp(op, 0)
  \/ \E op \in {"month", "year"}, n \in Numbers["addMonth"] : TimeOp(op, n)
  \/ \E op \in {"minute", "hour", "day", "week", "timeAddSecond"}, n \in Numbers["period"] : TimeOp(op, n)

-----------------------------------------------------------------------------
(* Properties.                                                             *)

Legal(t) == t.mon \in 0..11 /\ t.mday \in 1..DaysIn(t.year + 1900, t.mon)
TimeOfDay(t) == <<t.hour, t.min, t.sec>>
Shorter(a, b) == IF a < b THEN a ELSE b

\* t is n months after s: the same day and time, or the month's last day.
After(s, n, t) ==
  /\ Months(t) = Months(s) + n
  /\ t.mday = Shorter(s.mday, DaysIn(t.year + 1900, t.mon))
  /\ TimeOfDay(t) = TimeOfDay(s)

\* The sum goes back before January, and not to a January: the remainder of C is
\* a negative month, which has no days.
Back(s, n) == s.mon + n < 0 /\ (s.mon + n) % 12 # 0

\* t is the last day of the month before the one that is n months after s.
DayBefore(s, n, t) ==
  /\ Months(t) = Months(s) + n - 1
  /\ t.mday = DaysIn(t.year + 1900, t.mon)
  /\ TimeOfDay(t) = TimeOfDay(s)

\* isLeapYear calls 2000 a common year.
LeapMissed(s, n) == LET m == Months(s) + n IN (m \div 12) % 400 = 0 /\ m % 12 = 1 /\ s.mday >= 29

\* What a call that adds n of them should move a stamp by.
Unit == [timeAddSecond |-> 1, minute |-> 60, hour |-> 3600, day |-> 86400, week |-> 604800]
MaxInt == 2147483647
Later(s, n) == Stamp(s.day + (n \div DaySeconds), s.sec + (n % DaySeconds))

=============================================================================
