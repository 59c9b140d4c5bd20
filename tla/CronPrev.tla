------------------------------ MODULE CronPrev ------------------------------
(***************************************************************************)
(* cronPrev (pkg/schedule/cron_prev.go): the latest instant at or before   *)
(* t that a cron spec matches, searched backwards field by field, or the   *)
(* zero time when none lies within YearsBack years.                        *)
(*                                                                         *)
(* Time is a reduced wall-clock calendar in the spec's location: the       *)
(* fields of time.Time as a record [y, mo, d, h, mi, s], NumMonths months  *)
(* whose lengths DaysIn(y, mo) may depend on the year, and days of         *)
(* NumHours hours of NumMinutes minutes of NumSeconds seconds.  A cron     *)
(* field bitmask is the set of values it allows; the star bit of           *)
(* day-of-month and day-of-week is a flag.  t.In(location) changes no      *)
(* instant, and the calendar has no DST transitions, so the conversions    *)
(* at the start and the end of cronPrev are the identity here.             *)
(***************************************************************************)
EXTENDS Integers

CONSTANTS
    FirstYear, LastYear,        \* the years the calendar spans
    NumMonths, NumHours, NumMinutes, NumSeconds,
    NumWeekdays,                \* 7 in the code
    FirstWeekday,               \* weekday of the first day of FirstYear
    DaysIn(_, _),               \* DaysIn(y, mo): length of a month
    YearsBack                   \* 5 in the code

Years == FirstYear..LastYear
Months == 1..NumMonths
MaxDays == 31   \* the range of the day-of-month field

Instants ==
    UNION {{[y |-> y, mo |-> mo, d |-> d, h |-> h, mi |-> mi, s |-> sec] :
              d \in 1..DaysIn(y, mo), h \in 0..NumHours - 1,
              mi \in 0..NumMinutes - 1, sec \in 0..NumSeconds - 1} :
           y \in Years, mo \in Months}

\* time.Time{}
ZeroTime == [y |-> 0, mo |-> 0, d |-> 0, h |-> 0, mi |-> 0, s |-> 0]

\* a strictly before b
Before(a, b) ==
    LET fa == <<a.y, a.mo, a.d, a.h, a.mi, a.s>>
        fb == <<b.y, b.mo, b.d, b.h, b.mi, b.s>>
    IN  \E i \in 1..6 : fa[i] < fb[i] /\ \A j \in 1..(i - 1) : fa[j] = fb[j]

\* t.Add(-1 * time.Second): borrow from the fields above as needed
Minus1(t) ==
    LET maxS == [t EXCEPT !.s = NumSeconds - 1]
        maxMi == [maxS EXCEPT !.mi = NumMinutes - 1]
        maxH == [maxMi EXCEPT !.h = NumHours - 1]
    IN  CASE t.s > 0 -> [t EXCEPT !.s = @ - 1]
          [] t.mi > 0 -> [maxS EXCEPT !.mi = @ - 1]
          [] t.h > 0 -> [maxMi EXCEPT !.h = @ - 1]
          [] t.d > 1 -> [maxH EXCEPT !.d = @ - 1]
          [] t.mo > 1 -> [maxH EXCEPT !.mo = @ - 1, !.d = DaysIn(t.y, t.mo - 1)]
          [] OTHER -> [maxH EXCEPT !.y = @ - 1, !.mo = NumMonths,
                                   !.d = DaysIn(t.y - 1, NumMonths)]

\* time.Date(...) with the fields below the given one zeroed
StartOfMonth(t) == [t EXCEPT !.d = 1, !.h = 0, !.mi = 0, !.s = 0]
StartOfDay(t) == [t EXCEPT !.h = 0, !.mi = 0, !.s = 0]
StartOfHour(t) == [t EXCEPT !.mi = 0, !.s = 0]
StartOfMinute(t) == [t EXCEPT !.s = 0]

\* days from the first day of FirstYear to the first day of month mo of y
RECURSIVE DaysBefore(_, _)
DaysBefore(y, mo) ==
    IF mo > 1 THEN DaysBefore(y, mo - 1) + DaysIn(y, mo - 1)
    ELSE IF y > FirstYear THEN DaysBefore(y - 1, NumMonths) + DaysIn(y - 1, NumMonths)
    ELSE 0

Weekday(t) == (FirstWeekday + DaysBefore(t.y, t.mo) + t.d - 1) % NumWeekdays

\* dayMatches: with a star in either day field both must match, else
\* either suffices.
DayMatches(s, t) ==
    LET domMatch == t.d \in s.dom
        dowMatch == Weekday(t) \in s.dow
    IN  IF s.domStar \/ s.dowStar THEN domMatch /\ dowMatch
        ELSE domMatch \/ dowMatch

(***************************************************************************)
(* The search.  Each loop of cronPrev is an operator; "goto WRAP" is a     *)
(* call of Wrap, which re-checks the year limit and starts again from the  *)
(* month.                                                                  *)
(***************************************************************************)
RECURSIVE Wrap(_, _, _), MonthLoop(_, _, _), DayLoop(_, _, _),
          HourLoop(_, _, _), MinuteLoop(_, _, _), SecondLoop(_, _, _)

Wrap(s, t, yearLimit) ==
    IF t.y < yearLimit THEN ZeroTime ELSE MonthLoop(s, t, yearLimit)

MonthLoop(s, t, yearLimit) ==
    IF t.mo \in s.month THEN DayLoop(s, t, yearLimit)
    ELSE LET t2 == Minus1(StartOfMonth(t))
         IN  IF t2.mo = NumMonths THEN Wrap(s, t2, yearLimit)
             ELSE MonthLoop(s, t2, yearLimit)

\* Seeded fault: no "goto WRAP" when the day loop steps back over the 1st.
DayLoopNoWrap(s, t, yearLimit) ==
    IF DayMatches(s, t) THEN HourLoop(s, t, yearLimit)
    ELSE DayLoop(s, Minus1(StartOfDay(t)), yearLimit)

DayLoop(s, t, yearLimit) ==
    IF DayMatches(s, t) THEN HourLoop(s, t, yearLimit)
    ELSE LET t0 == StartOfDay(t)
             needToWrapBack == t0.d = 1
             t2 == Minus1(t0)
         IN  IF needToWrapBack THEN Wrap(s, t2, yearLimit)
             ELSE DayLoop(s, t2, yearLimit)

HourLoop(s, t, yearLimit) ==
    IF t.h \in s.hour THEN MinuteLoop(s, t, yearLimit)
    ELSE LET t2 == Minus1(StartOfHour(t))
         IN  IF t2.h = NumHours - 1 THEN Wrap(s, t2, yearLimit)
             ELSE HourLoop(s, t2, yearLimit)

MinuteLoop(s, t, yearLimit) ==
    IF t.mi \in s.minute THEN SecondLoop(s, t, yearLimit)
    ELSE LET t2 == Minus1(StartOfMinute(t))
         IN  IF t2.mi = NumMinutes - 1 THEN Wrap(s, t2, yearLimit)
             ELSE MinuteLoop(s, t2, yearLimit)

SecondLoop(s, t, yearLimit) ==
    IF t.s \in s.second THEN t
    ELSE LET t2 == Minus1(t)
         IN  IF t2.s = NumSeconds - 1 THEN Wrap(s, t2, yearLimit)
             ELSE SecondLoop(s, t2, yearLimit)

\* cronPrev
CronPrev(s, t) == Wrap(s, t, t.y - YearsBack)

====
