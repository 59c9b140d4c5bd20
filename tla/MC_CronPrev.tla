---------------------------- MODULE MC_CronPrev ----------------------------
(***************************************************************************)
(* Checks cronPrev against its contract on a reduced calendar: for every  *)
(* spec of a set covering each field and both day-field combinations, and *)
(* every instant t of the last two years, the search returns the latest   *)
(* instant at or before t that matches every field, or the zero time when *)
(* there is none within YearsBack years.  The state is the input pair;    *)
(* the clock steps back one second at a time, so every t is visited.      *)
(***************************************************************************)
EXTENDS CronPrev

VARIABLES spec, t

\* Two months, of 2 days, and of 3 days in even years; three weekdays.
MC_DaysIn(y, mo) == IF mo = 1 THEN 2 ELSE IF y % 2 = 0 THEN 3 ELSE 2

\* A parsed cron spec (cron.SpecSchedule); a star field allows every value.
Specs ==
    [month : {{1}, {2}, {1, 2}},
     dom : {{1}, {3}, {1, 2}},
     dow : {{0}, {1, 2}},
     hour : {{0}, {1}, {0, 1}},
     minute : {{1}, {0, 1}},
     second : {{0}, {1}},
     domStar : {FALSE}, dowStar : {FALSE}]
    \cup
    [month : {{1, 2}}, dom : {1..MaxDays}, dow : {{0}, {1, 2}},
     hour : {{1}}, minute : {{0}}, second : {{0, 1}},
     domStar : {TRUE}, dowStar : {FALSE}]
    \cup
    [month : {{2}}, dom : {{1}, {3}}, dow : {0..NumWeekdays - 1},
     hour : {{0}}, minute : {{1}}, second : {{1}},
     domStar : {FALSE}, dowStar : {TRUE}]

\* The latest instant of the calendar, and the earliest input: the search
\* from it may still look one year further back.
LastInstant == [y |-> LastYear, mo |-> NumMonths, d |-> DaysIn(LastYear, NumMonths),
                h |-> NumHours - 1, mi |-> NumMinutes - 1, s |-> NumSeconds - 1]
EarliestInputYear == FirstYear + YearsBack

Init == spec \in Specs /\ t = LastInstant

StepBack ==
    /\ Before([LastInstant EXCEPT !.y = EarliestInputYear, !.mo = 1, !.d = 1,
                                  !.h = 0, !.mi = 0, !.s = 0], t)
    /\ t' = Minus1(t)
    /\ UNCHANGED spec

Spec == Init /\ [][StepBack]_<<spec, t>>

Matches(s, u) ==
    /\ u.mo \in s.month /\ DayMatches(s, u) /\ u.h \in s.hour
    /\ u.mi \in s.minute /\ u.s \in s.second

LatestOf(c) == IF c = {} THEN ZeroTime ELSE CHOOSE u \in c : \A v \in c : ~Before(u, v)

\* The contract of cronPrev (its doc comment, spec 4.1): the greatest
\* instant at or before t that matches every field, searched no further
\* back than YearsBack years before t's year, else the zero time.  It is
\* what the month/day/hour/minute/second loops with their "goto WRAP"
\* restarts must compute, whatever field wraps around where.
CronPrevIsLatestMatch ==
    CronPrev(spec, t)
        = LatestOf({u \in Instants : ~Before(t, u) /\ u.y >= t.y - YearsBack /\ Matches(spec, u)})
=============================================================================
