------------------------------ MODULE Schedule ------------------------------
(***************************************************************************)
(* The schedule evaluator of the operator (pkg/schedule): from the list of *)
(* start/stop event specs and the current instant, the nearest previous   *)
(* and next events, the most recent stop, the start of the current run    *)
(* period and whether the ControlledJob should be running.                *)
(*                                                                         *)
(* Time is an abstract, discrete set of instants already expressed in the *)
(* offset-shifted zone: findNearestScheduleTime adds the offset before the *)
(* cron search and subtracts it afterwards, so on this scale the two      *)
(* cancel.  A cron spec is abstracted to the set of instants it matches   *)
(* within the horizon; the cron arithmetic itself (cronPrev) is modelled  *)
(* separately.                                                            *)
(***************************************************************************)
EXTENDS Integers, SequencesExt

CONSTANTS
    MaxTime,     \* last instant of the modelled horizon
    EventSpecs   \* spec.events: a sequence of [action, at], at = matched instants

Instants == 0..MaxTime

\* nil time (the zero time.Time / a nil *time.Time in the code)
NoTime == -1

Actions == {"start", "stop"}

ASSUME /\ MaxTime \in Nat
       /\ \A i \in DOMAIN EventSpecs :
             /\ EventSpecs[i].action \in Actions
             /\ EventSpecs[i].at \subseteq Instants


\* Seeded fault for mutation analysis: the forward search includes t.
AdjacentEventTimeInclusive(spec, t, direction) ==
    LET matches == IF direction = "previous"
                   THEN {x \in spec.at : x =< t}
                   ELSE {x \in spec.at : x >= t}
    IN  IF matches = {} THEN NoTime
        ELSE IF direction = "previous" THEN Max(matches) ELSE Min(matches)

\* cronPrev (<= t) or SpecSchedule.Next (> t) of one spec; NoTime when the
\* spec has no match in that direction within the horizon.
AdjacentEventTime(spec, t, direction) ==
    LET matches == IF direction = "previous"
                   THEN {x \in spec.at : x =< t}
                   ELSE {x \in spec.at : x > t}
    IN  IF matches = {} THEN NoTime
        ELSE IF direction = "previous" THEN Max(matches) ELSE Min(matches)

NoEvent == [type |-> "none", time |-> NoTime]

\* eventIsNearer (util.go): is testTime nearer than the reference in the
\* given direction?  Any time is nearer than none, and the comparison is
\* strict.
EventIsNearer(testTime, referenceTime, direction) ==
    \/ referenceTime = NoTime
    \/ direction = "next" /\ testTime < referenceTime
    \/ direction # "next" /\ testTime > referenceTime

\* findNearestEvent with findNearestScheduleTime: the specs whose action
\* passes the filter, in list order; a spec with no adjacent time is
\* skipped and one whose time is nearer replaces the current nearest, so on
\* a tie the first spec in the list gives the event its type.
FindNearestEvent(t, direction, filter) ==
    LET consider(nearest, spec) ==
          LET adjacent == AdjacentEventTime(spec, t, direction) IN
          IF adjacent # NoTime /\ EventIsNearer(adjacent, nearest.time, direction)
          THEN [type |-> spec.action, time |-> adjacent]
          ELSE nearest
    IN  FoldLeft(consider, NoEvent,
                 SelectSeq(EventSpecs, LAMBDA spec : spec.action \in filter))

\* findMostRecentStopTime
MostRecentStopTime(t) == FindNearestEvent(t, "previous", {"stop"}).time

HasAnyStartEvent == \E i \in DOMAIN EventSpecs : EventSpecs[i].action = "start"

\* findStartOfCurrentRunPeriod: the first start strictly after the last
\* stop.  With no previous stop, a schedule that has start events is
\* refused (start-only schedules are unsupported) and one without is nil.
StartOfCurrentRunPeriod(t) ==
    LET lastStop == MostRecentStopTime(t) IN
    IF lastStop = NoTime
    THEN IF HasAnyStartEvent THEN [err |-> "startOnly", time |-> NoTime]
                             ELSE [err |-> "none", time |-> NoTime]
    ELSE [err |-> "none",
          time |-> FindNearestEvent(lastStop, "next", {"start"}).time]

\* state.ShouldBeRunning: the previous event is a start
ShouldBeRunning(previous) == previous.type = "start"

\* state.NextEventTime: nil (NoTime) when there is no next event
NextEventTime(next) == next.time

\* schedule.StateFor: the previous and next events, the most recent stop
\* and the start of the current run period, with the derived
\* ShouldBeRunning and NextEventTime of the returned state.
StateFor(t) ==
    LET previous == FindNearestEvent(t, "previous", Actions)
        next == FindNearestEvent(t, "next", Actions)
        period == StartOfCurrentRunPeriod(t)
    IN  [err |-> period.err,
         shouldBeRunning |-> ShouldBeRunning(previous),
         startOfCurrentRunPeriod |-> period.time,
         lastStopTime |-> MostRecentStopTime(t),
         nextEventTime |-> NextEventTime(next)]

\* StateFor of every instant of the horizon.  It depends on constants
\* only, so TLC evaluates it once.
ScheduleAt == [t \in Instants |-> StateFor(t)]

=============================================================================
