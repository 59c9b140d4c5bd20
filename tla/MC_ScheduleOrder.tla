-------------------------- MODULE MC_ScheduleOrder --------------------------
(***************************************************************************)
(* The schedule state at every instant of the horizon, evaluated on the    *)
(* event list as written and on the same list reversed.                    *)
(***************************************************************************)
EXTENDS Schedule

VARIABLE t

Reordered == INSTANCE Schedule WITH EventSpecs <- Reverse(EventSpecs)

\* A start and a stop that coincide at instant 2.
MC_EventSpecs ==
    << [action |-> "stop", at |-> {0, 2}],
       [action |-> "start", at |-> {1, 2, 3}] >>

Init == t = 0
Next == t < MaxTime /\ t' = t + 1
Spec == Init /\ [][Next]_t

\* spec.events is an "ordered-irrelevant" list: the schedule state that
\* StateFor computes (shouldBeRunning, start of the run period, last stop,
\* next event) does not depend on the order of the events.
ScheduleOrderIrrelevant == StateFor(t) = Reordered!StateFor(t)

=============================================================================
