------------------------- MODULE MC_ReconcileStatus -------------------------
EXTENDS ReconcileStatus

\* Stops at 0 and 2, starts at 1 and 3: a whole run period, its stop and
\* the next start.
MC_EventSpecs == << [action |-> "stop", at |-> {0, 2}],
                    [action |-> "start", at |-> {1, 3}] >>
\* One run period, 1 to 2, and its stop.
MC_OnePeriod == << [action |-> "stop", at |-> {0, 2}],
                   [action |-> "start", at |-> {1}] >>
=============================================================================
