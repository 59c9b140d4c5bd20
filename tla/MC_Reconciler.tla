--------------------------- MODULE MC_Reconciler ---------------------------
(***************************************************************************)
(* A ControlledJob with a stop at 0 and 2 and a start at 1 and 3: one whole *)
(* run period, a stop, and the start of the next period.  Recreate on spec *)
(* change is on, no starting deadline, no mutators.                        *)
(***************************************************************************)
EXTENDS Reconciler

MC_EventSpecs ==
    << [action |-> "stop", at |-> {0, 2}],
       [action |-> "start", at |-> {1, 3}] >>

=============================================================================
