---------------------------- MODULE MC_Deadline ----------------------------
(***************************************************************************)
(* startingDeadlineSeconds = 1 and a run period long enough to miss it:    *)
(* stops at 0 and 4, starts at 1 and 5.                                    *)
(***************************************************************************)
EXTENDS Reconciler

MC_EventSpecs ==
    << [action |-> "stop", at |-> {0, 4}],
       [action |-> "start", at |-> {1, 5}] >>

=============================================================================
