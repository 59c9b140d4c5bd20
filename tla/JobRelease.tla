----------------------------- MODULE JobRelease -----------------------------
(***************************************************************************)
(* What the operator promises the cluster about the Jobs of one           *)
(* ControlledJob, with the schedule, the queue, the cache and the steps of *)
(* a reconcile hidden.  A Job is a record of the five facts the promise   *)
(* is about: suspended, stopped by the user, being deleted, finished      *)
(* (Complete or Failed), and running a pod.                               *)
(*                                                                         *)
(* The one rule is that of the unsuspend guard in makeDecision, stated    *)
(* at the moment of the write: a Job is released (created unsuspended, or *)
(* unsuspended) only when every other Job is dormant, that is, has no pod *)
(* and cannot start one until it is released.  Like the acquisition of   *)
(* an abstract lock, a release is one atomic step here, where the         *)
(* operator reads, decides and writes in separate steps.  Everything else *)
(* the operator, the user and Kubernetes do to a Job keeps its shape:     *)
(* creates start unfinished with no pod, deletes only mark, a stop        *)
(* suspends, a pod starts only in a released, unfinished Job that is not  *)
(* being deleted, and a Job leaves the cluster only once it is being      *)
(* deleted and has no pod.                                                *)
(***************************************************************************)

VARIABLE jobs   \* name -> [suspend, userStop, deleting, finished, pod]

\* No pod, and none can start before the Job is released.
Dormant(j) == ~j.pod /\ (j.finished \/ j.suspend \/ j.deleting)

\* Every Job other than the one named n is dormant.
Alone(n) == \A m \in DOMAIN jobs \ {n} : Dormant(jobs[m])

Init == DOMAIN jobs = {}

\* A new Job (by the operator, or a manual one by the user): unfinished,
\* no pod, not being deleted, and suspended unless it is alone.
Create ==
    \E n \in DOMAIN jobs' \ DOMAIN jobs :
        /\ DOMAIN jobs' = DOMAIN jobs \cup {n}
        /\ \A m \in DOMAIN jobs : jobs'[m] = jobs[m]
        /\ ~jobs'[n].pod /\ ~jobs'[n].deleting /\ ~jobs'[n].finished
        /\ ~jobs'[n].userStop
        /\ jobs'[n].suspend \/ Alone(n)

\* The operator unsuspends a Job that the user did not stop.
Release(n) ==
    /\ jobs[n].suspend /\ ~jobs[n].deleting /\ ~jobs[n].userStop
    /\ Alone(n)
    /\ jobs' = [jobs EXCEPT ![n].suspend = FALSE]

\* A foreground delete marks the Job.
Delete(n) == jobs' = [jobs EXCEPT ![n].deleting = TRUE]

\* The user stops a Job.
Stop(n) ==
    /\ ~jobs[n].deleting
    /\ jobs' = [jobs EXCEPT ![n].suspend = TRUE, ![n].userStop = TRUE]

PodStarts(n) ==
    /\ ~jobs[n].pod /\ ~jobs[n].finished /\ ~jobs[n].suspend /\ ~jobs[n].deleting
    /\ jobs' = [jobs EXCEPT ![n].pod = TRUE]

\* The pod ends, and the Job may finish with it.
PodEnds(n) ==
    /\ jobs[n].pod
    /\ \E f \in {jobs[n].finished, TRUE} :
         jobs' = [jobs EXCEPT ![n].pod = FALSE, ![n].finished = f]

Gone(n) ==
    /\ jobs[n].deleting /\ ~jobs[n].pod
    /\ jobs' = [m \in DOMAIN jobs \ {n} |-> jobs[m]]

Next ==
    \/ Create
    \/ \E n \in DOMAIN jobs :
         Release(n) \/ Delete(n) \/ Stop(n) \/ PodStarts(n) \/ PodEnds(n) \/ Gone(n)

Spec == Init /\ [][Next]_jobs
=============================================================================
