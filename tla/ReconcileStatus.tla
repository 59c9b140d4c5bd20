-------------------------- MODULE ReconcileStatus --------------------------
(***************************************************************************)
(* The status the operator writes back (pkg/reconciliation/reconcile.go,  *)
(* the status parts of decision.go, api/v1 helpers.go, pkg/events).  One  *)
(* reconcile is one atomic step here: load, decide, execute the plan in   *)
(* list order, compute the overall conditions and write the status.  The  *)
(* interleavings inside a reconcile are the Reconciler module's subject;  *)
(* this one follows what the status becomes, and whether a reconcile on   *)
(* unchanged inputs changes it.  Every status change is a watch event on  *)
(* the ControlledJob (For() has no predicate), hence another reconcile.   *)
(*                                                                         *)
(* A condition is [status, reason, msg].  Its LastTransitionTime is       *)
(* time.Now() of the reconcile that last changed its status; wall time    *)
(* moves on between reconciles, so a reconcile that restamps a condition  *)
(* always changes the object.  So does a history entry that is             *)
(* prepended: its Timestamp is NowFunc().  The model records the set of    *)
(* conditions a reconcile restamped, with "ActionHistory" for a new        *)
(* entry, instead of the time itself.                                      *)
(***************************************************************************)
EXTENDS Decision, ActionHistory

CONSTANTS
    MaxVersion,       \* template versions (edits + 1)
    ManualRuns,       \* run ids the generate-job command may use
    MaxFaults,        \* failed cluster calls and status writes
    MaxUserOps,       \* suspend toggles, user stops, manual Jobs
    UserSuspends,     \* whether the user may toggle spec.suspend
    RandomListOrder   \* the List result comes in any order (informer index)

VARIABLES
    jobs,      \* the Jobs in the cluster: name -> Job
    cj,        \* the ControlledJob spec: [suspend, hash]
    now,       \* the current schedule instant
    status,    \* the persisted ControlledJob status
    changed,   \* the last status write changed the object
    lastIn,    \* inputs of the last step if it was a reconcile with no fault
    rerun,     \* the last step was a reconcile with no fault on the very
               \* inputs of the fault-free reconcile just before it
    faults, userOps

vars == <<jobs, cj, now, status, changed, lastIn, rerun, faults, userOps>>

Versions == 1..MaxVersion
NoIn == <<>>
NoErr == NoMsg

CondTypes == {"ShouldBeRunning", "Suspended", "OutOfDate", "JobManuallyScheduled",
              "JobExists", "JobRunning", "JobComplete", "JobFailed",
              "JobBeingDeleted", "JobSuspended", "JobStoppedByUser",
              "FailedToCreateJob", "FailedToUnsuspendJob", "FailedToDeleteJob",
              "StartingDeadlineExceeded", "RunningExpectedly",
              "RunningUnexpectedly", "NotRunningExpectedly",
              "NotRunningUnexpectedly", "Error"}

Job == [sched : Instants, run : Nat, hash : Versions, manual : BOOLEAN,
        suspend : BOOLEAN, userStop : BOOLEAN, deleting : BOOLEAN,
        cond : JobConds, pod : BOOLEAN]

TypeOK ==
    /\ \A n \in DOMAIN jobs : jobs[n] \in Job /\ Name(jobs[n]) = n
    /\ cj \in [suspend : BOOLEAN, hash : Versions]
    /\ now \in Instants
    /\ DOMAIN status.conditions \subseteq CondTypes
    /\ \A c \in DOMAIN status.conditions :
         status.conditions[c].status \in {"True", "False", "Unknown"}
    /\ Len(status.actionHistory) =< HistoryEntriesToKeep
    /\ changed \in BOOLEAN /\ rerun \in BOOLEAN
    /\ faults \in 0..MaxFaults /\ userOps \in 0..MaxUserOps

EmptyJobs == [n \in {} |-> NoJob]

\* A ControlledJob that has never been reconciled.
Init ==
    /\ jobs = EmptyJobs
    /\ cj \in [suspend : IF UserSuspends THEN BOOLEAN ELSE {FALSE}, hash : {1}]
    /\ now = 0
    /\ status = [conditions |-> [c \in {} |-> NoJob], active |-> <<>>,
                 isRunning |-> FALSE, isSuspended |-> FALSE,
                 lastScheduledStartTime |-> NoTime, shouldBeRunning |-> FALSE,
                 mostRecentAction |-> NoAction, actionHistory |-> <<>>]
    /\ changed = FALSE
    /\ lastIn = NoIn /\ rerun = FALSE
    /\ faults = 0 /\ userOps = 0

(***************************************************************************)
(* SetCondition and the conditions computed after the plan                *)
(***************************************************************************)

\* A status being built by one reconcile: the status record s, the
\* conditions it restamped, the Jobs in the cluster and the error so far.
Acc(s, js) == [s |-> s, stamped |-> {}, jobs |-> js, err |-> NoErr]

\* v1.SetCondition: append a new condition, or overwrite status, reason
\* and message of the existing one, restamping LastTransitionTime only when
\* the status changes.  (A zero LastTransitionTime is never left by this
\* function, so that case does not arise.)
SetCondition(acc, w) ==
    LET conds == acc.s.conditions
        entry == [status |-> w.status, reason |-> w.reason, msg |-> w.msg]
        restamp == w.type \notin DOMAIN conds \/ conds[w.type].status # w.status
    IN  [acc EXCEPT
           !.s.conditions = IF w.type \in DOMAIN conds
                            THEN [conds EXCEPT ![w.type] = entry]
                            ELSE conds @@ (w.type :> entry),
           !.stamped = IF restamp THEN @ \cup {w.type} ELSE @]

ApplyWrites(acc, writes) == FoldLeft(SetCondition, acc, writes)

\* CoerceConditionToBoolen(FindCondition(...))
IsTrue(conds, type) == type \in DOMAIN conds /\ conds[type].status = "True"

\* The four derived conditions of calculateOverallConditions, each written
\* once, in the code's order; the one that holds is True, the others are
\* Unknown with reason CannotDetermine.
DerivedTypes == <<"RunningExpectedly", "RunningUnexpectedly",
                  "NotRunningExpectedly", "NotRunningUnexpectedly">>

\* The derived condition that holds and its reason; msg tells apart the
\* two messages of the schedule and the manual branch.
DerivedTrue(conds) ==
    LET jobFailed == IsTrue(conds, "JobFailed")
        jobExistsAndNotFailed == IsTrue(conds, "JobExists") /\ ~jobFailed
        shouldBeRunning == IsTrue(conds, "ShouldBeRunning")
        manual == IsTrue(conds, "JobManuallyScheduled")
        failReason == IF jobFailed THEN "JobFailed" ELSE "NoJobExists"
    IN  CASE jobExistsAndNotFailed /\ shouldBeRunning ->
               <<"RunningExpectedly", "RunningBasedOnSchedule", NoMsg>>
          [] jobExistsAndNotFailed /\ manual ->
               <<"RunningExpectedly", "RunningManually", NoMsg>>
          [] jobExistsAndNotFailed ->
               <<"RunningUnexpectedly", "RunningUnexpectedly", NoMsg>>
          [] shouldBeRunning -> <<"NotRunningUnexpectedly", failReason, [NoMsg EXCEPT !.kind = "schedule"]>>
          [] manual -> <<"NotRunningUnexpectedly", failReason, [NoMsg EXCEPT !.kind = "manual"]>>
          [] OTHER -> <<"NotRunningExpectedly", "NotRunningExpectedly", NoMsg>>

ErrorWrite(err) ==
    IF err = NoErr THEN Cond("Error", "False", "NoError")
    ELSE [Cond("Error", "True", "Error") EXCEPT !.msg = err]

\* Seeded fault: the derived conditions first all set to Unknown, then the
\* one that holds overridden to True (the order the code's comment warns
\* against).
OverallWritesUnknownFirst(conds, err) ==
    LET t == DerivedTrue(conds) IN
    <<ErrorWrite(err)>>
    \o [i \in 1..4 |-> Cond(DerivedTypes[i], "Unknown", "CannotDetermine")]
    \o <<[type |-> t[1], status |-> "True", reason |-> t[2], msg |-> t[3]]>>

\* calculateOverallConditions: the Error condition, then the four derived
\* ones read from the conditions as they stand.
OverallWrites(conds, err) ==
    LET t == DerivedTrue(conds) IN
    <<ErrorWrite(err)>>
    \o [i \in 1..4 |->
          IF DerivedTypes[i] = t[1]
          THEN [type |-> t[1], status |-> "True", reason |-> t[2], msg |-> t[3]]
          ELSE Cond(DerivedTypes[i], "Unknown", "CannotDetermine")]

(***************************************************************************)
(* Executing the plan                                                      *)
(***************************************************************************)

\* status.active: the potentially running Jobs, in list order.
ActiveRefs(order) ==
    LET sel == SelectSeq(order, IsJobPotentiallyRunning)
    IN  [i \in 1..Len(sel) |-> Name(sel[i])]

\* Decision.JobsToDelete in order: every Job of a suspended ControlledJob
\* in list order; otherwise the expired ones, then the others, each in
\* list order.
DeleteOrder(order, core) ==
    LET del(j) == Name(j) \in core.plan.delete
        names(sq) == [i \in 1..Len(sq) |-> Name(sq[i])]
    IN  IF core.stage = "suspended" THEN names(order)
        ELSE names(SelectSeq(order, LAMBDA j : del(j) /\ Name(j) \in core.expired))
             \o names(SelectSeq(order, LAMBDA j : del(j) /\ Name(j) \notin core.expired))

\* The cluster calls of the plan: deletes, creates, then unsuspends
\* (JobsToSuspend is never filled).
Calls(order, core) ==
    LET d == DeleteOrder(order, core)
        c == SetToSeq(core.plan.create)
        u == SetToSeq(core.plan.unsuspend)
    IN  [i \in 1..Len(d) |-> [op |-> "delete", name |-> d[i], job |-> NoJob]]
        \o [i \in 1..Len(c) |-> [op |-> "create", name |-> Name(c[i]), job |-> c[i]]]
        \o [i \in 1..Len(u) |-> [op |-> "unsuspend", name |-> Name(u[i]), job |-> u[i]]]

FailedCond == [delete |-> "FailedToDeleteJob", create |-> "FailedToCreateJob",
               unsuspend |-> "FailedToUnsuspendJob"]

\* The warning event types (events.go): IsWarningEvent holds of exactly
\* the types that start with "Failed".
WarningEvents ==
    {"FailedToReconcile", "FailedToListJobs", "FailedToListJobsForPeriod",
     "FailedToUpdateStatus", "FailedToCalculateSchedule",
     "FailedToCalculateDesiredStatus", "FailedToTemplateJob",
     "FailedToCreateJob", "FailedToDeleteJob", "FailedToSuspendJob",
     "FailedToUnsuspendJob"}

\* recordFailedReconcile: nothing without an error; otherwise the failed
\* action, typed by the event a cluster call wrapped its error with, or
\* FailedToReconcile for an error of makeDecision.  NewFailedAction names
\* no Job; its message, the error text, is kept as the name of the Job
\* the error is about.
RecordFailedReconcile(s, err) ==
    IF err = NoErr THEN s
    ELSE RecordEvent(s, [type |-> IF err.op = "decide" THEN "FailedToReconcile"
                                  ELSE FailedCond[err.op],
                         job |-> err.name])

\* One call of the three loops of Reconcile.  A foreground Delete marks
\* the Job as being deleted (NotFound is ignored); Create fails with
\* AlreadyExists on a taken name; a failure sets the operation's condition
\* and stops the plan.  Each success records its action.
CallResult(acc, c, fault) ==
    LET exists == c.op = "create" /\ c.name \in DOMAIN acc.jobs
        ok == ~fault /\ ~exists
        js == acc.jobs
        effect == CASE c.op = "delete" ->
                         IF c.name \in DOMAIN js
                         THEN [js EXCEPT ![c.name].deleting = TRUE] ELSE js
                    [] c.op = "create" -> js @@ (c.name :> c.job)
                    [] OTHER -> [js EXCEPT ![c.name].suspend = FALSE]
        successWrite == CASE c.op = "delete" -> Cond("FailedToDeleteJob", "False", "DeletedJob")
                          [] c.op = "create" -> Cond("FailedToCreateJob", "False", "CreatedJob")
                          [] OTHER -> Cond("FailedToUnsuspendJob", "True", "UnsuspendedJob")
        action == [type |-> CASE c.op = "delete" -> "JobStopped"
                              [] c.op = "create" -> "JobStarted"
                              [] OTHER -> "JobUnsuspended",
                   job |-> c.name]
        err == [op |-> c.op, name |-> c.name,
                kind |-> IF exists THEN "alreadyExists" ELSE "api"]
    IN  IF ok
        THEN [SetCondition([acc EXCEPT !.s = RecordEvent(@, action)], successWrite)
              EXCEPT !.jobs = effect,
                     !.stamped = IF AddsEntry(acc.s, action, TRUE)
                                 THEN @ \cup {"ActionHistory"} ELSE @]
        ELSE [SetCondition(acc, [Cond(FailedCond[c.op], "True", FailedCond[c.op])
                                   EXCEPT !.msg = err])
              EXCEPT !.err = err]

\* The calls from the i-th on; the call numbered failAt fails.
RECURSIVE Execute(_, _, _, _)
Execute(acc, calls, i, failAt) ==
    IF i > Len(calls) \/ acc.err # NoErr THEN acc
    ELSE Execute(CallResult(acc, calls[i], i = failAt), calls, i + 1, failAt)

(***************************************************************************)
(* One reconcile                                                           *)
(***************************************************************************)

\* Job names in a fixed order (scheduled instant, then run id).
NameBefore(a, b) == a.sched < b.sched \/ (a.sched = b.sched /\ a.run < b.run)

\* The orders the List of child Jobs may come in.
ListOrders ==
    IF RandomListOrder THEN SetToSeqs(Range(jobs))
    ELSE {SetToSortSeq(Range(jobs), NameBefore)}

\* The deferred calls of Reconcile, last registered first: the status
\* defer (calculateOverallConditions, then UpdateStatus sends final.s),
\* then recordFailedReconcile, which adds the failed action to the object
\* already sent (memory); the reconcile returns and that object is dropped.
Deferred(run) ==
    LET final == ApplyWrites(run, OverallWrites(run.s.conditions, run.err))
    IN  [s |-> final.s, stamped |-> final.stamped,
         memory |-> RecordFailedReconcile(final.s, run.err)]

\* Reconcile with the Jobs listed in the given order, the failAt-th call
\* failing (0: none) and the status write succeeding or not.  makeDecision
\* writes the schedule fields and its conditions (the deferred IsRunning
\* and status.active only past the suspended return), the plan runs,
\* calculateOverallConditions runs, and the deferred UpdateStatus writes
\* the result.  recordFailedReconcile, deferred first, runs after that
\* write, so the failed action it adds never reaches the cluster.
Outcome(order, failAt, statusOk) ==
  Bind(DecisionCore(cj, jobs, now, TRUE), LAMBDA core :
  LET st == ScheduleAt[now]
      decided ==
        IF core.stage = "schedule" THEN status
        ELSE [status EXCEPT
                !.isSuspended = cj.suspend,
                !.lastScheduledStartTime = st.startOfCurrentRunPeriod,
                !.shouldBeRunning = core.plan.shouldBeRunning,
                !.isRunning = IF core.stage = "body" THEN core.chosen # NoJob ELSE @,
                !.active = IF core.stage = "body" THEN ActiveRefs(order) ELSE @]
      written == ApplyWrites(Acc(decided, jobs), core.writes)
      calls == Calls(order, core)
  IN
  Bind(IF core.plan.err # "none"
       THEN [written EXCEPT !.err = [NoErr EXCEPT !.op = "decide", !.kind = core.plan.err]]
       ELSE Execute(written, calls, 1, failAt), LAMBDA run :
  LET final == Deferred(run)
  IN  [ok |-> failAt \in 0..(IF core.plan.err # "none" THEN 0 ELSE Len(calls)),
       jobs |-> run.jobs,
       status |-> IF statusOk THEN final.s ELSE status,
       changed |-> statusOk /\ (final.s # status \/ final.stamped # {}),
       lastIn |-> IF failAt = 0 /\ statusOk THEN <<jobs, cj, now>> ELSE NoIn,
       faults |-> faults + (IF failAt = 0 THEN 0 ELSE 1) + (IF statusOk THEN 0 ELSE 1)]))

ReconcileWith(order, failAt, statusOk) ==
  \E o \in {Outcome(order, failAt, statusOk)} :
     /\ o.ok
     /\ jobs' = o.jobs /\ status' = o.status /\ changed' = o.changed
     /\ lastIn' = o.lastIn /\ faults' = o.faults
     /\ rerun' = (lastIn # NoIn /\ lastIn = o.lastIn)

Reconcile ==
    /\ \E order \in ListOrders, failAt \in 0..Cardinality(DOMAIN jobs) + 2,
          statusOk \in BOOLEAN :
         /\ faults + (IF failAt = 0 THEN 0 ELSE 1) + (IF statusOk THEN 0 ELSE 1)
              =< MaxFaults
         /\ ReconcileWith(order, failAt, statusOk)
    /\ UNCHANGED <<cj, now, userOps>>

(***************************************************************************)
(* The cluster, the clock and the user.  Each changes an input of the      *)
(* next reconcile; lastIn forgets the last reconcile's inputs.             *)
(***************************************************************************)

\* jobs with name n removed
Without(f, n) == [m \in DOMAIN f \ {n} |-> f[m]]

EnvStep(js) ==
    /\ jobs' = js /\ lastIn' = NoIn /\ rerun' = FALSE
    /\ UNCHANGED <<cj, now, status, changed, faults, userOps>>

PodStarts(n) ==
    /\ jobs[n].cond = "none" /\ ~jobs[n].suspend /\ ~jobs[n].deleting
    /\ ~jobs[n].pod
    /\ EnvStep([jobs EXCEPT ![n].pod = TRUE])

PodTerminates(n) ==
    /\ jobs[n].pod /\ (jobs[n].suspend \/ jobs[n].deleting)
    /\ EnvStep([jobs EXCEPT ![n].pod = FALSE])

JobFinishes(n) ==
    /\ jobs[n].pod /\ jobs[n].cond = "none"
    /\ \E c \in {"complete", "failed"} :
         EnvStep([jobs EXCEPT ![n].cond = c, ![n].pod = FALSE])

DeletionCompletes(n) ==
    /\ jobs[n].deleting /\ ~jobs[n].pod
    /\ EnvStep(Without(jobs, n))

Tick ==
    /\ now < MaxTime
    /\ now' = now + 1 /\ lastIn' = NoIn /\ rerun' = FALSE
    /\ UNCHANGED <<jobs, cj, status, changed, faults, userOps>>

EditTemplate ==
    /\ cj.hash < MaxVersion
    /\ cj' = [cj EXCEPT !.hash = @ + 1] /\ lastIn' = NoIn /\ rerun' = FALSE
    /\ UNCHANGED <<jobs, now, status, changed, faults, userOps>>

ToggleSuspend ==
    /\ UserSuspends /\ userOps < MaxUserOps
    /\ cj' = [cj EXCEPT !.suspend = ~@] /\ lastIn' = NoIn /\ rerun' = FALSE
    /\ userOps' = userOps + 1
    /\ UNCHANGED <<jobs, now, status, changed, faults>>

StopJob(n) ==
    /\ userOps < MaxUserOps
    /\ ~jobs[n].deleting /\ ~WasJobStoppedByTheUser(jobs[n])
    /\ jobs' = [jobs EXCEPT ![n].suspend = TRUE, ![n].userStop = TRUE]
    /\ userOps' = userOps + 1 /\ lastIn' = NoIn /\ rerun' = FALSE
    /\ UNCHANGED <<cj, now, status, changed, faults>>

CreateManualJob ==
    /\ userOps < MaxUserOps
    /\ \E r \in ManualRuns :
         LET j == BuildJob(now, r, TRUE, TRUE, cj.hash) IN
         /\ Name(j) \notin DOMAIN jobs
         /\ jobs' = jobs @@ (Name(j) :> j)
    /\ userOps' = userOps + 1 /\ lastIn' = NoIn /\ rerun' = FALSE
    /\ UNCHANGED <<cj, now, status, changed, faults>>

Next ==
    \/ Reconcile
    \/ \E n \in DOMAIN jobs :
         PodStarts(n) \/ PodTerminates(n) \/ JobFinishes(n) \/ DeletionCompletes(n)
    \/ Tick
    \/ EditTemplate \/ ToggleSuspend \/ CreateManualJob
    \/ \E n \in DOMAIN jobs : StopJob(n)

Spec == Init /\ [][Next]_vars

(***************************************************************************)
(* Properties                                                              *)
(***************************************************************************)

\* The write-once condition discipline and the de-duplicated action
\* history (calculateOverallConditions' comment, SetCondition,
\* RecordEvent): a reconcile on the very inputs of the reconcile before
\* it, neither of them hit by a fault, writes back the status unchanged.
\* Were it to change, the status update would enqueue the ControlledJob
\* again, and again, for as long as the inputs stay as they are.
StableInputsStableStatus == rerun => ~changed

\* The status fields makeDecision fills from the listed Jobs
\* (status.active, the deferred IsRunning, the JobExists condition of
\* setJobConditions) describe the cluster the reconcile acted on: right
\* after a fault-free reconcile, every Job status.active names exists,
\* and isRunning or JobExists is only claimed while some Job exists.
StatusDescribesCluster ==
    lastIn # NoIn =>
        /\ \A i \in DOMAIN status.active : status.active[i] \in DOMAIN jobs
        /\ status.isRunning => DOMAIN jobs # {}
        /\ IsTrue(status.conditions, "JobExists") => DOMAIN jobs # {}

\* Spec 5, steps 6 and 7: a failure records a warning action, and the
\* status update writes the conditions and the action history in one
\* call.  So whenever the persisted status says Error=True (set by
\* calculateOverallConditions from the reconcile's error), its most
\* recent action is a warning action (recordFailedReconcile's).
FailureInHistory ==
    IsTrue(status.conditions, "Error") => status.mostRecentAction.type \in WarningEvents

\* Every status change is a watch event that triggers the next reconcile
\* (For() without predicates), so a status that keeps changing on its own
\* is a reconcile loop.  Once the clock, the cluster and the user stop,
\* the reconciles eventually stop changing the status.
EventuallyQuiescent == <>[]~changed

\* A reconcile with no fault would leave every variable as it is.
Quiet ==
    \A order \in ListOrders :
       \E o \in {Outcome(order, 0, TRUE)} :
          /\ o.jobs = jobs /\ o.status = status
          /\ o.changed = changed /\ o.lastIn = lastIn /\ rerun

\* A changed status, or any change to a Job owned by the ControlledJob,
\* enqueues it, and the key is reconciled again.  Weak fairness of
\* Reconcile models that work queue; it is written with Quiet, which holds
\* whenever no reconcile step can change the state, so this condition is
\* implied by WF_vars(Reconcile) and assumes no more.
\* The cluster finishes what the operator started: the kubelet ends the pod
\* of a suspended or deleted Job, and the garbage collector removes a Job
\* once the foreground deletion (DeleteJob with DeletePropagationForeground)
\* has no dependents left.  Neither is the operator's doing, so both are
\* weakly fair; pods starting and Jobs finishing are not.
ClusterFinishes ==
    \E n \in DOMAIN jobs : PodTerminates(n) \/ DeletionCompletes(n)

FairSpec == Spec /\ ([]<>Quiet \/ []<><<Reconcile>>_vars)
                 /\ WF_vars(ClusterFinishes)

====
