----------------------------- MODULE Reconciler -----------------------------
(***************************************************************************)
(* One ControlledJob, its child Jobs in the cluster and the operator that *)
(* reconciles them: the reconcile driver (pkg/reconciliation/reconcile.go) *)
(* run by the controller-runtime work queue, the informer cache it reads, *)
(* the Kubernetes Job controller and kubelet acting on the Jobs, the user  *)
(* editing the ControlledJob or stopping Jobs, and operator restarts.     *)
(*                                                                         *)
(* Per-key serialisation (section 5 of the spec): within one operator    *)
(* process at most one reconcile of the ControlledJob is in flight, so    *)
(* each replica's driver is one sequential process whose steps are the   *)
(* cluster calls it makes; everything else interleaves between them.      *)
(* Leader election is off by default (main.go), so several replicas      *)
(* (Replicas), each with its own cache and queue, may reconcile at once.  *)
(***************************************************************************)
EXTENDS Decision

CONSTANTS
    Replicas,        \* the operator processes running (one per pod)
    ApplyMutations,  \* the ControlledJob carries apply-mutations=true
    MaxVersion,      \* template versions 1..MaxVersion (one edit per version)
    ManualRuns,      \* run ids a user may give a manually scheduled Job
    MaxFaults,       \* bound on failed API calls and mutator failures
    MaxUserOps,      \* bound on suspend toggles, user stops, manual Jobs
    MaxCrashes,      \* bound on operator restarts
    FreshReads,      \* Get/List see the API server's current state (no lag)
    FailedBeforePodsGone  \* the Job controller adds Failed while pods terminate

ASSUME /\ Replicas # {}
       /\ ApplyMutations \in BOOLEAN
       /\ MaxVersion \in Nat \ {0}
       /\ ManualRuns \subseteq Nat
       /\ {MaxFaults, MaxUserOps, MaxCrashes} \subseteq Nat
       /\ FreshReads \in BOOLEAN
       /\ FailedBeforePodsGone \in BOOLEAN

\* Each replica has its own informer cache, work queue and worker; the
\* cluster, the ControlledJob and its status are shared.
VARIABLES
    jobs,     \* the Jobs in the cluster: name -> Job
    cache,    \* replica -> its informer cache's view of the Jobs (a past value of jobs)
    cj,       \* ControlledJob spec: [suspend, hash of the job template]
    now,      \* the wall clock
    queued,   \* replica -> the key is in its work queue
    wakeAt,   \* replica -> pending RequeueAfter deadline (NoTime: none)
    pc,       \* replica -> driver step: "idle", "execute" (running the plan), "status",
              \* "hung" (blocked in a webhook call that never returns)
    plan,     \* replica -> the Decision being executed
    result,   \* replica -> outcome so far: "none", "success", "retryable", "nonretryable"
    seen,     \* replica -> the ControlledJob (spec and status) its reconcile read
    status,   \* ControlledJob status, abstracted: [shouldBeRunning, err]
    faults,   \* failures injected so far
    userOps,  \* user operations so far
    crashes   \* operator restarts so far

vars == <<jobs, cache, cj, now, queued, wakeAt, pc, plan, result, seen, status,
          faults, userOps, crashes>>
driverVars == <<pc, plan, result, seen>>
boundVars == <<faults, userOps, crashes>>

Versions == 1..MaxVersion
Errs == {"none", "schedule", "build", "deadline", "invariant", "api"}

Job == [sched : Instants, run : Nat, hash : Versions, manual : BOOLEAN,
        suspend : BOOLEAN, userStop : BOOLEAN, deleting : BOOLEAN,
        cond : JobConds, pod : BOOLEAN]

Status == [shouldBeRunning : BOOLEAN, err : Errs]
InitStatus == [shouldBeRunning |-> FALSE, err |-> "none"]
NotRead == [spec |-> [suspend |-> FALSE, hash |-> 0], status |-> InitStatus]

TypeOK ==
    /\ DOMAIN jobs \subseteq Instants \X Nat
    /\ \A n \in DOMAIN jobs : jobs[n] \in Job /\ Name(jobs[n]) = n
    /\ \A r \in Replicas : DOMAIN cache[r] \subseteq Instants \X Nat
    /\ cj \in [suspend : BOOLEAN, hash : Versions]
    /\ now \in Instants
    /\ queued \in [Replicas -> BOOLEAN]
    /\ wakeAt \in [Replicas -> Instants \cup {NoTime}]
    /\ pc \in [Replicas -> {"idle", "execute", "status", "hung"}]
    /\ \A r \in Replicas :
         plan[r].err \in Errs /\ plan[r].create \subseteq Job /\ plan[r].unsuspend \subseteq Job
    /\ result \in [Replicas -> {"none", "success", "retryable", "nonretryable"}]
    /\ seen \in [Replicas -> [spec : [suspend : BOOLEAN, hash : 0..MaxVersion],
                              status : Status]]
    /\ status \in Status
    /\ faults \in 0..MaxFaults /\ userOps \in 0..MaxUserOps
    /\ crashes \in 0..MaxCrashes

EmptyJobs == [n \in {} |-> NoJob]

Init ==
    /\ jobs = EmptyJobs
    /\ cache = [r \in Replicas |-> EmptyJobs]
    /\ cj \in [suspend : BOOLEAN, hash : {1}]
    /\ now = 0
    /\ queued = [r \in Replicas |-> TRUE] \* the initial List enqueues every ControlledJob
    /\ wakeAt = [r \in Replicas |-> NoTime]
    /\ pc = [r \in Replicas |-> "idle"]
    /\ plan = [r \in Replicas |-> NoPlan]
    /\ result = [r \in Replicas |-> "none"]
    /\ seen = [r \in Replicas |-> NotRead]
    /\ status = InitStatus
    /\ faults = 0 /\ userOps = 0 /\ crashes = 0

CanFail == faults < MaxFaults

\* jobs with name n removed
Without(f, n) == [m \in DOMAIN f \ {n} |-> f[m]]

\* a watch event: every replica's informer enqueues the key
EnqueueAll == [r \in Replicas |-> TRUE]

(***************************************************************************)
(* The reconcile driver of replica r                                       *)
(***************************************************************************)

\* loadFromCluster fails (Get or List error): transient, requeued with backoff
ReconcileLoadFails(r) ==
    /\ pc[r] = "idle" /\ queued[r] /\ CanFail
    /\ faults' = faults + 1
    /\ UNCHANGED <<jobs, cache, cj, now, queued, wakeAt, driverVars, status,
                   userOps, crashes>>

\* A worker takes the key, loads the ControlledJob and the cached Jobs and
\* runs makeDecision; a decision error is non-retryable.  The manager's
\* client reads from the informer cache, which may not yet hold the
\* operator's own last writes; with FreshReads it reads the cluster.
ReconcileDecide(r) ==
    /\ pc[r] = "idle" /\ queued[r]
    /\ FreshReads => cache[r] = jobs
    /\ \E buildOk \in IF ApplyMutations /\ CanFail THEN BOOLEAN ELSE {TRUE} :
         \E p \in {MakeDecision(cj, cache[r], now, buildOk)} :
           /\ plan' = [plan EXCEPT ![r] = p]
           /\ pc' = [pc EXCEPT ![r] = IF p.err = "none" THEN "execute" ELSE "status"]
           /\ result' = [result EXCEPT ![r] = IF p.err = "none" THEN "none" ELSE "nonretryable"]
           /\ faults' = IF p.err = "build" THEN faults + 1 ELSE faults
    /\ seen' = [seen EXCEPT ![r] = [spec |-> cj, status |-> status]]
    /\ queued' = [queued EXCEPT ![r] = FALSE]
    /\ UNCHANGED <<jobs, cache, cj, now, wakeAt, status, userOps, crashes>>

\* Fault model, outside Next: the mutation webhook accepts the connection
\* and never answers.  makeWebhookRequest builds its request without the
\* reconcile's context (http.NewRequest) and sends it with
\* http.DefaultClient, which has no timeout, so the worker stays blocked in
\* the Job build of makeDecision; only a restart of the process ends it.
ReconcileHangs(r) ==
    /\ pc[r] = "idle" /\ queued[r] /\ ApplyMutations /\ CanFail
    /\ FreshReads => cache[r] = jobs
    /\ MakeDecision(cj, cache[r], now, FALSE).err = "build"
    /\ pc' = [pc EXCEPT ![r] = "hung"]
    /\ seen' = [seen EXCEPT ![r] = [spec |-> cj, status |-> status]]
    /\ queued' = [queued EXCEPT ![r] = FALSE]
    /\ faults' = faults + 1
    /\ UNCHANGED <<jobs, cache, cj, now, wakeAt, plan, result, status, userOps, crashes>>

\* A cluster call failed: abandon the rest of the plan, retryable.
ApiCallFails(r) ==
    /\ pc[r] = "execute" /\ CanFail
    /\ plan[r].delete # {} \/ plan[r].create # {} \/ plan[r].unsuspend # {}
    /\ pc' = [pc EXCEPT ![r] = "status"] /\ result' = [result EXCEPT ![r] = "retryable"]
    /\ faults' = faults + 1
    /\ UNCHANGED <<jobs, cache, cj, now, queued, wakeAt, plan, seen, status,
                   userOps, crashes>>

\* client.DeleteJob with foreground propagation: marks the Job deleted; a
\* Job already gone is not an error.
ExecuteDelete(r) ==
    /\ pc[r] = "execute"
    /\ \E n \in plan[r].delete :
         /\ jobs' = IF n \in DOMAIN jobs
                    THEN [jobs EXCEPT ![n].deleting = TRUE] ELSE jobs
         /\ plan' = [plan EXCEPT ![r].delete = @ \ {n}]
    /\ UNCHANGED <<cache, cj, now, queued, wakeAt, pc, result, seen, status,
                   boundVars>>

\* A cluster call of the plan ends the reconcile with a retryable error.
Abort(r) ==
    /\ pc' = [pc EXCEPT ![r] = "status"] /\ result' = [result EXCEPT ![r] = "retryable"]
    /\ UNCHANGED <<jobs, plan>>

\* client.CreateJob after all deletes; a name that exists is AlreadyExists.
ExecuteCreate(r) ==
    /\ pc[r] = "execute" /\ plan[r].delete = {}
    /\ \E j \in plan[r].create :
         IF Name(j) \in DOMAIN jobs
         THEN Abort(r)
         ELSE /\ jobs' = jobs @@ (Name(j) :> j)
              /\ plan' = [plan EXCEPT ![r].create = @ \ {j}]
              /\ UNCHANGED <<pc, result>>
    /\ UNCHANGED <<cache, cj, now, queued, wakeAt, seen, status, boundVars>>

\* Seeded fault: an Update that ignores the version read, so it overrides
\* whatever changed since (a user stop included).
ExecuteUnsuspendNoConflict(r) ==
    /\ pc[r] = "execute" /\ plan[r].delete = {} /\ plan[r].create = {}
    /\ \E j \in plan[r].unsuspend :
         IF Name(j) \in DOMAIN jobs
         THEN /\ jobs' = [jobs EXCEPT ![Name(j)].suspend = FALSE]
              /\ plan' = [plan EXCEPT ![r].unsuspend = @ \ {j}]
              /\ UNCHANGED <<pc, result>>
         ELSE Abort(r)
    /\ UNCHANGED <<cache, cj, now, queued, wakeAt, seen, status, boundVars>>

\* client.UnsuspendJob: an Update, with suspend=false, of the Job as the
\* reconcile read it; the API server refuses it (conflict) if the Job
\* changed since that read.
ExecuteUnsuspend(r) ==
    /\ pc[r] = "execute" /\ plan[r].delete = {} /\ plan[r].create = {}
    /\ \E j \in plan[r].unsuspend :
         IF Name(j) \in DOMAIN jobs /\ jobs[Name(j)] = j
         THEN /\ jobs' = [jobs EXCEPT ![Name(j)].suspend = FALSE]
              /\ plan' = [plan EXCEPT ![r].unsuspend = @ \ {j}]
              /\ UNCHANGED <<pc, result>>
         ELSE Abort(r)
    /\ UNCHANGED <<cache, cj, now, queued, wakeAt, seen, status, boundVars>>

ExecuteDone(r) ==
    /\ pc[r] = "execute"
    /\ plan[r].delete = {} /\ plan[r].create = {} /\ plan[r].unsuspend = {}
    /\ pc' = [pc EXCEPT ![r] = "status"] /\ result' = [result EXCEPT ![r] = "success"]
    /\ UNCHANGED <<jobs, cache, cj, now, queued, wakeAt, plan, seen, status,
                   boundVars>>

\* The deferred status update, then the result handed to controller-runtime:
\* success requeues after requeueAt - now when that is positive (the
\* delaying queue keeps the earlier of two deadlines), a retryable error
\* requeues with backoff, a non-retryable one not at all.  Status().Update
\* sends the resourceVersion read, so it is refused (conflict) when the
\* ControlledJob changed since: the error is only logged.  A status that
\* changed is a watch event on the ControlledJob, which enqueues it.
UpdateStatus(r) ==
    /\ pc[r] = "status"
    /\ \E p \in {plan[r]} :
       LET newStatus ==
             [shouldBeRunning |-> IF p.err = "schedule"
                                  THEN status.shouldBeRunning
                                  ELSE p.shouldBeRunning,
              err |-> IF result[r] = "retryable" THEN "api" ELSE p.err]
           conflict == seen[r] # [spec |-> cj, status |-> status]
           requeue == result[r] = "success" /\ p.requeue > now
       IN  \E updated \in IF CanFail /\ ~conflict THEN BOOLEAN ELSE {~conflict} :
             /\ status' = IF updated THEN newStatus ELSE status
             /\ faults' = IF updated \/ conflict THEN faults ELSE faults + 1
             /\ queued' = IF updated /\ newStatus # status THEN EnqueueAll
                          ELSE [queued EXCEPT ![r] = @ \/ result[r] = "retryable"]
             /\ wakeAt' = IF requeue /\ (wakeAt[r] = NoTime \/ p.requeue < wakeAt[r])
                          THEN [wakeAt EXCEPT ![r] = p.requeue] ELSE wakeAt
    /\ pc' = [pc EXCEPT ![r] = "idle"] /\ plan' = [plan EXCEPT ![r] = NoPlan]
    /\ result' = [result EXCEPT ![r] = "none"] /\ seen' = [seen EXCEPT ![r] = NotRead]
    /\ UNCHANGED <<jobs, cache, cj, now, userOps, crashes>>

\* The RequeueAfter deadline passes.
TimerFires(r) ==
    /\ wakeAt[r] # NoTime /\ wakeAt[r] =< now
    /\ queued' = [queued EXCEPT ![r] = TRUE] /\ wakeAt' = [wakeAt EXCEPT ![r] = NoTime]
    /\ UNCHANGED <<jobs, cache, cj, now, driverVars, status, boundVars>>

\* The informer's periodic resync (SyncPeriod) enqueues the key.
Resync(r) ==
    /\ ~queued[r]
    /\ queued' = [queued EXCEPT ![r] = TRUE]
    /\ UNCHANGED <<jobs, cache, cj, now, wakeAt, driverVars, status, boundVars>>

\* The operator process restarts: the in-flight reconcile and the delaying
\* queue are lost, the new cache starts from a full List, and the initial
\* List enqueues the ControlledJob.
OperatorRestart(r) ==
    /\ crashes < MaxCrashes
    /\ crashes' = crashes + 1
    /\ pc' = [pc EXCEPT ![r] = "idle"] /\ plan' = [plan EXCEPT ![r] = NoPlan]
    /\ result' = [result EXCEPT ![r] = "none"] /\ seen' = [seen EXCEPT ![r] = NotRead]
    /\ queued' = [queued EXCEPT ![r] = TRUE] /\ wakeAt' = [wakeAt EXCEPT ![r] = NoTime]
    /\ cache' = [cache EXCEPT ![r] = jobs]
    /\ UNCHANGED <<jobs, cj, now, status, faults, userOps>>

(***************************************************************************)
(* Environment: informer, Job controller, kubelet, clock                   *)
(***************************************************************************)

\* Replica r's informer catches up with the cluster; the Owns(Job) watch
\* enqueues the owner.
CacheSync(r) ==
    /\ cache[r] # jobs
    /\ cache' = [cache EXCEPT ![r] = jobs] /\ queued' = [queued EXCEPT ![r] = TRUE]
    /\ UNCHANGED <<jobs, cj, now, wakeAt, driverVars, status, boundVars>>

PodStarts(n) ==
    /\ jobs[n].cond = "none" /\ ~jobs[n].suspend /\ ~jobs[n].deleting
    /\ ~jobs[n].pod
    /\ jobs' = [jobs EXCEPT ![n].pod = TRUE]
    /\ UNCHANGED <<cache, cj, now, queued, wakeAt, driverVars, status, boundVars>>

PodTerminates(n) ==
    /\ jobs[n].pod /\ (jobs[n].suspend \/ jobs[n].deleting \/ jobs[n].cond = "failed")
    /\ jobs' = [jobs EXCEPT ![n].pod = FALSE]
    /\ UNCHANGED <<cache, cj, now, queued, wakeAt, driverVars, status, boundVars>>

\* The workload exits: the Job gets a Complete or Failed condition.  A Job
\* that fails by activeDeadlineSeconds (or a FailJob pod failure policy)
\* has its running pod deleted; Job controllers that do not wait for pod
\* termination before adding the terminal condition (FailedBeforePodsGone)
\* report Failed while that pod is still terminating.
JobFinishes(n) ==
    /\ jobs[n].pod /\ jobs[n].cond = "none"
    /\ \E c \in {"complete", "failed"} :
         jobs' = [jobs EXCEPT ![n].cond = c,
                              ![n].pod = c = "failed" /\ FailedBeforePodsGone]
    /\ UNCHANGED <<cache, cj, now, queued, wakeAt, driverVars, status, boundVars>>

\* Foreground deletion completes once the Job has no running pod.
DeletionCompletes(n) ==
    /\ jobs[n].deleting /\ ~jobs[n].pod
    /\ jobs' = Without(jobs, n)
    /\ UNCHANGED <<cache, cj, now, queued, wakeAt, driverVars, status, boundVars>>

\* Time moves on once every replica has caught up with the present: its
\* cache is current, no reconcile is queued or running and no requeue
\* deadline has passed.  Reconciles take far less than the gap between
\* schedule instants, except one blocked for good in a webhook call.
Tick ==
    /\ now < MaxTime
    /\ \A r \in Replicas :
         \/ pc[r] = "hung"
         \/ /\ pc[r] = "idle" /\ ~queued[r] /\ cache[r] = jobs
            /\ wakeAt[r] = NoTime \/ wakeAt[r] > now
    /\ now' = now + 1
    /\ UNCHANGED <<jobs, cache, cj, queued, wakeAt, driverVars, status, boundVars>>

(***************************************************************************)
(* The user                                                                *)
(***************************************************************************)

\* kubectl edit of the job template; the watch enqueues the ControlledJob.
EditTemplate ==
    /\ cj.hash < MaxVersion
    /\ cj' = [cj EXCEPT !.hash = @ + 1]
    /\ queued' = EnqueueAll
    /\ UNCHANGED <<jobs, cache, now, wakeAt, driverVars, status, boundVars>>

ToggleSuspend ==
    /\ userOps < MaxUserOps
    /\ cj' = [cj EXCEPT !.suspend = ~@]
    /\ queued' = EnqueueAll /\ userOps' = userOps + 1
    /\ UNCHANGED <<jobs, cache, now, wakeAt, driverVars, status, faults, crashes>>

\* The user stops a Job: suspend=true with suspend-reason=user-stop.
StopJob(n) ==
    /\ userOps < MaxUserOps
    /\ ~jobs[n].deleting /\ ~WasJobStoppedByTheUser(jobs[n])
    /\ jobs' = [jobs EXCEPT ![n].suspend = TRUE, ![n].userStop = TRUE]
    /\ userOps' = userOps + 1
    /\ UNCHANGED <<cache, cj, now, queued, wakeAt, driverVars, status, faults,
                   crashes>>

\* The user creates a manually scheduled Job with the generate-job command
\* (start-suspended), scheduled now.
CreateManualJob ==
    /\ userOps < MaxUserOps
    /\ \E r \in ManualRuns :
         LET j == BuildJob(now, r, TRUE, TRUE, cj.hash) IN
         /\ Name(j) \notin DOMAIN jobs
         /\ jobs' = jobs @@ (Name(j) :> j)
    /\ userOps' = userOps + 1
    /\ UNCHANGED <<cache, cj, now, queued, wakeAt, driverVars, status, faults,
                   crashes>>

(***************************************************************************)
(* Specification                                                           *)
(***************************************************************************)

Driver(r) ==
    \/ ReconcileDecide(r) \/ ReconcileLoadFails(r) \/ ApiCallFails(r)
    \/ ExecuteDelete(r) \/ ExecuteCreate(r) \/ ExecuteUnsuspend(r) \/ ExecuteDone(r)
    \/ UpdateStatus(r)

\* a replica's worker, its work queue and its process
Operator(r) ==
    \/ Driver(r) \/ TimerFires(r) \/ Resync(r) \/ OperatorRestart(r)

Cluster ==
    \/ \E r \in Replicas : CacheSync(r)
    \/ \E n \in DOMAIN jobs :
         PodStarts(n) \/ PodTerminates(n) \/ JobFinishes(n) \/ DeletionCompletes(n)

User ==
    \/ EditTemplate \/ ToggleSuspend \/ CreateManualJob
    \/ \E n \in DOMAIN jobs : StopJob(n)

Next ==
    \/ \E r \in Replicas : Operator(r)
    \/ Cluster \/ User \/ Tick

\* ReconcileDecide(r) is enabled exactly when this holds: makeDecision is
\* total, and the step always dequeues the key.
DecideEnabled(r) == pc[r] = "idle" /\ queued[r] /\ (FreshReads => cache[r] = jobs)

\* The worker goroutine, informers, the Job controller and kubelet keep
\* running; the clock keeps moving.  The user, the workload and failures
\* are not obliged to act.  Weak fairness of ReconcileDecide is written out
\* ([]<>~ENABLED \/ []<>step) with DecideEnabled for its ENABLED.
Fairness ==
    /\ \A r \in Replicas :
         /\ []<>~DecideEnabled(r) \/ []<><<ReconcileDecide(r)>>_vars
         /\ WF_vars(ExecuteDelete(r)) /\ WF_vars(ExecuteCreate(r))
         /\ WF_vars(ExecuteUnsuspend(r)) /\ WF_vars(ExecuteDone(r))
         /\ WF_vars(UpdateStatus(r))
         /\ WF_vars(TimerFires(r))
         /\ WF_vars(CacheSync(r))
    /\ WF_vars(\E n \in DOMAIN jobs : PodTerminates(n))
    /\ WF_vars(\E n \in DOMAIN jobs : DeletionCompletes(n))
    /\ WF_vars(Tick)

Spec == Init /\ [][Next]_vars /\ Fairness

\* The same system with a mutation webhook that may never answer.  The
\* manager's health probe is healthz.Ping (main.go), which answers while
\* a worker is blocked, so no restart is owed to the hung process.
NextWithHangingWebhook == Next \/ \E r \in Replicas : ReconcileHangs(r)

HangingWebhookSpec == Init /\ [][NextWithHangingWebhook]_vars /\ Fairness

(***************************************************************************)
(* Properties                                                              *)
(***************************************************************************)

Running == {n \in DOMAIN jobs : jobs[n].pod}

\* The contract of the operator (the unsuspend guard in makeDecision): at
\* most one pod of the ControlledJob runs at any time, whatever the
\* interleaving of stale cache reads, user stops, manual Jobs, template
\* edits, failed calls and restarts.
AtMostOnePod == Cardinality(Running) =< 1

\* The RequeueAt timer and the error handling of the reconcile driver: the
\* clock never moves past an instant inside a run period of an unsuspended
\* ControlledJob, still within its starting deadline, while the cluster
\* holds no Job scheduled in that period.  (Only Tick moves the clock.)
RunPeriodHasJob ==
    [][now' # now => LET st == BuildState(cj, jobs, now) IN
                    /\ ~cj.suspend
                    /\ st.shouldBeRunning
                    /\ ~StartingDeadlineExceeded(st.startOfCurrentRunPeriod, now)
                    => \E n \in DOMAIN jobs : jobs[n].sched >= st.lastStopTime]_vars

\* The Jobs as the release contract sees them.
Contract == INSTANCE JobRelease WITH
    jobs <- [n \in DOMAIN jobs |->
               [suspend |-> jobs[n].suspend, userStop |-> jobs[n].userStop,
                deleting |-> jobs[n].deleting, finished |-> jobs[n].cond # "none",
                pod |-> jobs[n].pod]]

\* The release discipline of makeDecision and the three loops of Reconcile,
\* as seen in the cluster: every change the operator makes to a Job (a
\* create, a delete, an unsuspend) is a step of JobRelease.  In particular
\* a Job is created unsuspended, or unsuspended, only while every other
\* Job is dormant at the time of the write, although the decision was
\* made on an earlier read and the user and Kubernetes act in between.
ImplementsJobRelease == Contract!Spec

\* Deletion of expired and stopped Jobs and of every Job of a suspended
\* ControlledJob: once the user and the clock are done, every pod still
\* running belongs to an unsuspended ControlledJob inside its schedule, or
\* to a manually scheduled Job of the current period.
RunsOnlyWhenScheduled ==
    <>[](\A n \in Running :
            /\ ~cj.suspend
            /\ jobs[n].sched >= BuildState(cj, jobs, now).lastStopTime
            /\ BuildState(cj, jobs, now).shouldBeRunning \/ jobs[n].manual)

=============================================================================
