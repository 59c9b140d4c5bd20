# TLA+ models of the controlled-job operator

The operator runs one Kubernetes Job per *run period* of a `ControlledJob`.
A run period is the time between a `start` and the next `stop` event of the
ControlledJob's schedule. The ControlledJob is the custom resource that
holds the schedule and the Job template. This directory holds TLA+ modules
that model the operator's schedule evaluation, its decision engine and its
reconcile loop, together with the cluster around them. It also holds the
TLC configurations that check them.

## The system

* **Schedule evaluator** (`pkg/schedule`).
  - Input: the event list (`spec.events`) and the current instant.
  - `StateFor` computes whether the ControlledJob should be running, the
    start of the current run period, the last stop and the next event.
  - `findNearestEvent` searches every event spec for its adjacent match:
    `cronPrev` looks back (inclusive), `SpecSchedule.Next` looks forward
    (strictly after).
* **Decision engine** (`pkg/reconciliation/decision.go`, `state.go`).
  - `makeDecision` is a pure function of the ControlledJob, the listed child
    Jobs and `now`. It returns the Jobs to delete, create and unsuspend, a
    `RequeueAt`, and an error.
  - It enforces the operator's contract: at most one pod.
  - New Jobs are always created suspended. A Job is unsuspended only when it
    is the single Job that could have a pod.
* **Reconcile driver** (`pkg/reconciliation/reconcile.go`,
  `controllers/`). It runs inside controller-runtime:
  1. load the ControlledJob and its Jobs from the manager's cached client;
  2. decide;
  3. execute deletes, then creates, then unsuspends, stopping at the first
     failed call;
  4. always write the status (deferred).

  The result goes back to the work queue:
  - success requeues after `RequeueAt - now`;
  - a cluster error is retried with backoff;
  - a decision error is not retried.
* **Client adapter** (`pkg/clientadapter`). Create, foreground Delete (which
  ignores NotFound), Unsuspend (an Update of the object as read, so it fails
  on conflict) and UpdateStatus.
* **Around the operator**, none of it in this repository:
  - the informer cache and watches (Owns(Job), For(ControlledJob));
  - the Kubernetes Job controller and kubelet, which start and stop pods,
    set Complete/Failed and finish foreground deletion;
  - the user, who edits the template, suspends, stops a Job
    (`suspend-reason=user-stop`) or creates a manual Job with
    `generate-job`.
* **Operator bootstrap** (`main.go`). Each operator process runs one
  manager with its own informer cache and work queue. `--leader-elect`
  defaults to false, so every running process reconciles every
  ControlledJob: per-key serialisation holds only inside one process.

## Modules

| module | models | state / operators |
|---|---|---|
| `Schedule` | `pkg/schedule/state.go`, `nearest_event.go`, `util.go` | Operators only. A cron spec is the set of instants it matches (`EventSpecs[i].at`). Time is a small range of instants with the timezone offset already applied. `FindNearestEvent` is the loop of `findNearestScheduleTime`: a fold over the specs the filter keeps, in list order, replacing the nearest when `EventIsNearer` (`eventIsNearer`, strict) holds, so the first spec in the list wins a tie. `StateFor` is `schedule.StateFor`; `ScheduleAt` tabulates it over the horizon, since it depends on constants only. |
| `Decision` | `decision.go`, `job_metadata.go`, `job_naming.go`, `job/builder.go` | Operators only. A Job is a record (scheduled instant, run id, template version, manual, suspend, user-stop, deleting, condition, pod). Its name `<<sched, run>>` compares as the decimal string `"<sched>-<run>"` (`NameString`, `StringGreater`). `BuildState` is `buildState` (`reconciliation/state.go`): the schedule state with `shouldBeRunning` nil (false, told apart by a missing run-period start) when there is no run period, the suspend flag, all Jobs, the desired hash and the auto-restart policy. `MakeDecision` keeps every branch and early return of `makeDecision`, in the code's order, on that state. |
| `Reconciler` | `reconcile.go`, the controller, the client adapter | Shared variables: `jobs` (cluster), `cj`, `now`, `status`, fault/user/crash counters. Per replica (functions of `Replicas`): `cache` (its informer), `queued`, `wakeAt` (RequeueAfter timer), `pc`/`plan`/`result` (its driver's position in one reconcile), `seen` (the ControlledJob it read). One action per driver step of a replica, per cluster reaction and per user operation. |
| `ActionHistory` | `pkg/events/action_history.go`, `handler.go` | Operators only. An entry is `[type, job]`; its message is a function of the two. Its timestamp, `NowFunc()`, is ignored by the de-duplication only, so `AddsEntry` tells when an entry is prepended and the object changes. `RecordEvent` de-duplicates against `mostRecentAction`, prepends, and keeps `HistoryEntriesToKeep` entries. |
| `CronPrev` | `pkg/schedule/cron_prev.go` | Operators only. An instant is a wall-clock record `[y, mo, d, h, mi, s]` on a reduced calendar (`DaysIn(y, mo)`, `NumHours`, ...). Each loop of `cronPrev` is one of the mutually `RECURSIVE` operators `MonthLoop`, `DayLoop`, `HourLoop`, `MinuteLoop` and `SecondLoop`, and `goto WRAP` is a call of `Wrap`, which re-checks the year limit. `Minus1` is `t.Add(-1s)` with its borrows. `StartOf*` are the truncating `time.Date` calls. `DayMatches` is `dayMatches`, with the star-bit rule. |
| `MC_CronPrev` | | The spec and `t` are the state. `t` starts at the last instant and steps back one second at a time through two years, so every input instant is checked. There are 220 specs: every combination of small field sets, plus specs with a star in the day-of-month or the day-of-week field. |
| `ReconcileStatus` | `reconcile.go`, the status parts of `decision.go`, `api/v1/helpers.go`, the client adapter | Variables: `jobs`, `cj`, `now`, the persisted `status` (conditions, active, isRunning, isSuspended, lastScheduledStartTime, shouldBeRunning, mostRecentAction, actionHistory), `changed` (the last write changed the object), `lastIn`/`rerun` (inputs of the last fault-free reconcile, and whether this one repeats them), fault and user counters. One reconcile is one step. |
| `MC_ReconcileStatus` | | Two schedules: `MC_EventSpecs` (stops 0, 2; starts 1, 3) and `MC_OnePeriod` (stops 0, 2; start 1). |
| `JobRelease` | the unsuspend guard in `decision.go`, as a contract | The abstract specification. Its one variable, `jobs`, maps each name to `[suspend, userStop, deleting, finished, pod]`. Steps: `Create`, `Release`, `Delete`, `Stop`, `PodStarts`, `PodEnds` and `Gone`. A Job is released only while every other Job is dormant (no pod, and none can start). |
| `MC_Reconciler` | | The schedule used by the reconcile runs: stops at 0 and 2, starts at 1 and 3. |
| `MC_Deadline` | | A longer period (stops 0 and 4, starts 1 and 5), so a deadline can pass inside it. |
| `RemoteMutator` | `pkg/mutators/remote_mutator.go` | Operators only. The part of the Job a patch touches is one JSON object, a function from `Keys` to `Values` or `Absent`. The webhook's answer is a record of what the code branches on: send error, HTTP status, body (garbage, `null`, or a review), response present, allowed, status object present, and the patch (none, undecodable, or up to `MaxOps` RFC 6902 operations). `MakeWebhookRequest` and `Apply` keep every branch; `RegistryApply` is `mutators.Apply`, folding the registered mutators over a copy of the Job until the first failure; `JsonPatchApply` folds `PatchStep` over the operations; `UnmarshalOnto` is `json.Unmarshal` into the existing Job. The outcome is `ok` with a Job, `err`, or `panic`. |
| `MC_RemoteMutator` | | Each state is one call, `doc` and `answer`, over 2 keys, 2 values and patches of up to 2 operations (5,013 states). `Protocol` is spec 6 with RFC 6902 as the reference. |
| `MC_ScheduleOrder` | | Steps through the horizon. It evaluates `StateFor` on the event list and on its reverse (`INSTANCE Schedule WITH EventSpecs <- Reverse(EventSpecs)`). |

### How `Reconciler` corresponds to the code

Each replica `r` of `Replicas` is one operator process. Its driver is one
sequential process: controller-runtime never reconciles one key twice at
once inside a process. Its steps are the points where it calls the
cluster, and everything else, other replicas included, interleaves
between them. All runs but `two_replicas` use one replica, the deployment
with leader election on.

* `ReconcileLoadFails`: `loadFromCluster` errs. The result is transient, and
  the key stays queued.
* `ReconcileDecide`: a worker dequeues the key and runs `makeDecision` on
  the **cached** Jobs. `buildOk` is chosen only when the ControlledJob applies
  mutations. A decision error jumps straight to the status update and is
  non-retryable.
* `ExecuteDelete`, `ExecuteCreate`, `ExecuteUnsuspend`, `ExecuteDone`: the
  three loops of `Reconcile`, in order.
  - Create fails with AlreadyExists on an existing name.
  - Unsuspend fails unless the Job is unchanged since it was read. The
    plan carries the Job as read, so a cache update in between does not
    hide the change.
  - `ApiCallFails` is any call failing; it abandons the rest of the plan.
* `UpdateStatus`: the deferred status write and `AsControllerResultAndError`.
  - The write may fail; a failure is only logged.
  - `Status().Update` sends the resourceVersion read, so the write is
    refused (conflict, also only logged) when the spec or the status
    changed since `ReconcileDecide` read them (`seen`).
  - A changed status is a watch event, so it enqueues the key in every
    replica.
  - A retryable error re-queues the key.
  - Success arms the timer at `RequeueAt` if that is after `now`; the
    delaying queue keeps the earlier of two deadlines.
* `TimerFires`, `Resync`, `CacheSync` (a replica's informer catches up and
  its Owns(Job) watch enqueues the key), and `OperatorRestart` (one
  replica's queue and timers are lost; a fresh List enqueues the key).
  Template edits and suspend toggles enqueue the key in every replica
  (`EnqueueAll`).
* Cluster: `PodStarts`, `PodTerminates`, `JobFinishes`, `DeletionCompletes`.
* User: `EditTemplate`, `ToggleSuspend`, `StopJob`, `CreateManualJob`.
* `Tick` advances the clock by one instant. It runs only once every
  replica has caught up: its cache is current, nothing is queued or
  running, and no timer is due. This says that a reconcile takes far less time than the gap
  between two schedule instants. The exception is a replica that is hung for good (below).
* `ReconcileHangs` is a fault outside `Next`. `NextWithHangingWebhook` and
  `HangingWebhookSpec` add it. The ControlledJob applies mutations, and
  `makeDecision` reaches the Job build, where the webhook call never
  returns. `makeWebhookRequest` sends its request without the reconcile's
  context and with `http.DefaultClient`, which has no timeout. The replica
  stays in `pc = "hung"` until `OperatorRestart`. The health probe is
  `healthz.Ping`, so nothing forces that restart, and fairness does not
  require it.

`FreshReads` chooses how `ReconcileDecide` reads:
- **TRUE**: it reads the cluster as it is (an uncached client);
- **FALSE**: it reads whatever the informer cache holds, which the code
  does through `mgr.GetClient()`.

The cache is always a past value of `jobs` and never goes backwards, as a
watch delivers events in order.

`FailedBeforePodsGone` chooses how the Job controller reports a failure by
`activeDeadlineSeconds` (or a `FailJob` pod failure policy):
- **FALSE**: `Failed` is added once the pod is gone (Job controllers that
  delay the terminal condition until pod termination);
- **TRUE**: `Failed` is added while the deleted pod still runs its grace
  period, and `PodTerminates` ends it later.

### How `ReconcileStatus` corresponds to the code

`Reconcile` is `Reconcile` of `reconcile.go` in one step, for a List order,
a failing call (or none) and a failing status write (or not):

1. `DecisionCore` (in `Decision`) is `makeDecision` returning, besides the
   plan, the condition writes it makes, in order. `setShouldBeRunningStatus`,
   the `Suspended` condition, `setConditionsForAllJobs`, `setJobConditions`,
   `OutOfDate` and `StartingDeadlineExceeded`. The status fields come from
   the same function: `status.active` (`ActiveRefs`) and the deferred
   `IsRunning` are only written past the suspended early return.
2. `Execute` runs the three loops in order (`Calls`, `DeleteOrder`): each
   success records its action (`RecordEvent`) and sets its condition; the
   first failure sets `FailedTo<op>Job` True with the error and ends the plan.
3. `OverallWrites` is `calculateOverallConditions`, the `Error` condition and
   the four derived ones, each written once.
4. `Deferred` runs the two defers in Go's last-in-first-out order: the
   status defer (`calculateOverallConditions`, then `UpdateStatus` sends the
   object), then `RecordFailedReconcile`, which adds the failed action
   (typed by the event the error was wrapped with, or `FailedToReconcile`)
   to the object already sent. The reconcile then returns and that object
   is dropped, so only what `UpdateStatus` sent persists.

`SetCondition` restamps `LastTransitionTime` only when a condition's status
changes. Wall time always moves on between two reconciles, so a restamp
always changes the object; the model keeps the set of restamped conditions
of a reconcile in place of the time. A changed status is a watch event, so
it triggers another reconcile.

`ListOrders` is the order the child Jobs come back from
`ListJobsForControlledJob`. The manager's client serves it from the
informer cache by index, which has no defined order. `RandomListOrder`
TRUE lets it be any order; FALSE fixes one order.

The environment actions (`PodStarts`, `PodTerminates`, `JobFinishes`,
`DeletionCompletes`, `Tick`, `EditTemplate`, `ToggleSuspend`, `StopJob`,
`CreateManualJob`) are those of `Reconciler`. Here they run at any time,
because a reconcile is atomic.

### Fairness

The following are weakly fair: every driver step except the failures, the
timer, the informer, pod termination of a suspended or deleted Job,
deletion completion, and the clock.

The user, pod start, Job completion and every failure get no fairness.

Fairness is per replica. For `ReconcileDecide(r)`, weak fairness is
written out as `[]<>~DecideEnabled(r) \/ []<><<ReconcileDecide(r)>>_vars`. `DecideEnabled` is its
exact enabling condition, because `makeDecision` is total. This form keeps
TLC from re-evaluating `MakeDecision` whenever it computes ENABLED.

In `ReconcileStatus`, `Reconcile` and `ClusterFinishes` are fair.
`ClusterFinishes` is a pod of a suspended or deleted Job terminating, or a
Job under foreground deletion being removed. The kubelet and the garbage
collector do that work, not the operator, and the `Reconciler` module
treats both as fair too. For `Reconcile`, a changed status or a
changed owned Job enqueues the key, and the work queue eventually serves
it. The condition is written `[]<>Quiet \/ []<><<Reconcile>>_vars`. `Quiet`
says that a fault-free reconcile would change nothing. `Quiet` holds
whenever `Reconcile` cannot change the state, so this condition follows
from `WF_vars(Reconcile)` and assumes no more than it does. It avoids
computing `ENABLED` of a whole reconcile.

## Runs

| run | cfg | expect | what it shows |
|---|---|---|---|
| reconciler_safety | `MC_Reconciler.cfg` | pass | With fresh reads, `AtMostOnePod` and `RunPeriodHasJob` hold across template edits, a suspend toggle or user stop or manual Job, one failed call (any of them) and one operator restart. With one replica. About 5.1M states, about 3.5 minutes under `-coverage`. |
| reconciler_liveness | `MC_Liveness.cfg` | pass | `RunsOnlyWhenScheduled`: once the clock and the user stop, every remaining pod is allowed. `ImplementsJobRelease`: `Reconciler` refines `JobRelease`. About 765k states, around 2 minutes. |
| unsuspend_guard_count | `MC_UnsuspendGuard.cfg` | violation | The potentially-running count misses a Job that may still have a pod. Reads come from the lagging cache, and `FailedBeforePodsGone` holds. TLC reports the shorter trace: a Failed Job's terminating pod sits beside the recreated Job, which is unsuspended. `MC_StaleCache.cfg` isolates the stale-cache trace, with reads from the lagging cache only. `MC_FailedPods.cfg` isolates the Failed-pod case with fresh reads and a manual Job. |
| decide_error_no_requeue | `MC_DecideError.cfg` | violation | After an error of `makeDecision` (a passed starting deadline or a mutator failure) nothing requeues, and a run period passes with no Job. TLC reports the mutator trace; `MC_Deadline.cfg` (no mutations, no faults) isolates the deadline one. |
| remote_mutator_protocol | `MC_RemoteMutator.cfg` | violation | `remoteMutator.Apply` panics on malformed answers and drops JSON Patch removes. |
| failed_action_lost | `MC_FailedAction.cfg` | violation | A failed create persists `Error=True`, but its failed action never reaches `status.actionHistory`. |
| cron_prev | `MC_CronPrev.cfg` | pass | `cronPrev` returns the latest matching instant at or before `t`, or the zero time, for all 220 specs and all 72 input instants. 15,840 states, about 15 seconds. |
| status_stable | `MC_ReconcileStatus.cfg` | pass | With a fixed List order and no suspension, a fault-free reconcile that repeats the inputs of the last one never changes the status. About 54k states. |
| status_quiescent | `MC_StatusQuiescent.cfg` | pass | With suspension, once the clock and the user stop and the cluster finishes its deletions, the status eventually stops changing. |
| two_replicas | `MC_Replicas.cfg` | violation | Two operator processes (no leader election), fresh reads, no faults: a template edit leads to two pods. |
| webhook_hang | `MC_WebhookHang.cfg` | violation | Under `HangingWebhookSpec`, a webhook that never answers blocks the worker in the recreate after a template edit, and the old pod keeps running past its stop: `RunsOnlyWhenScheduled` fails. Under `Spec`, with the same bounds (the webhook may only answer with an error), it holds (98,969 states). `CHECK_DEADLOCK FALSE`: a hung worker really does stop the operator. |
| stale_status_suspended | `MC_StaleActive.cfg` | violation | A suspended ControlledJob whose Jobs are gone still reports them. |

### Properties

* `AtMostOnePod` (invariant). At most one Job has a running pod. This is
  the contract stated at the unsuspend guard.
* `RunPeriodHasJob` (action property). The clock never leaves an instant
  inside a run period without a Job scheduled in that period when all of
  these hold:
  - the ControlledJob is unsuspended;
  - the schedule says it should be running;
  - the period is within its starting deadline.

  It depends on the RequeueAt timer, on error classification and on the
  triggers that follow a failure.
* `RunsOnlyWhenScheduled` (liveness, `<>[]`). Eventually every running pod
  belongs to:
  - an unsuspended ControlledJob,
  - a Job of the current period, and
  - a schedule that says running, unless the Job is manual.
* `ImplementsJobRelease` (refinement, `Contract!Spec` with
  `Contract == INSTANCE JobRelease WITH jobs <- ...`). The mapping
  projects every Job to the five facts of the contract, with `finished`
  meaning `cond # "none"`.
  - It hides the driver, the cache, the queue and the timer.
  - Every step that changes the cluster must be a `JobRelease` step. This
    holds for the operator's creates, deletes and unsuspends, the user's
    stops and manual Jobs, and Kubernetes' pod and deletion steps.
  - This is stronger than `AtMostOnePod`. A Job may never be released
    while another Job could start a pod, even if no pod runs yet. An
    unsuspend must not undo a user stop that landed after the read; the
    `ExecuteUnsuspendNoConflict` mutant does exactly that.
  - The decision is made on an earlier read, so the check covers
    everything that can happen between the read and the write.
* `CronPrevIsLatestMatch` (invariant of `MC_CronPrev`). `cronPrev(s, t)`
  is the latest instant `u <= t` matching every field of `s` with
  `u.y >= t.y - YearsBack`, or the zero time. The check compares against a
  declarative reference (the maximum of a set), not a second search. It
  catches a missing `goto WRAP` after the day loop crosses the 1st, and an
  off-by-one in the year limit.
* `StableInputsStableStatus` (invariant). When a fault-free reconcile runs
  on exactly the inputs of the fault-free reconcile before it, it does not
  change the status. This is the "write-once condition discipline" of spec
  4.5 and the comment in `calculateOverallConditions`.
* `EventuallyQuiescent` (liveness, `<>[]~changed`). Eventually no reconcile
  changes the status, so the reconcile/watch loop ends. A prepended history
  entry counts as a change, because it carries a fresh timestamp. The loop
  therefore ends only when the cluster finishes the deletions a suspension
  started, which is what the fairness of `ClusterFinishes` provides.
  Without that fairness TLC finds the suspended re-delete loop running
  forever.
* `StatusDescribesCluster` (invariant). After a fault-free reconcile,
  `status.active` names only existing Jobs, and `isRunning` and `JobExists`
  are claimed only while some Job exists.
* `FailureInHistory` (invariant). Whenever the persisted status says
  `Error=True`, its most recent action is a warning (`Failed...`) action.
  Spec 5, steps 6 and 7: a failure records a warning action, and one
  status update writes the conditions and the action history. The two
  halves come from two different defers of `Reconcile`, so the property is
  about their order.
* `ApplyFollowsProtocol` (invariant of `MC_RemoteMutator`). `Apply` on
  any answer gives what spec 6 and RFC 6902 say. It fails on a send error,
  a non-2xx status, an unparseable body, a refusal or an invalid patch.
  Otherwise it leaves the Job the patch describes. It never panics.
* `ScheduleOrderIrrelevant` (invariant of `MC_ScheduleOrder`, no run).
  Reversing `spec.events` does not change `StateFor`.

### Findings

1. **Two pods through a stale cache** (`decision.go:317`).
   - `makeDecision` counts potentially running Jobs in a List served by the
     informer cache. The operator keeps no record of the Jobs it just
     created (no "expectations").
   - Sequence: a template edit, the recreate (delete the old Job and create
     run n+1 suspended), then a reconcile whose cache still lacks run n+1.
     That reconcile creates run 0 unsuspended. A later reconcile whose cache
     lacks run 0 unsuspends run n+1.
   - Fresh reads (`reconciler_safety`) remove the violation.
   - `MC_StaleCache.cfg` isolates this trace. The run `unsuspend_guard_count`
     admits it and finding 8, and reports finding 8's trace, which is shorter.
2. **No requeue after a starting-deadline error** (`reconcile.go:114`).
   `MC_Deadline.cfg` isolates it. The run `decide_error_no_requeue`
   admits it and finding 3, and reports the shorter trace, which is 3.
   - The error is NonRetryable and no timer is armed.
   - A ControlledJob unsuspended late in a period is not reconciled at the
     next start.
   - Spec section 7 limits the error to the current period.
3. **No retry after a mutator failure** (`decision.go:270`). This is the
   trace `decide_error_no_requeue` reports.
   - The spec says the reconcile is treated as retryable; the code does not
     retry.
   - The only trigger left is the ControlledJob's own status write. That
     trigger is lost if the write fails or leaves the status unchanged.
4. **A failed reconcile never reaches the action history**
   (`reconcile.go:87`).
   - `recordFailedReconcile` is deferred first, so it runs last, after the
     status defer has sent the object with `UpdateStatus`. The failed
     action it appends is dropped with the in-memory object.
   - Shortest trace: the clock reaches the start instant, and the create
     of run 0 fails. The status written says `Error=True` and
     `FailedToCreateJob=True`, with an empty history.
   - No failed action is ever persisted; only the Kubernetes Event is.
   - With the two defers swapped (status written from `memory`), TLC finds
     no violation in 214,500 states with two faults, a manual Job and a
     template edit.

5. **The remote mutator panics on malformed answers**
   (`remote_mutator.go:123`, `:37`, `:38`).
   - The state TLC reports: a 200 answer with the body `null` decodes to a
     nil `*AdmissionReview`, and line 123 dereferences it.
   - A review without a response field makes `Apply` dereference a nil
     response (line 37). A refusal without a status object dereferences a
     nil `Result` (line 38).
   - Spec 6 says these answers fail the mutation. With `-continue`, TLC
     counts 27 such states.
   - The reconcile panics. Whether the operator survives depends on
     controller-runtime's `RecoverPanic`, which the repository does not pin.
6. **JSON Patch removes are undone** (`remote_mutator.go:59`).
   - `json.Unmarshal(res, &job)` decodes into the existing Job. A map keeps
     the entries the JSON does not name, and an omitted field keeps its
     value.
   - A patch that removes an annotation, a label or an optional field has
     no effect, while `add` and `replace` work. TLC counts 736 such
     states.
   - The unit tests patch only by `replace`.

7. **Two replicas run two pods** (`main.go:54`).
   - `--leader-elect` defaults to false. With more than one replica, or
     while a new pod of the Deployment starts before the old one has
     stopped, two processes reconcile the same ControlledJob at once.
     Spec 5 says no two reconciles of one ControlledJob run concurrently.
   - The unsuspend guard depends on that. An unsuspend is a conditional
     Update, but a Create with `suspend=false` is unconditional.
   - The trace, with fresh reads and no faults: after a template edit,
     replica r1 deletes run 0 and, once it is gone, creates run 1
     suspended. In between, r2 reads no Job and plans run 0 unsuspended.
     r1's next reconcile sees run 1 alone and unsuspends it, then r2
     creates run 0, and two pods run.
   - With `MaxUserOps = 1` and a manual run id, a shorter trace needs no
     edit. r1 plans run 0 from an empty List, the user creates a manual
     Job, r2 sees only that Job and unsuspends it, and r1 creates run 0.
   - Without edits and user operations, two replicas keep one pod
     (757k states): their plans from equal reads agree, and the names are
     deterministic.

Three more defects are reproduced by cfgs kept beside the runs:
- **Coinciding start and stop depend on list order** (`util.go:44`),
  `MC_ScheduleOrder.cfg`. The defect lies in one pure function, which a
  unit test can reach directly.
   - `eventIsNearer` is strict, so the spec listed first gives the event its
     type.
   - A start listed first makes `shouldBeRunning` true with a run-period
     start in the future.
- **Status churn while suspended** (`decision.go:75`),
  `MC_StatusSuspended.cfg` (`StableInputsStableStatus` violated). The
  churn lasts as long as the cluster takes to delete the Jobs.
   - Suspending deletes every listed Job, including Jobs already being
     deleted, and a repeated delete succeeds and records `JobStopped`.
   - With two such Jobs the entries alternate, so each reconcile changes
     the history. The status watch triggers another reconcile.
   - Each new entry carries a fresh timestamp, so the history never
     saturates. Every reconcile writes the status, and the watch enqueues
     the next one. The loop runs for the whole pod termination grace
     period and stops only when both Jobs are gone. `status_quiescent`
     shows that it does end, given that the cluster finishes the
     deletions.
8. **A Failed Job's terminating pod is not counted** (`job_metadata.go:49`).
   - `IsJobPotentiallyRunning` is false once a Job has `Failed`, and the
     unsuspend guard counts only potentially running Jobs.
   - The trace `unsuspend_guard_count` reports: run 0 fails by its
     deadline while its pod is still terminating. A template edit then
     makes the operator delete run 0 and create run 1. Run 0 is Failed, so
     the operator unsuspends run 1, and two pods run.
   - `MC_FailedPods.cfg` (fresh reads, no edit) gets the same result with
     a manual Job, created in that window, in place of the recreated one.
   - The next period's Job is unsuspended the same way if the old pod
     outlives the gap between the stop and the next start.
   - The contract holds only where the Job controller adds `Failed` after
     the pod has terminated.
9. **Stale status while suspended** (`decision.go:78`).
   - The suspended branch returns before `active` is reset, before the
     `IsRunning` defer is registered and before `setJobConditions`.
   - Once the Jobs are deleted, the status still lists them as active,
     with `isRunning` true and `JobExists` True.
10. **A webhook that never answers stops the operator**
    (`remote_mutator.go:96`), run `webhook_hang`.
    - `makeWebhookRequest` builds the request with `http.NewRequest`, which
      takes no context. It sends the request with `http.DefaultClient`
      (`registry.go:16`), which has no timeout. Spec section 5 says every
      HTTP call accepts the runtime's cancellation token.
    - The trace: run 0 runs. The template is edited. The recreate
      reconcile hangs in the Job build. At the stop instant nothing
      deletes run 0, and its pod keeps running.
    - The health probe is `healthz.Ping`, so the process stays "healthy".
      With one worker (the default), every other ControlledJob stalls too.
    - Passing the context alone would not bound the call: by default
      controller-runtime gives a reconcile no deadline. A client timeout
      would, and then the hang becomes the mutator error of finding 3. With
      errors only, the same bounds satisfy `RunsOnlyWhenScheduled`.

- `MC_StatusListOrder.cfg` (`RandomListOrder`) shows the third. `status.active` follows the List
order (`decision.go:132`): the cached List by index has no order, so two
reconciles on the same Jobs may write `active` in different orders. Each
such write is a status change that triggers another reconcile, and TLC
finds `StableInputsStableStatus` violated.

One more defect is recorded as a hazard without a run:
- A successful unsuspend sets `FailedToUnsuspendJob` True
  (`reconcile.go:164`). The spec's open question names only the
  `FailedToSuspendJob` twin.

## Bounds and why they are enough

`MC_Reconciler.cfg`:
- Horizon: 4 instants, stops 0 and 2, starts 1 and 3. This covers a whole
  run period, its stop (expiry and stop-while-running) and the next start
  (a new Job while the old one may still be deleting).
- Template versions: 2, giving one edit (out-of-date and recreate).
- Manual run id: 1, which collides with a recreated Job's name.
- One fault, one user operation and one restart.
- One replica (`Replicas = {r1}`), as with leader election on; every
  other `Reconciler` cfg but `MC_Replicas.cfg` does the same.

The stale-cache violation needs no fault and no user operation at all. The
mutator run needs two faults: the build, then the status write.

`MC_ReconcileStatus.cfg`:
- one run period (`MC_OnePeriod`) and its expiry;
- one template edit;
- manual run 1;
- one fault (any call or the status write);
- one user operation;
- two history entries.

This covers each plan shape: create, create-unsuspended, recreate, expiry
delete, AlreadyExists on the manual name, and a partial plan.

`MC_StatusQuiescent.cfg` keeps the two-period schedule and allows
suspension, with five history entries. Two runs give two Jobs, one
still being deleted when the user suspends, which is the churn of the
finding.

`MC_StatusSuspended.cfg` uses the same schedule and suspension.

`MC_CronPrev.cfg`:
- a calendar of three years, each with two months;
- the second month has 3 days in even years and 2 in odd ones;
- 2 hours of 2 minutes of 2 seconds;
- a 3-day week, and a search limit of one year back.

Every loop's wrap is reached. The month wrap crosses a year, and the day
wrap lands in a month of a different length and sometimes one the spec
excludes. The hour, minute and second wraps fall back to the previous
unit. The uneven month lengths shift the weekday from year to year. The
year limit is reached by specs that match only in years before the limit.
Two values per field are enough for each field to match or not match at
every position.

`MC_Deadline` needs a run period longer than the deadline plus one instant. `MC_DecideError.cfg` is `MC_Deadline.cfg` with mutations on and two
faults: one failed build, and one failed status write that removes the
last trigger.

`MC_RemoteMutator.cfg` uses two keys and two values, so that a patch can
name a member the object has or lacks, with a value equal to the one held
or not. Patches of up to two operations allow a test before a change and
two changes to one member. Every branch of `Apply` is reached.

`MC_Replicas.cfg` has two replicas, one template edit, and no faults,
restarts or user operations: the violation needs only the edit. The
other two checks in finding 7 (no edit, or a manual Job instead) change
`MaxVersion`, `MaxUserOps` and `ManualRuns` only.

`MC_FailedPods.cfg` is `MC_Reconciler.cfg` with `FailedBeforePodsGone`
and without faults or restarts. The violation needs neither.
`MC_UnsuspendGuard.cfg` is `MC_StaleCache.cfg` with `FailedBeforePodsGone`:
one edit, no faults and no user operations are enough for both defects.

`MC_WebhookHang.cfg` has mutations on, a single fault (the hang, or a
failed build under `Spec`), one template edit and the liveness horizon.
A hang needs a Job build, which happens at a start or at a recreate. The
edit puts the build after a pod is already running, so the stop instant
shows the missed delete.

`MC_FailedAction.cfg` is `MC_ReconcileStatus.cfg` with one fault and no
user operations: one failed call is all the violation needs. The claim
that the swapped defer order satisfies `FailureInHistory` was checked with
two faults, a manual Job, a template edit and a user operation.

Run ids stay below 10, so names never compare `"x-10" < "x-9"`. The
ordering does not matter. Spec 4.5 specifies the lexicographic
tie-break, and it decides only between Jobs equal in deletion and hash.
A recreation always marks the older Job as being deleted, so the string
order never keeps an older running Job over a newer one.

## Not modelled (yet)

- Daylight saving time in `cronPrev`. The reduced calendar has no DST, so
  the `t.In(location)` conversions are the identity. In a real zone,
  `time.Date` normalises an hour that does not exist, and `t.Hour() == 23`
  after a wrap may not hold on a transition day. Spec 4.1 states the
  intended DST semantics, but Go's choice inside an overlap is defined by
  the standard library, so the model leaves that case out.
- Fractional seconds: `cronPrev` returns a matching `t` with its
  nanoseconds. Only the previous-stop search uses it, and the result is
  compared with whole instants, so the model keeps whole seconds.
- `SpecSchedule.Next` (in `robfig/cron`, outside this repository) and
  `mapEventToSpecSchedule`. `Schedule` takes the matched instants as given.
- In `Reconciler`, status conditions and the history are abstracted to the
  error kind; `ReconcileStatus` models them with an atomic reconcile.
- Kubernetes Events and log output.
- `ParseJobName` and the template hash.
- Metrics and the CLI: I/O only. The mutator's HTTP transport and
  `buildAdmissionReview` carry nothing the code branches on, beyond the
  answer (`RemoteMutator`) and a call that never returns (`ReconcileHangs`).
- `AsCronSpec` (`controlledjob_types.go`), part of `mapEventToSpecSchedule`.
  Its only hazard is not a concurrent one. An event with neither
  `cronSchedule` nor `schedule` dereferences a nil `Schedule` (line 101)
  and panics. That is a single input, which a unit test reaches directly.
- A panic of the remote mutator inside the `Reconciler`. What it does to
  the operator depends on controller-runtime's `RecoverPanic`, which the
  repository does not pin.
- With several replicas, the model keeps a pass run only for one: two
  replicas already break `AtMostOnePod` (finding 7), and a pass run for
  them would need a fix to check. Leader-election hand-over (lease expiry
  while the old leader still reconciles) is not modelled; the
  two-replica run covers its worst case.

## Plan for later work

1. A reconcile in `ReconcileStatus` that reads a lagging cache.
