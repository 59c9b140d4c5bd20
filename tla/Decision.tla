------------------------------ MODULE Decision ------------------------------
(***************************************************************************)
(* The reconciliation decision engine (pkg/reconciliation/decision.go):    *)
(* a pure function from the ControlledJob, the Jobs the operator observes *)
(* and the current instant to a plan of creates, deletes and unsuspends, *)
(* a requeue time and an error.                                           *)
(*                                                                         *)
(* A Job is a record; its name <<sched, run>> stands for the canonical     *)
(* name <cj>-<unix(scheduledAt)>-<jobRunId> (pkg/metadata/job_naming.go). *)
(***************************************************************************)
EXTENDS Schedule

CONSTANTS
    SpecChangePolicyRecreate,            \* spec.restartStrategy.specChangePolicy = Recreate
    EnableAutoRecreateJobsOnSpecChange,  \* operator flag
    StartingDeadlineSeconds              \* spec.startingDeadlineSeconds, 0 when unset

ASSUME /\ SpecChangePolicyRecreate \in BOOLEAN
       /\ EnableAutoRecreateJobsOnSpecChange \in BOOLEAN
       /\ StartingDeadlineSeconds \in Nat

\* Job conditions relayed from the Kubernetes Job controller
JobConds == {"none", "complete", "failed"}

Name(j) == <<j.sched, j.run>>

\* the "no job" value of a *kbatch.Job that is nil
NoJob == [sched |-> NoTime, run |-> -1, hash |-> 0, manual |-> FALSE,
          suspend |-> FALSE, userStop |-> FALSE, deleting |-> FALSE,
          cond |-> "none", pod |-> FALSE]

(***************************************************************************)
(* Predicates on observed Jobs (pkg/metadata/job_metadata.go)              *)
(***************************************************************************)
\* GetJobCondition finds a condition of the type with status True; the Job
\* controller gives a Job at most one of Complete and Failed.
JobHasCondition(j, c) == j.cond = c
IsJobCompleted(j) == JobHasCondition(j, "complete") \/ JobHasCondition(j, "failed")
IsJobPotentiallyRunning(j) == ~IsJobCompleted(j)
IsJobBeingDeleted(j) == j.deleting
IsJobSuspended(j) == j.suspend
WasJobStoppedByTheUser(j) == IsJobSuspended(j) /\ j.userStop
IsManuallyScheduledJob(j) == j.manual

(***************************************************************************)
(* Job names compare as strings.  The name is the decimal unix time, a    *)
(* '-' and the decimal run id; '-' (0x2D) sorts before every digit, so it *)
(* is the digit -1 here.                                                  *)
(***************************************************************************)
RECURSIVE Digits(_)
Digits(n) == IF n < 10 THEN <<n>> ELSE Append(Digits(n \div 10), n % 10)

NameString(j) == Digits(j.sched) \o <<-1>> \o Digits(j.run)

RECURSIVE StringGreater(_, _)
StringGreater(a, b) ==
    IF a = <<>> THEN FALSE
    ELSE IF b = <<>> THEN TRUE
    ELSE IF Head(a) # Head(b) THEN Head(a) > Head(b)
    ELSE StringGreater(Tail(a), Tail(b))

\* isBetterCandidateJob: not being deleted beats being deleted, then an
\* up-to-date template hash beats a stale one, then the greater name wins.
IsBetterCandidateJob(j, current, desiredHash) ==
    IF IsJobBeingDeleted(j) # IsJobBeingDeleted(current)
    THEN ~IsJobBeingDeleted(j)
    ELSE IF (j.hash = desiredHash) # (current.hash = desiredHash)
    THEN j.hash = desiredHash
    ELSE StringGreater(NameString(j), NameString(current))

\* The chosenJob loop of makeDecision: the candidate no other beats.
ChooseJob(candidates, desiredHash) ==
    IF candidates = {} THEN NoJob
    ELSE CHOOSE j \in candidates :
            \A k \in candidates \ {j} : IsBetterCandidateJob(j, k, desiredHash)

\* isOutOfDate (a Job always carries a template-hash annotation here)
IsOutOfDate(j, desiredHash) == j.hash # desiredHash

\* startingDeadlineSecondsExceeded
StartingDeadlineExceeded(start, t) ==
    /\ StartingDeadlineSeconds >= 1
    /\ start # NoTime
    /\ t > start + StartingDeadlineSeconds

\* Seeded fault for mutation analysis: the template-hash annotation is
\* left off the built Job.
BuildJobWithoutHash(sched, run, manual, startSuspended, desiredHash) ==
    [sched |-> sched, run |-> run, hash |-> 0, manual |-> manual,
     suspend |-> startSuspended, userStop |-> FALSE, deleting |-> FALSE,
     cond |-> "none", pod |-> FALSE]

\* jobpkg.buildJob: a new Job for the ControlledJob's current template
BuildJob(sched, run, manual, startSuspended, desiredHash) ==
    [sched |-> sched, run |-> run, hash |-> desiredHash, manual |-> manual,
     suspend |-> startSuspended, userStop |-> FALSE, deleting |-> FALSE,
     cond |-> "none", pod |-> FALSE]

\* Seeded fault: the guard without the count of potentially running Jobs.
SafeToUnsuspendAnyCount(chosen, numberOfPotentiallyRunningJobs) ==
    /\ chosen # NoJob
    /\ IsJobSuspended(chosen)
    /\ ~IsJobBeingDeleted(chosen)
    /\ ~WasJobStoppedByTheUser(chosen)

\* The safety unsuspend guard: the chosen Job is the only one that may
\* have a pod, is suspended, not being deleted and not stopped by the user.
SafeToUnsuspend(chosen, numberOfPotentiallyRunningJobs) ==
    /\ numberOfPotentiallyRunningJobs = 1
    /\ chosen # NoJob
    /\ IsJobSuspended(chosen)
    /\ ~IsJobBeingDeleted(chosen)
    /\ ~WasJobStoppedByTheUser(chosen)

NoPlan == [err |-> "none", create |-> {}, delete |-> {}, unsuspend |-> {},
           requeue |-> NoTime, shouldBeRunning |-> FALSE]

\* Seeded fault: the suspended branch returns before listing the Jobs.
SuspendedPlanNoDelete(jobs, sbr) == [NoPlan EXCEPT !.shouldBeRunning = sbr]

\* A suspended ControlledJob: delete every child, no requeue.
SuspendedPlan(jobs, sbr) ==
    [NoPlan EXCEPT !.delete = DOMAIN jobs, !.shouldBeRunning = sbr]

(***************************************************************************)
(* Status condition writes.  A write is [type, status, reason, msg];      *)
(* msg is NoMsg for the fixed messages, else [op, name, kind]: the call  *)
(* and Job an error message names, or what tells two messages apart.     *)
(* makeDecision's writes are returned in the order the code makes them.   *)
(***************************************************************************)
NoMsg == [op |-> "none", name |-> <<NoTime, -1>>, kind |-> "none"]

Cond(type, st, reason) == [type |-> type, status |-> st, reason |-> reason, msg |-> NoMsg]

\* SetConditionBasedOnFlag
CondFlag(type, flag, reasonTrue, reasonFalse) ==
    IF flag THEN Cond(type, "True", reasonTrue) ELSE Cond(type, "False", reasonFalse)

\* setShouldBeRunningStatus: Unknown when the schedule has no run period
\* start (state.ShouldBeRunning is nil).
ShouldBeRunningWrites(st) ==
    <<IF st.startOfCurrentRunPeriod = NoTime
      THEN Cond("ShouldBeRunning", "Unknown", "NoStartEvent")
      ELSE CondFlag("ShouldBeRunning", st.shouldBeRunning,
                    "InsideRunPeriod", "OutsideRunPeriod")>>

\* setConditionIfTrueForAnyJob, given the values of test on the Jobs
SetConditionIfTrueForAnyJob(type, tests, reasonTrue, reasonFalse) ==
    CondFlag(type, TRUE \in tests, reasonTrue, reasonFalse)

\* setConditionsForAllJobs
AllJobsWrites(all) ==
    IF all = {}
    THEN <<Cond("JobManuallyScheduled", "Unknown", "NoCurrentJob"),
           Cond("JobBeingDeleted", "Unknown", "NoCurrentJob")>>
    ELSE <<SetConditionIfTrueForAnyJob("JobManuallyScheduled",
                                       {IsManuallyScheduledJob(j) : j \in all},
                                       "CreatedByUser", "NoManuallyScheduledJobs"),
           SetConditionIfTrueForAnyJob("JobBeingDeleted", {IsJobBeingDeleted(j) : j \in all},
                                       "JobBeingDeleted", "JobNotBeingDeleted")>>

\* IsJobRunning; the Job controller always reports status.ready here, and
\* the model's pod is a ready pod.
IsJobRunning(j) == ~IsJobCompleted(j) /\ j.pod

\* setJobConditions for the Job metrics are recorded against.
\* GetJobCondition only returns conditions whose status is True.
JobWrites(job) ==
    IF job = NoJob
    THEN <<Cond("JobExists", "False", "NoCurrentJob")>>
         \o [i \in 1..5 |-> Cond(<<"JobRunning", "JobComplete", "JobFailed",
                                   "JobSuspended", "JobStoppedByUser">>[i],
                                 "Unknown", "NoCurrentJob")]
    ELSE <<Cond("JobExists", "True", "JobExists"),
           CondFlag("JobRunning", IsJobRunning(job),
                    "ReadyCountSufficient", "ReadyCountNotSufficient"),
           IF JobHasCondition(job, "complete") THEN Cond("JobComplete", "True", "JobCompleteTrue")
           ELSE Cond("JobComplete", "Unknown", "JobCompleteUnkown"),
           IF JobHasCondition(job, "failed") THEN Cond("JobFailed", "True", "JobFailedTrue")
           ELSE Cond("JobFailed", "Unknown", "JobFailedUnkown"),
           CondFlag("JobSuspended", IsJobSuspended(job), "JobSuspended", "JobNotSuspended"),
           CondFlag("JobStoppedByUser", WasJobStoppedByTheUser(job),
                    "JobStoppedByUser", "JobNotStoppedByUser")>>

\* The OutOfDate condition makeDecision writes for the Job it keeps; a
\* recreated Job is no longer out of date.
OutOfDateWrite(kept, desiredHash, restartOnSpecChange) ==
    CASE kept = NoJob -> Cond("OutOfDate", "False", "NoRunningJob")
      [] ~IsOutOfDate(kept, desiredHash) -> Cond("OutOfDate", "False", "NotOutOfDate")
      [] ~IsJobPotentiallyRunning(kept) \/ WasJobStoppedByTheUser(kept) ->
             Cond("OutOfDate", "True", "JobIsNotRunning")
      [] IsJobBeingDeleted(kept) -> Cond("OutOfDate", "True", "JobIsBeingDeleted")
      [] ~restartOnSpecChange -> Cond("OutOfDate", "True", "ShouldNotAutoRestart")
      [] OTHER -> Cond("OutOfDate", "False", "NotOutOfDate")

\* F applied to the value of e, with e evaluated once.  The decision binds
\* its schedule state, best candidate and chosen Job this way, so that each
\* is computed once even where TLC does not cache LET definitions.
Bind(e, F(_)) == CHOOSE r \in {F(x) : x \in {e}} : TRUE

(***************************************************************************)
(* makeDecision.  cj is [suspend, hash]; jobs maps names to observed Jobs; *)
(* buildOk says whether building a Job succeeds (the mutators may fail).   *)
(* err is "schedule" (buildState failed), "build", "deadline" or          *)
(* "invariant" (should run but no run period start), else "none".         *)
(*                                                                         *)
(* The result holds the Decision (plan) and what makeDecision writes into *)
(* the ControlledJob's status: the stage it returned from ("schedule"     *)
(* before any write, "suspended", or "body"), its condition writes in     *)
(* order, the chosenJob the deferred IsRunning reads, and the names of    *)
(* the expired Jobs (they are deleted first).                             *)
(***************************************************************************)
\* buildState: the schedule state and the ControlledJob's inputs to the
\* decision.  A schedule error is wrapped as FailedToCalculateSchedule.
\* shouldBeRunning is nil when there is no run period start, and
\* makeDecision reads nil as false; setShouldBeRunningStatus tells nil
\* apart by startOfCurrentRunPeriod = NoTime.  The desired hash is the
\* template version.
BuildState(cj, jobs, t) ==
    LET sched == ScheduleAt[t] IN
    [err |-> sched.err,
     isSuspended |-> cj.suspend,
     shouldBeRunning |-> sched.startOfCurrentRunPeriod # NoTime /\ sched.shouldBeRunning,
     startOfCurrentRunPeriod |-> sched.startOfCurrentRunPeriod,
     lastStopTime |-> sched.lastStopTime,
     nextEventTime |-> sched.nextEventTime,
     allJobs |-> Range(jobs),
     desiredHash |-> cj.hash,
     autoRestartIsEnabled |-> SpecChangePolicyRecreate]

DecisionCore(cj, jobs, t, buildOk) ==
  Bind(BuildState(cj, jobs, t), LAMBDA st :
  LET all == st.allJobs
      sbr == st.shouldBeRunning
      restartOnSpecChange ==
          EnableAutoRecreateJobsOnSpecChange /\ st.autoRestartIsEnabled
      maxJobRunId == IF all = {} THEN -1 ELSE Max({j.run : j \in all})
      expired == IF st.lastStopTime = NoTime THEN {}
                 ELSE {j \in all : j.sched < st.lastStopTime}
      nonExpired == all \ expired
  IN
  Bind(ChooseJob(nonExpired, st.desiredHash), LAMBDA best :
  LET \* stopped outside the schedule unless manually scheduled
      kept == IF ~sbr /\ best # NoJob /\ ~IsManuallyScheduledJob(best)
              THEN NoJob ELSE best
      recreate == /\ kept # NoJob
                  /\ IsOutOfDate(kept, st.desiredHash)
                  /\ IsJobPotentiallyRunning(kept)
                  /\ ~WasJobStoppedByTheUser(kept)
                  /\ ~IsJobBeingDeleted(kept)
                  /\ restartOnSpecChange
      recreated == BuildJob(kept.sched, maxJobRunId + 1,
                            IsManuallyScheduledJob(kept), TRUE, st.desiredHash)
      afterRecreate == IF recreate THEN recreated ELSE kept
      startNew == sbr /\ afterRecreate = NoJob
      fresh == BuildJob(st.startOfCurrentRunPeriod, 0, FALSE, TRUE, st.desiredHash)
      err == CASE st.err # "none"                              -> "schedule"
               [] st.isSuspended                                    -> "none"
               [] recreate /\ ~buildOk                          -> "build"
               [] startNew /\ StartingDeadlineExceeded(
                                 st.startOfCurrentRunPeriod, t) -> "deadline"
               [] startNew /\ st.startOfCurrentRunPeriod = NoTime -> "invariant"
               [] startNew /\ ~buildOk                          -> "build"
               [] OTHER                                         -> "none"
  IN
  Bind(IF startNew THEN fresh ELSE afterRecreate, LAMBDA chosen :
  LET created == IF recreate \/ startNew THEN {chosen} ELSE {}
      numberOfPotentiallyRunningJobs ==
          Cardinality({j \in all : IsJobPotentiallyRunning(j)})
            + Cardinality(created)
      toDelete ==
          {j \in expired : ~IsJobBeingDeleted(j)}
            \cup {j \in nonExpired : /\ ~IsJobBeingDeleted(j)
                                     /\ j # chosen
                                     /\ ~IsJobCompleted(j)}
      safeToUnsuspend ==
          SafeToUnsuspend(chosen, numberOfPotentiallyRunningJobs)
      \* unsuspending a Job this reconcile creates: create it unsuspended
      unsuspendOnCreate == safeToUnsuspend /\ created = {chosen}
      plan ==
          CASE err # "none" ->
                 [NoPlan EXCEPT !.err = err, !.shouldBeRunning = sbr]
            [] st.isSuspended -> SuspendedPlan(jobs, sbr)
            [] OTHER ->
                 [err |-> "none",
                  create |-> IF unsuspendOnCreate
                             THEN {[chosen EXCEPT !.suspend = FALSE]}
                             ELSE created,
                  delete |-> {Name(j) : j \in toDelete},
                  unsuspend |-> IF safeToUnsuspend /\ ~unsuspendOnCreate
                                THEN {chosen} ELSE {},
                  requeue |-> st.nextEventTime,
                  shouldBeRunning |-> sbr]
      \* the conditions written before the out-of-date check
      common == ShouldBeRunningWrites(st)
                \o <<Cond("Suspended", "False", "NotSuspended")>>
                \o AllJobsWrites(all)
                \o JobWrites(ChooseJob(all, st.desiredHash))
      deadlineWrite ==
          CASE ~startNew -> Cond("StartingDeadlineExceeded", "Unknown", "NoNewJobRequired")
            [] err = "deadline" ->
                 Cond("StartingDeadlineExceeded", "True", "StartingDeadlineExceeded")
            [] OTHER ->
                 Cond("StartingDeadlineExceeded", "False", "StartingDeadlineNotExceeded")
  IN  [plan |-> plan,
       stage |-> CASE st.err # "none" -> "schedule"
                   [] st.isSuspended -> "suspended"
                   [] OTHER -> "body",
       writes |->
         CASE st.err # "none" -> <<>>
           [] st.isSuspended ->
                ShouldBeRunningWrites(st) \o <<Cond("Suspended", "True", "Suspended")>>
           [] recreate /\ ~buildOk -> common
           [] OTHER ->
                common \o <<OutOfDateWrite(kept, st.desiredHash, restartOnSpecChange),
                            deadlineWrite>>,
       \* a failed build of the recreated Job returns with the old one chosen
       chosen |-> IF err = "none" THEN chosen
                  ELSE IF recreate THEN kept ELSE afterRecreate,
       expired |-> {Name(j) : j \in expired}])))

\* The Decision alone
MakeDecision(cj, jobs, t, buildOk) == DecisionCore(cj, jobs, t, buildOk).plan

=============================================================================
