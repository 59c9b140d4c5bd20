CONSTANTS
    Replicas = {r1}
    MaxTime = 3
    EventSpecs <- MC_EventSpecs
    SpecChangePolicyRecreate = TRUE
    EnableAutoRecreateJobsOnSpecChange = TRUE
    StartingDeadlineSeconds = 0
    ApplyMutations = FALSE
    MaxVersion = 2
    ManualRuns = {1}
    MaxFaults = 0
    MaxUserOps = 1
    MaxCrashes = 0
    FreshReads = TRUE
    FailedBeforePodsGone = FALSE

SPECIFICATION Spec

PROPERTIES
    RunsOnlyWhenScheduled
    ImplementsJobRelease
