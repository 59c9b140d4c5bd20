CONSTANTS
    Replicas = {r1}
    MaxTime = 3
    EventSpecs <- MC_EventSpecs
    SpecChangePolicyRecreate = TRUE
    EnableAutoRecreateJobsOnSpecChange = TRUE
    StartingDeadlineSeconds = 0
    ApplyMutations = FALSE
    MaxVersion = 2
    ManualRuns = {1}
    MaxFaults = 1
    MaxUserOps = 1
    MaxCrashes = 1
    FreshReads = TRUE
    FailedBeforePodsGone = FALSE

SPECIFICATION Spec

INVARIANTS
    TypeOK
    AtMostOnePod

PROPERTIES
    RunPeriodHasJob
