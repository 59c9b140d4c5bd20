CONSTANTS
    Replicas = {r1}
    MaxTime = 6
    EventSpecs <- MC_EventSpecs
    SpecChangePolicyRecreate = FALSE
    EnableAutoRecreateJobsOnSpecChange = FALSE
    StartingDeadlineSeconds = 1
    ApplyMutations = TRUE
    MaxVersion = 1
    ManualRuns = {}
    MaxFaults = 2
    MaxUserOps = 1
    MaxCrashes = 0
    FreshReads = TRUE
    FailedBeforePodsGone = FALSE

SPECIFICATION Spec

PROPERTIES
    RunPeriodHasJob
