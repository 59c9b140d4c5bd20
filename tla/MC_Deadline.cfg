CONSTANTS
    Replicas = {r1}
    MaxTime = 6
    EventSpecs <- MC_EventSpecs
    SpecChangePolicyRecreate = FALSE
    EnableAutoRecreateJobsOnSpecChange = FALSE
    StartingDeadlineSeconds = 1
    ApplyMutations = FALSE
    MaxVersion = 1
    ManualRuns = {}
    MaxFaults = 0
    MaxUserOps = 1
    MaxCrashes = 0
    FreshReads = TRUE
    FailedBeforePodsGone = FALSE

SPECIFICATION Spec

PROPERTIES
    RunPeriodHasJob
