CONSTANTS
    Replicas = {r1, r2}
    MaxTime = 3
    EventSpecs <- MC_EventSpecs
    SpecChangePolicyRecreate = TRUE
    EnableAutoRecreateJobsOnSpecChange = TRUE
    StartingDeadlineSeconds = 0
    ApplyMutations = FALSE
    MaxVersion = 2
    ManualRuns = {}
    MaxFaults = 0
    MaxUserOps = 0
    MaxCrashes = 0
    FreshReads = TRUE
    FailedBeforePodsGone = FALSE

SPECIFICATION Spec

INVARIANTS
    AtMostOnePod
