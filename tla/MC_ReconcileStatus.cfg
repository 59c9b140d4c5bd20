CONSTANTS
    MaxTime = 2
    EventSpecs <- MC_OnePeriod
    SpecChangePolicyRecreate = TRUE
    EnableAutoRecreateJobsOnSpecChange = TRUE
    StartingDeadlineSeconds = 0
    HistoryEntriesToKeep = 2
    MaxVersion = 2
    ManualRuns = {1}
    MaxFaults = 1
    MaxUserOps = 1
    UserSuspends = FALSE
    RandomListOrder = FALSE
SPECIFICATION Spec
INVARIANTS
    TypeOK
    StableInputsStableStatus
