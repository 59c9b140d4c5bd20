CONSTANTS
    MaxTime = 3
    EventSpecs <- MC_EventSpecs
    SpecChangePolicyRecreate = TRUE
    EnableAutoRecreateJobsOnSpecChange = TRUE
    StartingDeadlineSeconds = 0
    HistoryEntriesToKeep = 3
    MaxVersion = 2
    ManualRuns = {1}
    MaxFaults = 0
    MaxUserOps = 1
    UserSuspends = FALSE
    RandomListOrder = TRUE
SPECIFICATION Spec
INVARIANTS
    StableInputsStableStatus
