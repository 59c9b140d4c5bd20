CONSTANTS
    MaxTime = 3
    EventSpecs <- MC_EventSpecs
    SpecChangePolicyRecreate = TRUE
    EnableAutoRecreateJobsOnSpecChange = TRUE
    StartingDeadlineSeconds = 0
    HistoryEntriesToKeep = 5
    MaxVersion = 1
    ManualRuns = {}
    MaxFaults = 0
    MaxUserOps = 1
    UserSuspends = TRUE
    RandomListOrder = FALSE
SPECIFICATION Spec
INVARIANTS
    StableInputsStableStatus
