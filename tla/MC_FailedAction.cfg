CONSTANTS
    MaxTime = 2
    EventSpecs <- MC_OnePeriod
    SpecChangePolicyRecreate = TRUE
    EnableAutoRecreateJobsOnSpecChange = TRUE
    StartingDeadlineSeconds = 0
    HistoryEntriesToKeep = 2
    MaxVersion = 1
    ManualRuns = {}
    MaxFaults = 1
    MaxUserOps = 0
    UserSuspends = FALSE
    RandomListOrder = FALSE
SPECIFICATION Spec
INVARIANTS
    FailureInHistory
