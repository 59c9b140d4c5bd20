CONSTANTS
    MaxTime = 3
    EventSpecs <- MC_EventSpecs
    SpecChangePolicyRecreate = TRUE
    EnableAutoRecreateJobsOnSpecChange = TRUE
    StartingDeadlineSeconds = 0
    HistoryEntriesToKeep = 5
    MaxVersion = 1
    ManualRuns = {}
    MaxFaults = 1
    MaxUserOps = 1
    UserSuspends = TRUE
    RandomListOrder = FALSE
SPECIFICATION FairSpec
PROPERTIES
    EventuallyQuiescent
