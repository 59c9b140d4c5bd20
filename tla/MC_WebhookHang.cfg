CONSTANTS
    Replicas = {r1}
    MaxTime = 3
    EventSpecs <- MC_EventSpecs
    SpecChangePolicyRecreate = TRUE
    EnableAutoRecreateJobsOnSpecChange = TRUE
    StartingDeadlineSeconds = 0
    ApplyMutations = TRUE
    MaxVersion = 2
    ManualRuns = {}
    MaxFaults = 1
    MaxUserOps = 0
    MaxCrashes = 0
    FreshReads = TRUE
    FailedBeforePodsGone = FALSE

SPECIFICATION HangingWebhookSpec

\* A worker blocked for good is a real stop of the operator, not a
\* modelling artefact.
CHECK_DEADLOCK FALSE

PROPERTIES
    RunsOnlyWhenScheduled
