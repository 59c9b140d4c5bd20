CONSTANTS
    MaxTime = 3
    EventSpecs <- MC_EventSpecs

SPECIFICATION Spec

CHECK_DEADLOCK FALSE

INVARIANTS
    ScheduleOrderIrrelevant
