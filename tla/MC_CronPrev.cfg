CONSTANTS
    FirstYear = 0
    LastYear = 2
    NumMonths = 2
    NumHours = 2
    NumMinutes = 2
    NumSeconds = 2
    NumWeekdays = 3
    FirstWeekday = 0
    DaysIn <- MC_DaysIn
    YearsBack = 1
SPECIFICATION Spec
INVARIANTS
    CronPrevIsLatestMatch
CHECK_DEADLOCK FALSE
