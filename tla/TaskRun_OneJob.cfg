SPECIFICATION Spec
CONSTANTS
    SecondT = 1
    SecondsPerMinute = 2
    MinutesPerHour = 2
    HoursPerDay = 2
    DaysPerWeek = 2
    NoJob = NoJob
    j1 = j1
    Jobs = {j1}
    JobInterval <- EveryMinute
    StartDate = 3
    MayHoist = TRUE
    MaxEdits = 2
    MinClock = 3
    MaxClock = 7
INVARIANTS TypeOK LastRunIsDurable QuiescentEnabledAgrees AtMostOneRunAfterDisable PidLeftByFailure
PROPERTIES ImplementsContract
