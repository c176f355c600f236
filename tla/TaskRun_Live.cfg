SPECIFICATION Spec
CONSTANTS
    SecondT = 1
    SecondsPerMinute = 2
    MinutesPerHour = 2
    HoursPerDay = 2
    DaysPerWeek = 2
    NoJob = NoJob
    j1 = j1
    Jobs = {j1}
    JobInterval <- EveryMinute
    StartDate = 1
    MayHoist = TRUE
    MaxEdits = 1
    MinClock = 3
    MaxClock = 5
PROPERTY RunIsEventuallyPersisted
