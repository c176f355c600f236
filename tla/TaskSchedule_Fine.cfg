SPECIFICATION Spec
CONSTANTS
    SecondT = 1
    SecondsPerMinute = 2
    MinutesPerHour = 2
    HoursPerDay = 2
    DaysPerWeek = 2
    JobIntervals <- MCFineIntervals
    StartDates <- MCStartDates
    StaleDays = 1
    MinClock = 24
    MaxClock = 48
INVARIANT TypeOK
PROPERTIES RunsOnlyIfLoadedAfterStart ImplementsContract
