SPECIFICATION Spec
CONSTANTS
    SecondT = 1
    SecondsPerMinute = 2
    MinutesPerHour = 2
    HoursPerDay = 2
    DaysPerWeek = 2
    JobIntervals <- MCStuckIntervals
    StartDates <- MCFewStartDates
    StaleDays = 1
    MinClock = 24
    MaxClock = 36
PROPERTIES CatchUpTerminates HangIsPermanent
