--------------------------- MODULE MCTaskSchedule ---------------------------
(***************************************************************************)
(* Instances of TaskSchedule for TLC, on a calendar of 2 seconds a minute, *)
(* 2 minutes an hour, 2 hours a day and 2 days a week.                     *)
(***************************************************************************)
EXTENDS TaskSchedule

Iv(freq, n, h, m, s) == [freq |-> freq, interval |-> n,
                         byHour |-> h, byMinute |-> m, bySecond |-> s]

MCStartDates == {NoTime, 9, 18, 27}
MCFewStartDates == {NoTime, 9, 26}

MCFineIntervals ==
    {Iv("secondly", 3, 0, 0, 0), Iv("minutely", 2, 0, 0, 0),
     Iv("hourly", 1, 1, 1, 0)}

MCDailyIntervals ==
    {Iv("daily", 1, 1, 0, 0), Iv("daily", 1, 0, 1, 0), Iv("weekly", 1, 1, 0, 1)}

MCStuckIntervals ==
    {Iv("other", 1, 1, 0, 0), Iv("daily", 0, 1, 1, 0), Iv("minutely", 0, 0, 0, 0),
     Iv("daily", 1, 2, 0, 0)}

\* getNextStart as the code has it: three readings of the time, one after the
\* other, each stored back before the next.
SetHMS(d, h, m, s) ==
    IF h < HoursPerDay /\ m < MinutesPerHour /\ s < SecondsPerMinute
    THEN d * DayT + h * HourT + m * MinuteT + s * SecondT
    ELSE d * DayT

StepwiseAligned(iv0, t0) ==
    LET hms(t) == [h |-> Hour(t), m |-> (t % HourT) \div MinuteT,
                   s |-> (t % MinuteT) \div SecondT]
        t1 == SetHMS(Day(t0), iv0.byHour, hms(t0).m, hms(t0).s)
        t2 == SetHMS(Day(t1), hms(t1).h, iv0.byMinute, hms(t1).s)
    IN  SetHMS(Day(t2), hms(t2).h, hms(t2).m, iv0.bySecond)

\* TimeOfDay is what the three setHMS/setTime pairs of getNextStart compute
\* (task.h:111-147), for parts in and out of their range.
ASSUME AlignedIsStepwise ==
    \A h, m, s \in 0 .. 2, t \in 8 .. 30 :
        LET i == Iv("daily", 1, h, m, s)
        IN  Aligned(i, t) = StepwiseAligned(i, t)
=============================================================================
