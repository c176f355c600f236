---------------------------- MODULE DataInterval ----------------------------
(***************************************************************************)
(* The pure part of the scheduler: struct DataInterval of Objects/task.h,  *)
(* the parsed form of a job's str_interval ("FREQ=daily;BYHOUR=3"), and    *)
(* getNextStart, which computes the time after which a job is due again.   *)
(*                                                                         *)
(* A QDateTime is a number of ticks on a calendar without daylight saving; *)
(* the lengths of its units are constants, so that TLC can check a         *)
(* miniature calendar and the proofs hold for the real one.  The null      *)
(* QDateTime is NoTime: it compares as the epoch, and setTime, addDays and *)
(* addSecs leave it null.                                                  *)
(***************************************************************************)
EXTENDS Integers

CONSTANTS
    SecondT,            \* ticks in a second
    SecondsPerMinute,
    MinutesPerHour,
    HoursPerDay,
    DaysPerWeek

ASSUME CalendarAssumption ==
    /\ SecondT \in Nat \ {0}
    /\ SecondsPerMinute \in Nat \ {0}
    /\ MinutesPerHour \in Nat \ {0}
    /\ HoursPerDay \in Nat \ {0}
    /\ DaysPerWeek \in Nat \ {0}

MinuteT == SecondsPerMinute * SecondT
HourT   == MinutesPerHour * MinuteT
DayT    == HoursPerDay * HourT
WeekT   == DaysPerWeek * DayT

Time   == Nat
NoTime == 0

Day(t)  == t \div DayT
Hour(t) == (t % DayT) \div HourT

-----------------------------------------------------------------------------
SubDaily  == {"secondly", "minutely", "hourly"}
Repeating == SubDaily \cup {"daily", "weekly"}

\* "other" stands for every Freq that getNextStart has no branch for: monthly,
\* yearly, a misspelt or an absent one.
Freqs == Repeating \cup {"other"}

\* An absent BYHOUR, BYMINUTE or BYSECOND, or one that is no number, is 0: both
\* the explicit branches of getNextStart and QString::toInt make it so.  Negative
\* numbers, which toInt accepts, are left out: as a part of the time of day one acts
\* as any other out of its range, as INTERVAL it never catches up, like 0.
Intervals == [freq : Freqs, interval : Nat,
              byHour : Nat, byMinute : Nat, bySecond : Nat]

UnitOf == [secondly |-> SecondT, minutely |-> MinuteT, hourly |-> HourT,
           daily |-> DayT, weekly |-> WeekT]

Period(iv) == iv.interval * UnitOf[iv.freq]

\* The time of day that the three setHMS/setTime pairs leave behind.  A part out
\* of its range makes the QTime invalid, setTime then stores midnight, and the
\* parts set before it are lost.
TimeOfDay(iv) ==
    LET secondOk == iv.bySecond < SecondsPerMinute
        minuteOk == secondOk /\ iv.byMinute < MinutesPerHour
        hourOk   == minuteOk /\ iv.byHour < HoursPerDay
    IN  (IF hourOk THEN iv.byHour * HourT ELSE 0)
        + (IF minuteOk THEN iv.byMinute * MinuteT ELSE 0)
        + (IF secondOk THEN iv.bySecond * SecondT ELSE 0)

\* lastRun moved to the time of day of the interval, on its own date; only a
\* Freq that is not finer than a day is moved.
Aligned(iv, last) ==
    IF iv.freq \in SubDaily \/ last = NoTime THEN last
    ELSE Day(last) * DayT + TimeOfDay(iv)

\* Mutant: the period is subtracted.
NextStart_Subtracts(iv, last, now) ==
    IF Aligned(iv, last) <= now /\ iv.freq \in Repeating /\ last # NoTime
    THEN last - Period(iv)
    ELSE Aligned(iv, last)

\* Mutant: the period is forgotten once the aligned time has passed.
NextStart_AlignOnly(iv, last, now) == Aligned(iv, last)

\* getNextStart(lastRun) called at time now.  The aligned time is the answer
\* while it is still to come; once it has passed, a repeating job is due a
\* period after lastRun itself, not after the aligned time.
NextStart(iv, last, now) ==
    IF Aligned(iv, last) <= now /\ iv.freq \in Repeating /\ last # NoTime
    THEN last + Period(iv)
    ELSE Aligned(iv, last)

\* The intervals whose getNextStart moves forward.
Progressive(iv) == iv.freq \in Repeating /\ iv.interval > 0

=============================================================================
