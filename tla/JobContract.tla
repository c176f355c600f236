---------------------------- MODULE JobContract ----------------------------
(***************************************************************************)
(* What the scheduler promises about one job, in terms of its row alone:   *)
(* its interval, its start date and its last_run, and the clock.  Nothing  *)
(* of the Task that executes it shows here: neither lastRun and nextRun    *)
(* nor the thread, the second it sleeps, the update() it goes through or   *)
(* the process it lives in.                                                *)
(*                                                                         *)
(* A user may edit the row at any time.  The job may run at any time at    *)
(* which MayRun holds; it need not, for it may be down, hung or without a  *)
(* connection.  TaskSchedule implements this contract for every interval,  *)
(* and TaskRun, thread by thread, for each job of a period finer than a    *)
(* day.                                                                    *)
(***************************************************************************)
EXTENDS DataInterval

CONSTANTS JobIntervals, StartDates, MinClock

VARIABLES
    now,      \* the clock
    start,    \* the row: startdate,
    iv,       \* str_interval,
    dbLast,   \* and last_run
    ran,      \* the latest run since the interval was last changed
    begun,    \* may the run that has begun be recorded once more?
    stale     \* did a refresh read the row before the latest run was in it?

vars == <<now, start, iv, dbLast, ran, begun, stale>>

Init ==
    /\ now = MinClock
    /\ start \in StartDates
    /\ iv \in JobIntervals
    /\ dbLast = NoTime
    /\ ran = NoTime
    /\ begun = FALSE
    /\ stale = FALSE

Tick ==
    /\ now' = now + 1
    /\ UNCHANGED <<start, iv, dbLast, ran, begun, stale>>

\* A new interval begins a new history; the last run stays in the row.
Change ==
    /\ start' \in StartDates
    /\ iv' \in JobIntervals
    /\ ran' = IF iv' = iv THEN ran ELSE NoTime
    /\ UNCHANGED <<now, dbLast, begun, stale>>

\* The row is read again, with the latest run in it or without.
Refresh ==
    /\ stale' \in BOOLEAN
    /\ UNCHANGED <<now, start, iv, dbLast, ran, begun>>

-----------------------------------------------------------------------------
\* A daily job on the full hour.
FullHour(i) ==
    /\ i.freq = "daily" /\ i.interval > 0
    /\ i.byMinute = 0 /\ i.bySecond = 0

\* Not before the start date, and, once the job has run, only while the start
\* date lies before that run.
Started ==
    /\ start < now
    /\ dbLast # NoTime => start < dbLast

\* The latest run under the present interval, unless a refresh missed it.
Known == ran # NoTime /\ ~stale

\* No period is cut short.
PeriodOver == Known /\ iv.freq \in SubDaily => now > ran + Period(iv)

\* A daily job on the full hour runs within its hour, once a day.
DayIsFree ==
    /\ iv.freq = "daily" => Hour(now) = iv.byHour
    /\ Known /\ FullHour(iv) => Day(now) # Day(ran)

MayRun == Started /\ PeriodOver /\ DayIsFree

RecordRun ==
    /\ dbLast' = now
    /\ ran' = now
    /\ stale' \in BOOLEAN
    /\ UNCHANGED <<now, start, iv>>

RunJob == MayRun /\ RecordRun /\ begun' \in BOOLEAN

\* run() calls setLastRun twice: when the job is due, and right before its action.
RunAgain == begun /\ RecordRun /\ begun' = FALSE

\* ... which it may not come to.
LeaveOut ==
    /\ begun /\ begun' = FALSE
    /\ UNCHANGED <<now, start, iv, dbLast, ran, stale>>

Next == Tick \/ Change \/ Refresh \/ RunJob \/ RunAgain \/ LeaveOut

Spec == Init /\ [][Next]_vars
=============================================================================
