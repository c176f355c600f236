---------------------------- MODULE TaskSchedule ----------------------------
(***************************************************************************)
(* When does a job run?  One Task of Objects/task.cpp against the clock:   *)
(* update() loads its row and derives lastRun and nextRun, the loop of     *)
(* run() polls isStartedInterval() once a second and, when the job is due  *)
(* and its connection opens, records the run with setLastRun().            *)
(*                                                                         *)
(* The job is enabled throughout, and update() and the polling loop take   *)
(* turns; how they race is the subject of TaskRun.  A run takes no time of *)
(* its own here, and its last_run is in the database at once.              *)
(***************************************************************************)
EXTENDS DataInterval

CONSTANTS
    JobIntervals,  \* the str_interval values an administrator may store
    StartDates,    \* the startdate values, NoTime for NULL
    StaleDays,     \* 365 in the code
    MinClock,      \* the time at which the program is first started
    MaxClock       \* bound on the clock, for model checking

ASSUME ScheduleAssumption ==
    /\ JobIntervals \subseteq Intervals
    /\ StartDates \subseteq {NoTime} \cup {t \in Nat : t >= DayT}
    /\ StaleDays \in Nat \ {0}
    /\ MinClock \in Nat /\ MinClock >= DayT
    /\ MaxClock \in Nat /\ MaxClock >= MinClock

VARIABLES
    now,      \* the clock
    start,    \* _start_date
    iv,       \* dataInterval
    dbLast,   \* the column last_run of the job's row
    pc,       \* "off": no Task; "loading": in the loop of update(); "polling"
    lastRun,
    nextRun,
    wake,     \* when the sleep(1) of the polling loop ends
    ran,      \* history: the latest run under the present interval
    loaded    \* history: when the latest update() finished

vars == <<now, start, iv, dbLast, pc, lastRun, nextRun, wake, ran, loaded>>

TypeOK ==
    /\ now \in Time
    /\ start \in StartDates
    /\ iv \in JobIntervals
    /\ dbLast \in Time
    /\ pc \in {"off", "loading", "polling"}
    /\ lastRun \in Time
    /\ nextRun \in Time
    /\ wake \in Time
    /\ ran \in Time
    /\ loaded \in Time

Init ==
    /\ now = MinClock
    /\ start \in StartDates
    /\ iv \in JobIntervals
    /\ dbLast = NoTime
    /\ pc = "off"
    /\ lastRun = NoTime
    /\ nextRun = NoTime
    /\ wake = NoTime
    /\ ran = NoTime
    /\ loaded = NoTime

-----------------------------------------------------------------------------
Tick ==
    /\ now < MaxClock
    /\ now' = now + 1
    /\ UNCHANGED <<start, iv, dbLast, pc, lastRun, nextRun, wake, ran, loaded>>

\* What a null last_run becomes before the loop of update(): the start date, or
\* yesterday when that is more than a year ago.  daysTo of a null date is 0.
FirstLastRun(s) ==
    IF s # NoTime /\ Day(now) - Day(s) > StaleDays THEN now - DayT ELSE s

\* update() with the row read as <<s, i>> and dbLast.  The loop over
\* getNextStart, taken when last_run is null, is the action CatchUp.
Update(s, i, oldNextRun) ==
    /\ start' = s
    /\ iv' = i
    /\ ran' = IF i = iv THEN ran ELSE NoTime
    /\ wake' = now + SecondT
    /\ IF dbLast = NoTime
       THEN /\ lastRun' = FirstLastRun(s)
            /\ nextRun' = oldNextRun
            /\ pc' = "loading"
            /\ UNCHANGED loaded
       ELSE /\ lastRun' = dbLast
            /\ nextRun' = NextStart(i, dbLast, now)
            /\ pc' = "polling"
            /\ loaded' = now
    /\ UNCHANGED <<now, dbLast>>

\* The program starts, or dies and starts again, whatever it was doing: a new
\* Task, whose nextRun is null.  The row may have been edited in between.
Load == \E s \in StartDates, i \in JobIntervals : Update(s, i, NoTime)

\* An UPDATE notification: update() on the Task that is already polling.
Refresh ==
    /\ pc = "polling"
    /\ \E s \in StartDates, i \in JobIntervals : Update(s, i, nextRun)

\* Mutant: an if in the place of the while.
CatchUp_Once ==
    /\ pc = "loading"
    /\ lastRun' = IF lastRun < now THEN NextStart(iv, lastRun, now) ELSE lastRun
    /\ pc' = "polling"
    /\ wake' = now + SecondT
    /\ loaded' = now
    /\ UNCHANGED <<now, start, iv, dbLast, nextRun, ran>>

\* One test of  while (lastRun < now) lastRun = getNextStart(lastRun).
CatchUp ==
    /\ pc = "loading"
    /\ IF lastRun < now
       THEN /\ lastRun' = NextStart(iv, lastRun, now)
            /\ UNCHANGED <<pc, wake, loaded>>
       ELSE /\ pc' = "polling"
            /\ wake' = now + SecondT
            /\ loaded' = now
            /\ UNCHANGED lastRun
    /\ UNCHANGED <<now, start, iv, dbLast, nextRun, ran>>

-----------------------------------------------------------------------------
\* CheckLastRunFromPeriod.  "Later than midnight or earlier than the next one"
\* holds of every time; for a Freq without a branch control runs off the end of
\* the function and the result is undefined.
CheckLastRunFromPeriod(freq) ==
    IF freq \in Repeating THEN {freq = "daily"} ELSE BOOLEAN

\* The nextRun that isStartedInterval() compares with the clock, and leaves.
RefreshedNextRun(check) ==
    IF start < lastRun /\ check /\ lastRun > nextRun
    THEN NextStart(iv, lastRun, now)
    ELSE nextRun

\* checkCorrectDateTimeStart: a daily job runs only within its hour.
HourMatches == iv.freq = "daily" => iv.byHour = Hour(now)

\* Mutant: the start date itself counts as passed.
Due_AtStart(check) ==
    /\ start <= lastRun
    /\ RefreshedNextRun(check) < now
    /\ HourMatches

Due(check) ==
    /\ start < lastRun
    /\ RefreshedNextRun(check) < now
    /\ HourMatches

Polls ==
    /\ pc = "polling"
    /\ now >= wake
    /\ wake' = now + SecondT

\* Not due, or due while the database cannot be reached: nothing is recorded.
Skip ==
    /\ Polls
    /\ \E check \in CheckLastRunFromPeriod(iv.freq) :
           nextRun' = RefreshedNextRun(check)
    /\ UNCHANGED <<now, start, iv, dbLast, pc, lastRun, ran, loaded>>

\* Mutant: setLastRun() forgets nextRun.
Run_KeepsNextRun ==
    /\ Polls
    /\ \E check \in CheckLastRunFromPeriod(iv.freq) : Due(check)
    /\ lastRun' = now
    /\ dbLast' = now
    /\ ran' = now
    /\ UNCHANGED <<now, start, iv, pc, nextRun, loaded>>

\* Due and connected: setLastRun(currentDateTime()), then the action.
Run ==
    /\ Polls
    /\ \E check \in CheckLastRunFromPeriod(iv.freq) : Due(check)
    /\ lastRun' = now
    /\ nextRun' = NextStart(iv, now, now)
    /\ dbLast' = now
    /\ ran' = now
    /\ UNCHANGED <<now, start, iv, pc, loaded>>

Next == Tick \/ Load \/ Refresh \/ CatchUp \/ Skip \/ Run

\* The loop of update() is a computation, so it goes on while it can.
Spec == Init /\ [][Next]_vars /\ WF_vars(CatchUp)

-----------------------------------------------------------------------------
(***************************************************************************)
(* Properties.                                                             *)
(***************************************************************************)
\* A job runs only if the start date had already passed when its row was last
\* loaded (task.cpp:175-218).  The start date of a job that has never run is
\* compared with lastRun, and only update() moves lastRun: a job whose start
\* date lies ahead when the scheduler reads it waits for the next update, not
\* for the date.
RunsOnlyIfLoadedAfterStart ==
    [][dbLast' # dbLast => start < loaded]_vars

\* A job that has run and is then given a start date at or after that run never
\* runs again, however late it gets and however often it is reloaded: last_run
\* is not null any more, and only a run can move it (task.cpp:192-195, 218).
PostponedIsStuck ==
    [][dbLast # NoTime /\ start >= dbLast /\ start' = start
         => dbLast' = dbLast]_vars

\* Two runs of a secondly, minutely or hourly job are more than its period
\* apart, through refreshes, edits of its start date and restarts of the
\* program (task.cpp:192-195, 225, 392-398).
NoEarlyRerun ==
    [][dbLast' # dbLast /\ ran # NoTime /\ iv.freq \in SubDaily
         => now > ran + Period(iv)]_vars

\* A daily job on the full hour.
FullHour(i) ==
    /\ i.freq = "daily" /\ i.interval > 0
    /\ i.byMinute = 0 /\ i.bySecond = 0

\* A daily job on the full hour runs at most once on a calendar day, however
\* often it is refreshed or the program restarted (task.h:109-186,
\* task.cpp:200-211).  With BYMINUTE it may run twice: late after a missed day,
\* and again when the minute comes.
AtMostOncePerDay ==
    [][dbLast' # dbLast /\ ran # NoTime /\ FullHour(iv)
         => Day(now) # Day(ran)]_vars

\* update() is in its loop for a job that has a start date, and a Freq and an
\* INTERVAL that move time forward.
CatchingUp == pc = "loading" /\ Progressive(iv) /\ start # NoTime

\* Such a loop comes to its end (task.cpp:184-189), unless the program is being
\* restarted for ever.
CatchUpTerminates ==
    <>[][~(pc = "loading" /\ Load)]_vars => []<>~CatchingUp

\* update() is in a loop that getNextStart does not bring closer to the clock.
Hung ==
    /\ pc = "loading"
    /\ lastRun < now
    /\ NextStart(iv, lastRun, now) <= lastRun

\* A loop of update() that stops making progress never ends by itself: passing
\* time does not help, only a restart of the program does.  Null start dates,
\* INTERVAL=0 and the Freqs that getNextStart does not know lead there
\* (task.cpp:184-189), and the loop runs on the thread that serves all jobs.
HangIsPermanent == [][Hung => Hung' \/ Load]_vars

-----------------------------------------------------------------------------
(***************************************************************************)
(* Refinement: hide the Task, keep the row and the clock.                  *)
(***************************************************************************)
\* Here a run is recorded once, in the row, and at once.
Contract == INSTANCE JobContract WITH begun <- FALSE, stale <- FALSE

\* Whatever update(), the polling loop, restarts and edits do to the Task, a run
\* is one that the row and the clock allow (task.cpp:140-238, 392-398,
\* task.h:83-190).
ImplementsContract == Contract!Spec

=============================================================================
