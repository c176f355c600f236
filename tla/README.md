# jobsPG in TLA+

jobsPG is a job scheduler for PostgreSQL: a Qt program that reads the table
`dbms_scheduler.jobs`, gives every row a thread, runs the row's SQL action when
its repeat interval says so, and records the time of the run in the row.  This
directory holds TLA+ models of it, the configurations that check them with TLC,
and theorems about them whose proofs TLAPS checks.

Paths below are relative to the repository (`Objects/task.cpp` is
`src/Objects/task.cpp` in `PROJECT.json`).

## The system

| Part | Source | State | Operations |
|---|---|---|---|
| `DataInterval` | `Objects/task.h:31-191` | the parsed `str_interval` | `getNextStart` |
| `Task` | `Objects/task.cpp`, `task.h` | the members copied from the row (`_start_date`, `_enabled_job`, `dataInterval`, `lastRun`, the name in `ConnStr`), and `nextRun` | `update`, `isStartedInterval`, `setLastRun`, `setEnabled_job`, `run`, `OpenConnection`, `CloseConnection`, `saveLogMessageDB` |
| `PGWorker` | `Objects/pgworker.cpp` | the default connection file, the list of workers, the main database connection and its subscription | `init`, `deploy`, `deployDB`, `getListTasks`, `startTasks`, `startTask`, `NotifyHandler`, `UpdateLastRunTask`, `SystemEventHandler` |
| main program | `main.cpp` | the log file and level | the event loop, `messageHandler` |
| Windows service | `service.cpp` | none | `start`, and empty `pause`, `resume`, `stop` |
| `qtservice` | `qtservice/src` | controller, sockets and settings (Unix), service status and handler thread (Windows) | install, start, stop, pause, resume, commands |
| database | outside | the rows of `dbms_scheduler.jobs`, the trigger that notifies | `SELECT`, `UPDATE`, `NOTIFY` |

How they interact.  `main` calls `PGWorker::init`, which opens the main
connection, lets `deployDB` look for schema, table and trigger function and
create what it can, subscribes to the notifications of the trigger, reads the list of
jobs, makes a `Task` of each (`update()`), and starts one thread per `Task`.
From then on

* every job thread executes `Task::run()`, a loop without an end: test
  `_enabled_job`, sleep a second, ask `isStartedInterval()`, open a connection of
  its own, `setLastRun(now)` and execute the action;
* the connections of all job threads are registered in one dictionary of the
  process, which Qt keeps, under the names of the jobs, which `update()` changes;
* `setLastRun` emits `UpdateLastRun`, which crosses to the main thread as a posted
  event: `UpdateLastRunTask` writes `last_run` to the row;
* a notification (`UPDATE;id`, `STATE;id`, `ADD;id`) calls `NotifyHandler` on the
  main thread, which calls `update()` or `setEnabled_job()` on the `Task` that
  another thread is running, with no lock;
* when a statement of the main connection fails, the main thread opens the
  connection again, and does nothing else meanwhile;
* the program is stopped by `kill -9` (`jobspg.service:11`), or by the service
  library: under Unix a controller would find the service by a socket file and send it
  one command per connection; under Windows the service control manager calls
  `handler()` in a thread of its own, which has the main thread do the work and
  waits for it.

Which program that is depends on the system: under Linux `main.cpp:23-27` runs a plain
`QCoreApplication` and never creates `Service`, so the Unix half of the service library,
and `QtServiceUnix` with it, is vendored code that jobsPG does not execute there; under
Windows it runs as `Service`, which sets the flag `CanBeSuspended` alone (`service.cpp:11`).

What is hard: the two threads of a `Task` interleave between any two members;
`last_run` reaches the row late or never, and the row is where the next `update()`
and the next start of the program take it from; the arithmetic of `getNextStart`
at its boundaries; loops that may not end; connections that break or are shared
under one name; programs that start together on one database or one socket file;
the three threads of a Windows service that write one status.
`PROJECT.json` lists these hazards one by one under `hazards`.

What makes each part correct:

* `DataInterval`: the next start of an interval lies after the last one.
* `Task` against the clock: a period is not cut short, a daily job is not run twice
  a day, and what the start date lets through.
* `Task` as a thread: disabling takes effect, the row ends up with the latest
  start, `pid` tells the truth about executions, refreshes do not make jobs rerun.
* `PGWorker`: memory agrees with the table; each job has one worker; an event that
  fails is known to be lost; the main thread comes back to its loop.
* `Task` and its connection: an execution keeps the connection it has opened, comes
  to its end, and leaves nothing open.
* Deployment: a program that serves has what it has checked, and one that starts on a
  database that is ready comes to serve, though others create the same objects.
* `qtservice`: what a controller is told about the service is so, there is one
  service at a time that can be reached, every call comes back, and a stop stops.

## Modules

| Module | Models | Role |
|---|---|---|
| `DataInterval` | `task.h:31-191` | constants of the calendar, `NextStart` = `getNextStart` |
| `DataInterval_proof` | | lemmas about it |
| `JobContract` | `task.cpp:140-238, 392-475` | what a row may expect of the scheduler: the abstract specification of `TaskSchedule` and `TaskRun` |
| `TaskSchedule` | `task.cpp:140-238, 309-353, 392-398, 410-475` | one `Task` against the clock; implements `JobContract` |
| `MCTaskSchedule` | | the intervals and start dates TLC enumerates |
| `TaskSchedule_proof` | | theorems |
| `TaskRun` | `task.cpp:104-198, 392-475`, `pgworker.cpp:9-108, 239-327` | job threads, main thread, row, connection; implements `JobContract` for each job |
| `MCTaskRun` | | the instances |
| `TaskRun_proof` | | theorems |
| `TaskConnection` | `task.cpp:285-297, 355-375, 418-465` | the connections of executions, by name |
| `MCTaskConnection` | | the instance |
| `TaskConnection_proof` | | theorems |
| `WorkerRegistry` | `pgworker.cpp:9-108, 239-327` | the list of workers against the table and the subscription |
| `MCWorkerRegistry` | | the instance |
| `WorkerRegistry_proof` | | theorems |
| `DeployDB` | `pgworker.cpp:9-50, 110-237` | the start of programs up to serving, and the objects of the database |
| `MCDeployDB` | | the instance |
| `DeployDB_proof` | | theorems |
| `QtServiceUnix` | `qtservice_unix.cpp`, `qtunixserversocket.cpp`, `qtunixsocket.cpp`, `qtservice.cpp:383-446, 736-830` | callers, service processes, the socket file |
| `MCQtServiceUnix` | | the instances |
| `QtServiceUnix_proof` | | theorems |
| `ServiceContract` | `qtservice_win.cpp:537-631` | what the manager and the service see of each other: the abstract specification of `QtServiceWin` |
| `QtServiceWin` | `qtservice_win.cpp`, `service.cpp:30-75` | callers, the three threads of the service, the manager; implements `ServiceContract` |
| `MCQtServiceWin` | | the instance |
| `QtServiceWin_proof` | | theorems |

Some definitions are named after an action with a suffix (`Run_KeepsNextRun`,
`CreateTable_Exits`): each is that action with a plausible bug in it, listed in
`PROJECT.json` under `mutants` with the property that finds the bug.

### DataInterval

A time is a number of ticks, the null `QDateTime` is 0 (`NoTime`): it compares as
the epoch and arithmetic leaves it null.  The lengths of second, minute, hour, day
and week are constants, so that TLC can run over days of 8 ticks and the proofs
hold for days of 86400 seconds.  Daylight saving is left out: a day always has the
same length.  A `str_interval` is the record that `parseIntervalToDataInterval`
leaves behind; parts that are absent or are no number are 0, because both branches
of `getNextStart` and `QString::toInt` make them so.  Negative numbers are left out: as
a part of the time of day one acts as any other out of its range, as `INTERVAL` it never
catches up, like 0.  `TimeOfDay` is what three
`setHMS`/`setTime` pairs leave of a date when one of the parts is out of range;
an assumption of `MCTaskSchedule` compares it with the steps of the code.

### TaskSchedule

| Action | Code |
|---|---|
| `Load`, `Refresh` | `getListTasks`, `NotifyHandler`: `update()` up to its loop |
| `CatchUp` | one turn of the loop of `update()` |
| `Skip`, `Run` | one poll of `run()`: not due or not connected; due and connected |
| `Tick` | the clock |

The row may be edited before every `Load` and `Refresh`: start date and interval
are chosen anew from `StartDates` and `JobIntervals`.  A poll happens at least one
second after the previous one and may be arbitrarily late, which is what a long
action, a slow connection or a busy machine does.  `CheckLastRunFromPeriod` runs
off its end for an unknown `FREQ`: the model takes any result.  `wake`, `ran` and
`loaded` only record; the first delays polls, the others are history.

### JobContract

The row, the clock, and two or three facts about the latest run; nothing of the `Task`.
A job may run (`MayRun`) when its start date has passed and, once it has run, lies before
that run (`Started`); when its period is over (`PeriodOver`); and, for a daily job, within
its hour and on a day that has not had its run (`DayIsFree`).  `ran` is the latest run
since the interval was changed; it counts as `Known` unless a refresh or a restart read
the row before that run was in it (`stale`).  `run()` calls `setLastRun` twice: `begun`
says that the second call is still to come (`RunAgain`), if it does (`LeaveOut`).  The
contract promises no run: a `Task` may hang or have no connection.

It is kept at two levels of detail.

* `TaskSchedule` has every interval and start date, one `Task`, and a run that is one
  step: it implements the contract with `begun` and `stale` FALSE, under the identity on
  the other variables.  `Run` is `RunJob`, an edit of the row is `Change`, and `Load`,
  `Refresh` without an edit, `CatchUp` and `Skip` are stuttering steps.
* `TaskRun` has the threads, the queues, lost records, kills, and jobs of one interval
  finer than a day: each job implements an instance of its own, `Contract(j)`.  `ran` and
  `dbLast` are the argument of the latest `setLastRun`, which is what the contract means by
  a run, whatever of it has reached the row; `stale` is `dirty[j]`; `begun` holds between
  the first `setLastRun` and the second.  `SetLast` is `RunJob` or `RunAgain`, a refresh that
  reads the row is `Refresh`, and the rest of the interleaving, of `update()` and of the
  reconnections is stuttering.  The row of `TaskRun` changes no interval, so a `Change` is
  not among its steps.

`PostponedIsStuck`, `NoEarlyRerun` and `AtMostOncePerDay` of `TaskSchedule`, and
`NoEarlyRerun` of `TaskRun`, say parts of the contract in terms of one step; they are
proved, and checked as parts of the contract.

### TaskRun

The threads, member by member.  `pc[j]` is where the thread of job `j` is in
`run()`, `main.pc` where the main thread is, with its local variables in `main`.

| Action | Code |
|---|---|
| `TestEnabled`, `Poll` | the two loops, the sleep and `isStartedInterval()` |
| `SetLast`, `SetNext`, `EmitLast` (`Record`) | the three statements of `setLastRun`, called twice in a run |
| `Reopen`, `SetPid`, `Exec`, `ClearPid` | the rest of `run()` with the ways it fails |
| `Boot`, `LoadTask`, `StartTasks` | `PGWorker::init` |
| `UpdateLastRunTask`, `SystemEventHandler` | the posted event, its failure and the reconnection |
| `TakeNote`, `SelectState`, `SetState` | a `STATE` notification |
| `SelectRow`, `UpdateEnabled`, `UpdateTimes` | an `UPDATE` notification: `update()`, one member at a time |
| `Edit`, `OwnUpdate`, `Disconnect`, `Kill`, `Tick` | the table and its trigger, the network, `kill -9`, the clock |

Choices of the model:

* A `QDateTime` in local time is one word, so members are read and written whole.
* `conn` is `listening`, `down`, or `deaf`: open again after a failure, without
  the subscription.
* The trigger fires on the scheduler's own updates too.  Its function is not in
  the repository, so whether it then notifies is left open (`OwnUpdate`).
* With `MayHoist`, the build may take the test of `_enabled_job` out of the loop,
  since nothing in the empty loop changes it.
* `isStartedInterval()` reads `lastRun` and then `nextRun` in one step, and a turn of the
  loop of `update()` tests `lastRun` and passes it to `getNextStart` in one step, although
  the other thread might store one of them in between.
* Jobs have one sub-daily interval; `TaskSchedule` has the others.  The loop of
  `update()` for a job without `last_run` is one step in `LoadTask`, where nobody
  else sees the `Task`, and step by step in a refresh.
* The connection does not break while `init()` reads the jobs.

History variables: `stamp` (the argument of the last `setLastRun`), `dirty` (a
refresh or restart read a row that lacks that start, or overlapped it), `lost`
(that start will not get into the row), `sinceOff`, `outcome`.

### TaskConnection

The thread of a job reads its name twice: when it registers a connection and when it
looks the connection up again; `update()` may change the name in between, and another
job may use it.

| Action | Code |
|---|---|
| `ReadName`, `Register` | `OpenConnection`: the name is copied, then registered by `addDatabase` |
| `Open` | `ThreadDB.open()` of `run()` |
| `Lookup`, `Reopen`, `Retry` | `database(name)` after `setLastRun`, `db.open()`, and the loop that repeats it |
| `Act` | the action, which may fail |
| `Log` | `saveLogMessageDB`, which opens the connection again; `run()` goes on by `continue` |
| `Close` | `CloseConnection` |
| `Refresh` | `update()` of the job whose notification is served |
| `Rename`, `Kill` | the table, and the end of the process |

`dict` is Qt's dictionary, `conn[j][n]` what job `j` has under the name `n`: a
registration under a name in use replaces the connection there, and cuts off whoever
holds it; `database()` gives a thread no connection of another (Qt 5.11 and later).
Both are modelled from how the code uses them.  Rows without a name share the empty
one (`Unnamed`), since the column is unique but may be null.  History variables:
`disturbed` (the execution shared its name with another job, or lost it to a refresh),
`failed` (the latest execution ended without a close), `renamed`.

### WorkerRegistry

Which rows have a `Task`, how many, and whether its thread runs; what the threads do
is `TaskRun`'s matter.  Both modules have the main thread and the connection:
`TaskRun` with a fixed set of rows and every member of a `Task`, this one with
changing rows and a `Task` reduced to "its `update()` found the row" (`found`), "its
thread executes `run()`" (`started`) and the number of times its signal is connected
(`links`).  `update()` may also not return (`schedule_stuck` says for which rows): from
then on the main thread is "stuck", until the process is killed.

| Action | Code |
|---|---|
| `Open`, `Subscribe`, `SelectIds`, `LoadTask`, `StartTasks` | `init`, `getListTasks`, `startTasks` |
| `TakeNote`, `AddTask`, `UpdateTask` | `NotifyHandler`, `startTask` |
| `Hang` | the loop of `update()` in any of these, or in `getListTasks` (`task.cpp:184-189`) |
| `UpdateLastRunTask`, `SystemEventHandler` | a failed statement and the reconnection |
| `Insert`, `Delete`, `Edit` | the administrator, with the trigger's notification |
| `Disconnect`, `Kill` | the network, `kill -9` |

`startTask` starts every worker with the id: for one that runs already,
`moveToThread` is refused (its `Task` lives in another thread), the call of `run()`
posted to the old thread waits behind a loop without an end, and only the second
connection of `UpdateLastRun` has an effect.  Nothing handles a deletion: the worker
stays.  Ids come from a sequence and are not used twice, hence `gone`.  `window`
records the rows inserted between subscription and `SELECT`.  The function of the
trigger is not in the repository; what it sends is taken from what `NotifyHandler`
reads.

### DeployDB

Programs that start on one database, one statement a step; each statement is a
transaction of its own, and `CREATE TABLE` with its `CREATE TRIGGER` is one statement.

| Action | Code |
|---|---|
| `Start` | `init`, `deploy`: the default connection file is written if there is none |
| `Open` | `db.open()`, tried once: a program that fails here stays idle |
| `CheckSchema`, `CreateSchema`, `CheckTable`, `CreateTable`, `CheckColumns`, `CheckFunction` | the queries of `deployDB`, in its order, with the branches to the next |
| `Ends` | `exit(0)`: the table or the function is not what it should be |
| `Adds`, `Alters`, `EditConfig` | an administrator, who may drop the schema with all that is in it |
| `Disconnect`, `Kill` | the network, `kill -9` |

A table is `right` with 15 columns and `wrong` otherwise, which is all that is
looked at.  The trigger comes with the table, in one transaction, and no statement looks
for it, so it has no variable.  The function is never created by the program: two
functions of the name, or none, end it with `exit(0)`, and nothing starts it again.  A `SELECT` that fails has no
rows, so its check is passed over (`Errs`).  History: `erred` (a statement of this start
failed), `meddled` (an administrator dropped or altered something since).

### QtServiceUnix

Processes that may become the service (`Instances`) and processes that call it
(`Callers`).  Only the socket file tells whether a service runs.  The code is the vendored
library, which jobsPG does not execute under Linux (see above).

| Action | Code |
|---|---|
| `Install`, `Uninstall` | `install`, `uninstall`: the keys of `QSettings` |
| `SendCmd`, `Return` | `stop`, `pause`, `resume`, `sendCommand` by `sendCmd`, up to its wait and after it |
| `Run`, `CtlStart` | `exec()` without an argument, `QtServiceController::start` |
| `AskAlive`, `Return`, `Launch` | `QtServiceBasePrivate::start`: "alive", and `startDetached` |
| `SetPathUnlink`, `SetPathBind`, `SetPathListen` | `QtUnixServerSocket::setPath` |
| `StartService`, `LoopExit`, `CloseUnlink` | `run(true)`: `startService`, the end of the loop, `sysCleanup` with `close()` |
| `Handle` (`Refuse`, `Obey`, `DieObeying`) | `slotReady` and `slotClosed` for one command |
| `Crash` | the process dies and leaves its file |

A connection whose process is past its loop reads as closed from then on: with `close()`
if it was not accepted, with the deletion of the socket objects if it was; the model lets
the caller see either at the first of these times or later.  `result` is what the call
returned.  History: `called` (the function of the service for
the command was called), `hasty` (a start or a stop began while another was under way).

### QtServiceWin

The main thread, the thread of `serviceMain` (`svc`) and that of the dispatcher
(`disp`), with the mutex and the condition of `handler()` step by step, since the
condition has no predicate.

| Action | Code |
|---|---|
| `CtlStart`, `Send`, `Deliver`, `Refuse`, `TimeOut`, `Poll` | the controller, and `ControlService` of the manager |
| `Connect`, `ServiceMain`, `Acquire` | `HandlerThread::run`, `serviceMain`, the two semaphores |
| `Lock`, `SetStatus`, `Post`, `Wait`, `Woken`, `Unlock` | `handler()` under its mutex: the pending state, the event, the wait, the final state |
| `ReadStatus`, `DeliverStatus` | its last report, outside the mutex |
| `SysInit`, `CreateApplication`, `LeaveLoop`, `ReportStopped`, `Delete`, `Exit`, `GiveUp` | `QtServiceBasePrivate::start` |
| `TakeEvent`, `CallService`, `WakeAll` | the loop and `handleCustomEvent` |
| `Crash` | the process dies, or `deployDB` calls `exit(0)` in `start()` |

`Delete` waits for nobody: the result of `ht->wait(1000)` is not looked at and `svc` is
not waited for, so a thread may still be in `handler()` when its mutex is gone.  What such
a thread does then is undefined; in the model it goes on until the process ends, which the
main thread does next.

The flags of the run are `CanBeSuspended`, which `Service` sets, and `NeedsStopOnShutdown`
besides, so that the shutdown reaches `handler()`.

The manager is external: it starts a process only for a stopped service, delivers one
control at a time, refuses one that the state or the flags do not accept or that the
shutdown of the system has overtaken, and lets a caller wait for 30 seconds, after which the handler goes on without it.  `pause()`, `resume()`
and `stop()` of the service are empty (`service.cpp`).  History: `started`, `paused`,
`called`, `over` (the process a stop was given to has left its loop), `late` (a report
overtook a newer one that was made, or the one that follows it).

### ServiceContract

One state machine, with the state that the manager shows (`shown`) and what the service
was told last (`told`): a function is called when its pending state is shown, a final
state is shown when it has returned and says what the service was told, after `stop()`
nothing but STOPPED is reported, and the end of the process resets all of it.  Once a
report has overtaken a newer one (`late`), which the last report of `handler()` can do,
since it is made outside the mutex, the state says only that the service was started.
`QtServiceWin` implements it with `shown` the state of the manager and `told` computed
from `started`, `quitting` and `paused` (`Told`).  `CallService` is `Start`, `Pause`,
`Resume` or `Stop`; `SetStatus`, `DeliverStatus` and `ReportStopped` are `Report`,
`Overtake` or nothing new; the mutex, the semaphores, the condition, the event queue and
the callers are hidden.  `RunningMeansStarted` and `ReportsAgree` are consequences; they are
proved, and checked as parts of the contract.

## Runs

| Run | Instance | What it shows | Distinct states |
|---|---|---|---|
| `schedule_fine` | secondly/3, minutely/2, hourly/1; start dates null, stale, past, future; 24 ticks | `RunsOnlyIfLoadedAfterStart`, `ImplementsContract` | 806,238 |
| `schedule_daily` | two daily and one weekly interval; almost three days | `ImplementsContract`: within its hour, once a day | 1,089,515 |
| `schedule_stuck` | unknown `FREQ`, `INTERVAL=0`, and one daily interval with an hour out of range | `CatchUpTerminates`, `HangIsPermanent` | 78,532 |
| `run_one_job` | one job of period 2, five instants, two changes of the table | `LastRunIsDurable`, `QuiescentEnabledAgrees`, `AtMostOneRunAfterDisable`, `PidLeftByFailure`, `ImplementsContract` | 4,277,961 |
| `run_live` | one job, three instants, one change | `RunIsEventuallyPersisted` | 206,929 |
| `connection` | two jobs, two names and the empty one, two changes of a name | `UndisturbedKeepsConnection`, `LeftOpenByFailure`, `ExecutionEnds` | 469,381 |
| `registry` | three rows, two notifications that are no insertion | `NoJobMissed`, `DuplicatesFromWindow`, `ConnectedOnce`, `DeafMisses`, `InsertedIsServed` | 727,575 |
| `deploy` | two programs and an administrator | `ServingIsVerified`, `ReadyComesToServe` | 76,958 |
| `unix` | one caller, three processes, all commands | `UnhurriedIsSingle`, `UnhurriedIsReachable`, `AnswersAreHonest`, `CallsReturn`, `StopTakesEffect` | 325,246 |
| `unix_isrunning` | two callers, two processes | that `isRunning()` is not what its documentation says: `IsRunningAsDocumented` is violated | |
| `win` | one caller, all controls, suspendable, stopped on shutdown | `AnswersAreHonest`, `NoLostWakeUp`, `ImplementsContract`, `CallsReturn`, `StopTakesEffect`, `StartupCompletes` | 222,636 |
| `win_delete` | as `win` | that the mutex and the condition are deleted while `handler()` uses them: `HandlerFinished` is violated | |

Bounds.  The small calendar has 2 seconds a minute, 2 minutes an hour, 2 hours a
day and 2 days a week, so each unit differs from the next and every boundary (end
of a minute, an hour, a day, a week) is crossed within a run; the clock starts on
the third day so that stale start dates exist (`StaleDays = 1`).  `MaxClock` leaves
time for two runs of every interval with a refresh, a restart and a delay between
them; in `TaskRun` it leaves time for two periods after a start date.  `MaxEdits` bounds the changes
of the table that the model counts; with two of them two notifications about the
same job can wait while a third value is already in the row.  The proofs need none
of these bounds.

Three rows are enough for one that is listed, one that is inserted in the window and
one that comes later, in one behaviour; a third notification that is no insertion
repeats what two of them do.  Two jobs are enough to share a name, and two renames to
swap it or to give it away and take it back while an execution is under way.  Two
programs are enough for one to come between a check and a creation of the other.
The flags of `unix` are empty, so that `pause` and `resume` are refused and `terminate` is not.
One caller of the Unix service meets all races of `unix` with processes it has launched
before, since these go on by themselves; three processes are one that ends, one that
replaces it and one launched in error.  Overlapping starts need the second caller of
`unix_isrunning`.  In `win` a call that timed out leaves its handler behind, so one
caller has two controls under way.  That the invariants do not depend on these numbers
is what the proofs say.  `DeployDB` and `QtServiceWin` have no counters at all.

Every module has its type invariant in one run.  In `win` the system may stop for good,
once it is shutting down, so TLC does not look for deadlocks there.  A property the
code does not have is not stated: a daily job with `BYMINUTE` may run twice a day after
a missed one, a job whose refresh read an old `last_run` may rerun early, an enabled job
may never be polled by a hoisting build, two starts at once leave two services.  The
comments at the properties say what is excepted.

Fairness.  `TaskSchedule` assumes weak fairness of `CatchUp`, a computation that no
other thread blocks.  `TaskRun` assumes it of the three statements of `setLastRun`
in each thread and of the main loop, which are scheduled by the operating system;
for the step of `SystemEventHandler` it says that the database comes back one day
(the code tries for ever).  `WorkerRegistry` assumes it of the main thread alone, with the
same meaning for the reconnection; a step of it may be the one that hangs, and
`InsertedIsServed` excepts it.  `TaskConnection` assumes it of each execution: threads go on,
actions return, and the server can be reached one day.  `DeployDB` assumes it of the
statements of a start, which return, and not of the start itself: `jobspg.service` has no
`Restart=`, and `exit(0)` would not be a failure to it.  `QtServiceUnix`
assumes it of each process and, command by command, of the event loop, which serves
every socket that is ready.  `QtServiceWin` assumes it of the manager and of the three
threads, and strong fairness of `LeaveLoop`: a loop that was told to quit does so,
however often it still finds an event.  Nothing is assumed of edits, kills, crashes,
callers or the clock, nor that the process is started.

## Findings

`unix_isrunning`: `qtservice.cpp:223` says that `isRunning()` "Returns true if the service
is running; otherwise returns false."  `QtUnixServerSocket::setPath` unlinks the socket
file before it binds (`qtunixserversocket.cpp:36`) and `close()` unlinks it again
(`:52`), whichever process made it.  After two overlapping starts, or a start during a
stop, a service serves whose file is gone: `isRunning()` is false, it cannot be stopped
by a command, and the next start makes another.

`win_delete`: `qtservice_win.cpp:808` says of `ht->wait(1000)` that it is to "let the
handler thread finish".  Its result is not looked at, and the object with the mutex and the
condition is deleted after a second in any case (`:807-814`).  A handler that the loop has
woken and that has not run within that second finds them gone.

Two more are not runs.  `install` writes the key `automaticStartup`
(`qtservice_unix.cpp:393`) and `startupType` reads `startupType` (`:133`), so that what
`qtservice.cpp:250` documents is never the type set.  And `qtservice.cpp:336` says that
`stop()` "Returns true if a running service was successfully stopped; otherwise false",
but the handler of `terminate` has only asked its loop to quit when it answers "true"
(`qtservice_unix.cpp:294-321`): the caller goes on while the service still listens, and
`isRunning()` finds it.  The properties of `unix` say what does hold of that answer: the
process that gave it is on its way out (`AnswersAreHonest`), and ends (`StopTakesEffect`).

## Proofs

Everything below is proved for every value of the constants: any calendar, any set
of intervals, start dates and jobs, any bound.

`DataInterval_proof`: `NextStartProgress` (a progressive interval moves a past time
forward), `NoProgressIsFinal` (a turn that does not move forward is followed by
none that does), with the typing and idempotence of the alignment.

`TaskSchedule_proof`, on the invariant `IInv`: a job that polls has been loaded, and
`lastRun` is the row's value, or was caught up from the start date no later than the
load.  `SpecTypeOK`, `SpecRunsOnlyIfLoadedAfterStart`, `SpecPostponedIsStuck` and
`SpecHangIsPermanent` follow from it.  `SpecNoEarlyRerun` and `SpecAtMostOncePerDay` need
`PlanInv` as well: what `nextRun` is worth once a run is recorded, in terms of that
run; neither property is inductive without it, since neither speaks of `nextRun`.
`SpecImplementsContract` shows the refinement: the initial states of `TaskSchedule` are
initial states of `JobContract`, and every step is one of its steps or a stutter; that a
`Run` is allowed by `MayRun` is where both invariants are needed.

`TaskRun_proof`:

* `SpecTypeOK`, with the job of `main` being one where it handles a job;
* `SpecAtMostOneRunAfterDisable` from `OffInv`: a thread that has executed a disabled
  job's action is on its way to the head of the loop;
* `SpecPidLeftByFailure`, inductive as it stands;
* `SpecQuiescentEnabledAgrees` from `AgreeInv`: a difference between row and memory has
  a notification to its name, or main holds the row's value;
* `SpecLastRunIsDurable` from `DurableInv`: the last event of a job in the queue carries
  its latest start, and when there is none the row has it;
* `SpecNoEarlyRerun` from `CleanInv`: as long as no stale row was read, `nextRun` is the
  stamp plus the period outside the two steps that compute it, and every value in the
  hands of `update()` is the stamp or derived from it;
* `SpecImplementsContract` from `CleanInv` and two invariants more: until the clock has
  passed the start date nothing has run and no later time is in memory, in the row or on
  its way (`BeforeStart`), so every stamp lies after that date (`StampInv`).  Every step of a thread or of main maps to a step of `Contract(j)`, or
  changes nothing of it, for each job `j`: the steps that record are `RecordedStep` and
  `RecordedAgainStep`, the others `UnrecordedStep`.  `SpecKeepsContracts` is the same as an
  implication between specifications, `\A j \in Jobs : Contract(j)!Spec`, which TLC cannot
  evaluate; the property it checks has the instances inside the box.

`WorkerRegistry_proof`, on the invariant `RInv`, inductive with its parts together:
an insertion is announced once (`OnceInv`), a row that is announced and has a worker
was inserted in the window (`WindowInv`), and a row on its way from the table to a
running `Task` is listed, announced, being handled, or there (`WayInv`).
`SpecNoJobMissed`, `SpecDuplicatesFromWindow` and `SpecConnectedOnce` follow;
`SpecDeafMisses` needs of it that no notification waits without a subscription.

`TaskConnection_proof`, on the invariant `IInv`: the types; an execution that holds a
connection has made it under `arg` (`InHand`); undisturbed, nobody else has the name or
is about to register under it (`Alone`), so what is registered stays its own
(`Undisturbed`); a `Task` never renamed has had connections under its one name only
(`NeverRenamed`), and between executions that did not fail this one is closed
(`ClosedInTurn`).  `SpecUndisturbedKeepsConnection` and `SpecLeftOpenByFailure` follow.
`Alone` is needed because the property says nothing of the other jobs, and they are who
could cut the connection off.

`DeployDB_proof`, on `IInv`: what each program has verified so far (`Verified`, one
conjunct per statement it has passed) still holds unless an administrator altered it.
`SpecServingIsVerified` follows, for any number of programs.

`QtServiceUnix_proof`: `SpecAnswersAreHonest` from `HonestInv` (what a waiting caller will
be told is what was done for it, or its process is dead; a process that has answered
`terminate` does not go back to its loop); `SpecUnhurriedIsSingle` and
`SpecUnhurriedIsReachable` from `CalmInv` (without haste, at most one caller is starting,
it has found nothing, and the only process alive is bound to the file or on its way to).

`QtServiceWin_proof`: `StartInv` (before `start()` has returned no control is let through)
gives `SpecRunningMeansStarted`.  The others need all of `IInv`: the order of the start and
the controls (`OrderInv`), one posted event at a time, for which a thread waits
(`EventInv`), no STOPPED before the loop has ended (`AliveInv`), what a caller will be told
has been done (`AnswerInv`), a shutdown is sent once (`ShutdownInv`), nobody else changes
the status between the first report of a handler and its wake-up (`PendingInv`), nothing
is let through once the service was told to quit (`QuitInv`), the next report agrees with
what the service was told (`PauseInv`), what it was told before the start has returned and
once a stop was handled (`ToldInv`), and what is shown and what the structure holds, for
each place of the dispatcher in `handler()` (`ShownInv`).  `SpecAnswersAreHonest`,
`SpecReportsAgree` and `SpecNoLostWakeUp` follow, for any number of callers; the last is the converse of `EventInv`, for which an event must not be posted
before the loop exists nor after it has ended.  `SpecImplementsContract` shows the
refinement of `ServiceContract`, with a lemma for each action that reports or calls a
function (`SetStatusImplements`, `DeliverStatusImplements`, `CallServiceImplements`,
`ReportStoppedImplements`); what they share is `ControlReport`, a report that any of two
threads may make first, and `LateReport`.

Only model-checked: liveness (`CatchUpTerminates`, `RunIsEventuallyPersisted`,
`InsertedIsServed`, `ExecutionEnds`, `ReadyComesToServe`, `CallsReturn`, `StopTakesEffect`,
`StartupCompletes`), which is out of the prover's reach;
every invariant a run checks is proved as well.

The assumptions are those named in the modules: `CalendarAssumption`,
`ScheduleAssumption`, `RunAssumption`, `NameAssumption`, `RegistryAssumption`,
`DeployAssumption`, `ServiceAssumption`, `ControlAssumption`; TLC evaluates each in the
runs of its module.

## Not modelled

* `main.cpp` and its message handler: a log file, a level and wording.  That every
  thread writes to one file without a lock is listed as a hazard; what such a race
  leaves in the file is not a state of the program.
* The members `_end_date`, `_auto_drop_job`, `_status` and `_interval`, and the accessors
  nothing calls: they are loaded and never used.
* The race on the reference counts of `QString` members, which lies below the level of
  the models: they take a member as one value.
* What the program does while the service library runs it as an ordinary program
  (`-e`), and the arguments that only print (`-v`, `-h`).
* Setters and flags of the service after its constructor, which jobsPG does not use,
  several commands in one packet, `syslog` and the event log, an installation that
  cannot write its settings.
* Installing and removing a Windows service: calls of the manager one after the other,
  with no state of the program between them.  Two Windows processes of one service at
  a time, which the manager may start between the last report of one and its end;
  two programs on one database are in `DeployDB`.
* The function of the trigger, which is not in the repository; the models take what it
  sends from what the code reads.
* The examples of `qtservice` and its documentation, which are not part of the program.
