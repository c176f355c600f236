------------------------------- MODULE TaskRun -------------------------------
(***************************************************************************)
(* The threads of the scheduler.  Every job has a thread of its own that   *)
(* executes Task::run() and never returns; the main thread serves the      *)
(* notifications of the database (NotifyHandler, which calls update() and  *)
(* setEnabled_job() on the Tasks of the other threads) and the posted      *)
(* UpdateLastRun events, which carry last_run to the database.  Nothing    *)
(* guards the members of a Task: an action below reads or writes one of    *)
(* them, and the threads interleave between any two.  (A QDateTime of the  *)
(* local time zone is one machine word, so a member is never half          *)
(* written.)                                                               *)
(*                                                                         *)
(* The process may be killed at any time: that is how jobspg.service stops *)
(* it.  Jobs repeat at a fixed period finer than a day and have a start    *)
(* date less than a year old; TaskSchedule has the other intervals.  The   *)
(* sleeps of the loops are arbitrary delays.                               *)
(***************************************************************************)
EXTENDS DataInterval, Sequences

CONSTANTS
    Jobs,
    NoJob,        \* what the main thread handles between two notifications
    JobInterval,  \* the interval of every job
    StartDate,
    MayHoist,     \* can the build move the test of _enabled_job out of its loop?
    MaxEdits,     \* bound on outside changes and on notified changes of its own
    MinClock,
    MaxClock      \* bounds of the clock, for model checking

ASSUME RunAssumption ==
    /\ NoJob \notin Jobs
    /\ JobInterval \in Intervals
    /\ Progressive(JobInterval) /\ JobInterval.freq \in SubDaily
    /\ StartDate \in Nat \ {0}
    /\ MayHoist \in BOOLEAN
    /\ MaxEdits \in Nat
    /\ MinClock \in Nat \ {0} /\ MaxClock \in Nat

VARIABLES
    now,     \* the clock
    dbEnabled, dbLastRun, dbPid,  \* columns of the table dbms_scheduler.jobs
    conn,    \* the main connection: "listening", "down", or open but "deaf"
    notes,   \* notifications that wait in the main connection
    edits,   \* number of changes so far that MaxEdits bounds
    enabled, lastRun, nextRun,    \* members of every Task
    pc,      \* where the thread of every job is
    stamp,   \* the argument of the latest setLastRun of every job
    main,    \* where the main thread is, and its local variables
    posted,  \* posted UpdateLastRun events
    dirty,   \* history: did a refresh overlap the recording of the last run?
    lost,    \* history: will the last run never be written to the row?
    sinceOff,\* history: actions executed since the Task was last disabled
    outcome  \* history: how the latest execution of the action went

row      == <<dbEnabled, dbLastRun, dbPid>>
linkVars == <<conn, notes, edits>>
mem      == <<enabled, lastRun, nextRun>>
histVars == <<dirty, lost, sinceOff, outcome>>
vars == <<now, row, linkVars, mem, pc, stamp, main, posted, histVars>>

\* The steps of setLastRun, called at two places of run().
Recording == {"next1", "emit1", "next2", "emit2"}

ThreadPCs == {"off", "loaded", "head", "hoisted", "poll", "last1", "reopen",
              "retry", "last2", "pid", "exec", "unpid"} \cup Recording

\* The steps of update(), called by NotifyHandler.
Updating == {"select", "enabled", "last", "branch", "first", "loop", "store",
             "next", "storeNext"}

MainPCs == {"dead", "boot", "idle", "reconnect", "state", "setState"}
               \cup Updating

Note  == [kind : {"UPDATE", "STATE"}, job : Jobs]
Event == [job : Jobs, time : Time]

TypeOK ==
    /\ now \in Time
    /\ dbEnabled \in [Jobs -> BOOLEAN]
    /\ dbLastRun \in [Jobs -> Time]
    /\ dbPid \in [Jobs -> BOOLEAN]
    /\ conn \in {"listening", "down", "deaf"}
    /\ notes \in Seq(Note)
    /\ edits \in 0 .. MaxEdits
    /\ enabled \in [Jobs -> BOOLEAN]
    /\ lastRun \in [Jobs -> Time]
    /\ nextRun \in [Jobs -> Time]
    /\ pc \in [Jobs -> ThreadPCs]
    /\ stamp \in [Jobs -> Time]
    /\ main \in [pc : MainPCs, job : Jobs \cup {NoJob}, flag : BOOLEAN, time : Time]
    /\ posted \in Seq(Event)
    /\ dirty \in [Jobs -> BOOLEAN]
    /\ lost \in [Jobs -> BOOLEAN]
    /\ sinceOff \in [Jobs -> 0 .. 2]
    /\ outcome \in [Jobs -> {"none", "running", "ok", "error", "killed"}]

\* The main thread at p, in a call for job j with the local values f and t.
Main(p, j, f, t) == [pc |-> p, job |-> j, flag |-> f, time |-> t]
At(p) == Main(p, NoJob, FALSE, NoTime)
Idle == At("idle")

Init ==
    /\ now = MinClock
    /\ dbEnabled \in [Jobs -> BOOLEAN]
    /\ dbLastRun = [j \in Jobs |-> NoTime]
    /\ dbPid = [j \in Jobs |-> FALSE]
    /\ conn = "down"
    /\ notes = <<>>
    /\ edits = 0
    /\ enabled = [j \in Jobs |-> FALSE]
    /\ lastRun = [j \in Jobs |-> NoTime]
    /\ nextRun = [j \in Jobs |-> NoTime]
    /\ pc = [j \in Jobs |-> "off"]
    /\ stamp = [j \in Jobs |-> NoTime]
    /\ main = At("dead")
    /\ posted = <<>>
    /\ dirty = [j \in Jobs |-> FALSE]
    /\ lost = [j \in Jobs |-> FALSE]
    /\ sinceOff = [j \in Jobs |-> 0]
    /\ outcome = [j \in Jobs |-> "none"]

-----------------------------------------------------------------------------
(***************************************************************************)
(* The world outside: the clock, the administrator, the main connection,   *)
(* and the kill that ends the process.                                     *)
(***************************************************************************)
Tick ==
    /\ now < MaxClock
    /\ now' = now + 1
    /\ UNCHANGED <<row, linkVars, mem, pc, stamp, main, posted, histVars>>

\* An outside change of the row of j, and the notification its trigger sends:
\* of the flag (STATE), or of any column (UPDATE).
Edit(j) ==
    /\ edits < MaxEdits
    /\ edits' = edits + 1
    /\ \E e \in BOOLEAN, k \in {"UPDATE", "STATE"} :
           /\ dbEnabled' = [dbEnabled EXCEPT ![j] = e]
           /\ notes' = IF conn = "listening"
                       THEN Append(notes, [kind |-> k, job |-> j]) ELSE notes
    /\ UNCHANGED <<now, dbLastRun, dbPid, conn, mem, pc, stamp, main, posted,
                   histVars>>

\* An UPDATE of the row of j by the scheduler itself.  The trigger fires on it too;
\* whether its function, which is not in the repository, then notifies is open.
OwnUpdate(j) ==
    /\ \/ UNCHANGED <<notes, edits>>
       \/ /\ conn = "listening" /\ edits < MaxEdits
          /\ notes' = Append(notes, [kind |-> "UPDATE", job |-> j])
          /\ edits' = edits + 1
    /\ UNCHANGED conn

\* The main connection breaks, though not while init() reads the jobs; what was
\* waiting in it is gone.
Disconnect ==
    /\ main.pc \notin {"dead", "boot"} /\ conn # "down"
    /\ conn' = "down"
    /\ notes' = <<>>
    /\ UNCHANGED <<now, row, edits, mem, pc, stamp, main, posted, histVars>>

\* kill -9.
Kill ==
    /\ main.pc # "dead"
    /\ main' = At("dead")
    /\ pc' = [j \in Jobs |-> "off"]
    /\ conn' = "down"
    /\ notes' = <<>>
    /\ posted' = <<>>
    /\ lost' = [j \in Jobs |-> dbLastRun[j] # stamp[j]]
    /\ outcome' = [j \in Jobs |-> IF pc[j] \in {"exec", "unpid"} THEN "killed"
                                  ELSE outcome[j]]
    /\ enabled' = [j \in Jobs |-> FALSE]
    /\ lastRun' = [j \in Jobs |-> NoTime]
    /\ nextRun' = [j \in Jobs |-> NoTime]
    /\ UNCHANGED <<now, row, edits, stamp, dirty, sinceOff>>

-----------------------------------------------------------------------------
(***************************************************************************)
(* Start of the process: PGWorker::init.                                   *)
(***************************************************************************)
\* The subscription comes before the list of jobs is read.
Boot ==
    /\ main.pc = "dead"
    /\ main' = At("boot")
    /\ conn' = "listening"
    /\ UNCHANGED <<now, row, notes, edits, mem, pc, stamp, posted, histVars>>

\* The loop of update() run to its end in one go: the first time that is no
\* longer past, whole periods after the start date.
CaughtUp ==
    LET p == Period(JobInterval)
    IN  IF now <= StartDate THEN StartDate
        ELSE StartDate + p * ((now - StartDate + p - 1) \div p)

\* getListTasks: a new Task and its update(), while it has no thread yet.
LoadTask(j) ==
    /\ main.pc = "boot"
    /\ pc[j] = "off"
    /\ pc' = [pc EXCEPT ![j] = "loaded"]
    /\ enabled' = [enabled EXCEPT ![j] = dbEnabled[j]]
    /\ lastRun' = [lastRun EXCEPT ![j] =
           IF dbLastRun[j] = NoTime THEN CaughtUp ELSE dbLastRun[j]]
    /\ nextRun' = [nextRun EXCEPT ![j] =
           IF dbLastRun[j] = NoTime THEN NoTime
           ELSE NextStart(JobInterval, dbLastRun[j], now)]
    /\ dirty' = [dirty EXCEPT ![j] = dbLastRun[j] # stamp[j]]
    /\ sinceOff' = [sinceOff EXCEPT ![j] = 0]
    /\ UNCHANGED <<now, row, linkVars, stamp, main, posted, lost, outcome>>

\* startTasks, and init returns to the event loop.
StartTasks ==
    /\ main.pc = "boot"
    /\ \A j \in Jobs : pc[j] = "loaded"
    /\ pc' = [j \in Jobs |-> "head"]
    /\ main' = Idle
    /\ UNCHANGED <<now, row, linkVars, mem, stamp, posted, histVars>>

-----------------------------------------------------------------------------
(***************************************************************************)
(* Task::run, the thread of job j.                                         *)
(***************************************************************************)
Goto(j, from, to) == pc[j] = from /\ pc' = [pc EXCEPT ![j] = to]

\* Mutant: the flag is tested only when the thread starts.
TestEnabled_Once(j) ==
    /\ \/ Goto(j, "head", "poll")
       \/ ~enabled[j] /\ Goto(j, "head", "head")
    /\ UNCHANGED <<now, row, linkVars, mem, stamp, main, posted, histVars>>

\* while (true) while (_enabled_job).  Nothing in the empty outer loop can
\* change the flag as far as the compiler knows: a build may test it only once.
TestEnabled(j) ==
    /\ \/ enabled[j] /\ Goto(j, "head", "poll")
       \/ ~enabled[j] /\ Goto(j, "head", "head")
       \/ ~enabled[j] /\ MayHoist /\ Goto(j, "head", "hoisted")
    /\ UNCHANGED <<now, row, linkVars, mem, stamp, main, posted, histVars>>

\* isStartedInterval(); for these Freqs the other tests of it are constant.
IsDue(j) == StartDate < lastRun[j] /\ nextRun[j] < now

\* Sleep, test, and open the job's own connection; back to the head of the loop
\* when the job is not due or the connection fails.
Poll(j) ==
    /\ \/ IsDue(j) /\ Goto(j, "poll", "last1")
       \/ Goto(j, "poll", "head")
    /\ UNCHANGED <<now, row, linkVars, mem, stamp, main, posted, histVars>>

UpdateInProgress(j) == main.pc \in Updating /\ main.job = j

\* setLastRun(currentDateTime()): lastRun = newLastRun
SetLast(j, from, to) ==
    /\ Goto(j, from, to)
    /\ stamp' = [stamp EXCEPT ![j] = now]
    /\ lastRun' = [lastRun EXCEPT ![j] = now]
    /\ dirty' = [dirty EXCEPT ![j] = UpdateInProgress(j)]
    /\ UNCHANGED <<now, row, linkVars, enabled, nextRun, main, posted, lost,
                   sinceOff, outcome>>

\* Mutant: setLastRun does not compute nextRun.
SetNext_Forgets(j, from, to) ==
    /\ Goto(j, from, to)
    /\ UNCHANGED <<now, row, linkVars, mem, stamp, main, posted, histVars>>

\* nextRun = getNextStart(newLastRun)
SetNext(j, from, to) ==
    /\ Goto(j, from, to)
    /\ nextRun' = [nextRun EXCEPT ![j] = NextStart(JobInterval, stamp[j], now)]
    /\ UNCHANGED <<now, row, linkVars, enabled, lastRun, stamp, main, posted,
                   histVars>>

\* Mutant: the signal is not connected.
EmitLast_Unconnected(j, from, to) ==
    /\ Goto(j, from, to)
    /\ lost' = [lost EXCEPT ![j] = FALSE]
    /\ UNCHANGED <<now, row, linkVars, mem, stamp, main, posted, dirty, sinceOff, outcome>>

\* emit UpdateLastRun(lastRun, _id): posted to the main thread, with what the
\* member holds by now.
EmitLast(j, from, to) ==
    /\ Goto(j, from, to)
    /\ posted' = Append(posted, [job |-> j, time |-> lastRun[j]])
    /\ lost' = [lost EXCEPT ![j] = lastRun[j] # stamp[j]]
    /\ UNCHANGED <<now, row, linkVars, mem, stamp, main, dirty, sinceOff, outcome>>

\* The first setLastRun, before the connection is opened again; the second one
\* right before the action.
Record(j) ==
    \/ SetLast(j, "last1", "next1")
    \/ SetNext(j, "next1", "emit1")
    \/ EmitLast(j, "emit1", "reopen")
    \/ SetLast(j, "last2", "next2")
    \/ SetNext(j, "next2", "emit2")
    \/ EmitLast(j, "emit2", "pid")

\* db.open() on the connection just opened.  When it fails the thread tries
\* until it succeeds, and then leaves the action out.
Reopen(j) ==
    /\ \/ Goto(j, "reopen", "last2")
       \/ Goto(j, "reopen", "retry")
       \/ Goto(j, "retry", "head")
    /\ UNCHANGED <<now, row, linkVars, mem, stamp, main, posted, histVars>>

\* UPDATE ... SET pid=pg_backend_pid(); nobody looks whether it succeeded.
SetPid(j) ==
    /\ Goto(j, "pid", "exec")
    /\ \/ dbPid' = [dbPid EXCEPT ![j] = TRUE] /\ OwnUpdate(j)
       \/ UNCHANGED <<dbPid, linkVars>>
    /\ outcome' = [outcome EXCEPT ![j] = "running"]
    /\ UNCHANGED <<now, dbEnabled, dbLastRun, mem, stamp, main, posted, dirty, lost,
                   sinceOff>>

\* The action itself.  An error is logged, and the loop goes on.
Exec(j) ==
    /\ \/ Goto(j, "exec", "unpid") /\ UNCHANGED outcome
       \/ /\ Goto(j, "exec", "head")
          /\ outcome' = [outcome EXCEPT ![j] = "error"]
    /\ sinceOff' = IF enabled[j] \/ sinceOff[j] = 2 THEN sinceOff
                   ELSE [sinceOff EXCEPT ![j] = @ + 1]
    /\ UNCHANGED <<now, row, linkVars, mem, stamp, main, posted, dirty, lost>>

\* Mutant: the pid stays after the action.
ClearPid_Forgets(j) ==
    /\ Goto(j, "unpid", "head")
    /\ outcome' = [outcome EXCEPT ![j] = "ok"]
    /\ UNCHANGED <<now, row, linkVars, mem, stamp, main, posted, dirty, lost,
                   sinceOff>>

\* UPDATE ... SET pid=NULL, whose error is logged; the connection is closed.
ClearPid(j) ==
    /\ Goto(j, "unpid", "head")
    /\ \/ /\ dbPid' = [dbPid EXCEPT ![j] = FALSE] /\ OwnUpdate(j)
          /\ outcome' = [outcome EXCEPT ![j] = "ok"]
       \/ /\ UNCHANGED <<dbPid, linkVars>>
          /\ outcome' = [outcome EXCEPT ![j] = "error"]
    /\ UNCHANGED <<now, dbEnabled, dbLastRun, mem, stamp, main, posted, dirty, lost,
                   sinceOff>>

Run(j) == TestEnabled(j) \/ Poll(j) \/ Record(j) \/ Reopen(j) \/ SetPid(j)
              \/ Exec(j) \/ ClearPid(j)

-----------------------------------------------------------------------------
(***************************************************************************)
(* The event loop of the main thread.                                      *)
(***************************************************************************)
\* The job whose last run was posted in e has no later event waiting.
IsLast(e) == \A i \in 2 .. Len(posted) : posted[i].job # e.job

\* Mutant: the events are served from the wrong end of the queue.
UpdateLastRunTask_Newest ==
    /\ main.pc = "idle" /\ posted # <<>>
    /\ posted' = SubSeq(posted, 1, Len(posted) - 1)
    /\ LET e == posted[Len(posted)]
       IN  /\ conn # "down" /\ e.time # NoTime
           /\ dbLastRun' = [dbLastRun EXCEPT ![e.job] = e.time]
    /\ UNCHANGED <<main, lost>>
    /\ UNCHANGED <<now, dbEnabled, dbPid, linkVars, mem, pc, stamp, dirty, sinceOff,
                   outcome>>

\* UpdateLastRunTask: UPDATE ... SET last_run.  It may fail, and does so when the
\* connection is down or the time is null; SystemEventHandler then opens the
\* connection again, and the event is gone.
UpdateLastRunTask ==
    /\ main.pc = "idle" /\ posted # <<>>
    /\ posted' = Tail(posted)
    /\ LET e == posted[1]
       IN  \/ /\ conn # "down" /\ e.time # NoTime
              /\ dbLastRun' = [dbLastRun EXCEPT ![e.job] = e.time]
              /\ OwnUpdate(e.job)
              /\ UNCHANGED <<main, lost>>
           \/ /\ main' = At("reconnect")
              /\ lost' = [lost EXCEPT ![e.job] = @ \/ IsLast(e)]
              /\ UNCHANGED <<dbLastRun, linkVars>>
    /\ UNCHANGED <<now, dbEnabled, dbPid, mem, pc, stamp, dirty, sinceOff, outcome>>

\* SystemEventHandler: the main thread does nothing else until db.open() has
\* succeeded.  The driver closes the connection first, and with it the
\* subscription, which only init() makes.
SystemEventHandler ==
    /\ main.pc = "reconnect"
    /\ main' = Idle
    /\ conn' = "deaf"
    /\ notes' = <<>>
    /\ UNCHANGED <<now, row, edits, mem, pc, stamp, posted, histVars>>

\* NotifyHandler takes a notification.
TakeNote ==
    /\ main.pc = "idle" /\ notes # <<>>
    /\ notes' = Tail(notes)
    /\ main' = Main(IF notes[1].kind = "STATE" THEN "state" ELSE "select",
                    notes[1].job, FALSE, NoTime)
    /\ UNCHANGED <<now, row, conn, edits, mem, pc, stamp, posted, histVars>>

\* A step of the main thread that touches neither database nor threads.
MainGoto(from, m) ==
    /\ main.pc = from
    /\ main' = m
    /\ UNCHANGED <<now, row, linkVars, pc, stamp, posted, lost, outcome>>

\* STATE: SELECT enabled_job, then setEnabled_job.  Nothing is selected over a
\* broken connection.
SelectState ==
    /\ MainGoto("state",
                IF conn = "down" THEN Idle
                ELSE Main("setState", main.job, dbEnabled[main.job], NoTime))
    /\ UNCHANGED <<mem, dirty, sinceOff>>

\* _enabled_job = flag.
AssignEnabled(j, flag) ==
    /\ enabled' = [enabled EXCEPT ![j] = flag]
    /\ sinceOff' = IF flag THEN [sinceOff EXCEPT ![j] = 0] ELSE sinceOff
    /\ UNCHANGED <<lastRun, nextRun, dirty>>

SetState ==
    /\ MainGoto("setState", Idle)
    /\ AssignEnabled(main.job, main.flag)

\* UPDATE: update(), step by step.  Each step is of the job main.job.
SelectRow ==
    /\ MainGoto("select",
                IF conn = "down" THEN Idle
                ELSE Main("enabled", main.job, dbEnabled[main.job],
                          dbLastRun[main.job]))
    /\ dirty' = [dirty EXCEPT ![main.job] =
                    @ \/ (conn # "down" /\ dbLastRun[main.job] # stamp[main.job])]
    /\ UNCHANGED <<mem, sinceOff>>

\* Mutant: update() leaves _enabled_job as it is.
UpdateEnabled_Forgets ==
    /\ MainGoto("enabled", Main("last", main.job, FALSE, main.time))
    /\ UNCHANGED <<mem, dirty, sinceOff>>

UpdateEnabled ==
    /\ MainGoto("enabled", Main("last", main.job, FALSE, main.time))
    /\ AssignEnabled(main.job, main.flag)

\* An assignment to lastRun.
AssignLast(from, to, value) ==
    /\ MainGoto(from, Main(to, main.job, FALSE, NoTime))
    /\ lastRun' = [lastRun EXCEPT ![main.job] = value]
    /\ UNCHANGED <<enabled, nextRun, dirty, sinceOff>>

AssignNext(from, value) ==
    /\ MainGoto(from, Idle)
    /\ nextRun' = [nextRun EXCEPT ![main.job] = value]
    /\ UNCHANGED <<enabled, lastRun, dirty, sinceOff>>

\* A decision on the present value of lastRun, which may not be the one that the
\* previous step stored.
Read(from, m) == MainGoto(from, m) /\ UNCHANGED <<mem, dirty, sinceOff>>

LastNow == lastRun[main.job]
NextOfLast == NextStart(JobInterval, LastNow, now)

UpdateTimes ==
    \/ AssignLast("last", "branch", main.time)
    \/ Read("branch", Main(IF LastNow = NoTime THEN "first" ELSE "next",
                           main.job, FALSE, NoTime))
    \/ AssignLast("first", "loop", StartDate)
    \/ Read("loop", IF LastNow < now
                    THEN Main("store", main.job, FALSE, NextOfLast)
                    ELSE Idle)
    \/ AssignLast("store", "loop", main.time)
    \/ Read("next", Main("storeNext", main.job, FALSE, NextOfLast))
    \/ AssignNext("storeNext", main.time)

MainLoop == \/ UpdateLastRunTask \/ SystemEventHandler \/ TakeNote
            \/ SelectState \/ SetState
            \/ SelectRow \/ UpdateEnabled \/ UpdateTimes

Next ==
    \/ Tick \/ Disconnect \/ Kill \/ Boot \/ StartTasks
    \/ \E j \in Jobs : Edit(j) \/ LoadTask(j)
    \/ \E j \in Jobs : Run(j)
    \/ MainLoop

\* The threads are scheduled fairly, and the database comes back when it was
\* down (SystemEventHandler tries for ever).
Spec ==
    /\ Init /\ [][Next]_vars
    /\ WF_vars(MainLoop)
    /\ \A j \in Jobs : WF_vars(Record(j))

-----------------------------------------------------------------------------
(***************************************************************************)
(* Properties.                                                             *)
(***************************************************************************)
\* A job is not started before its period has passed since its last start
\* (task.cpp:192-195, 225, 392-398), through every interleaving of its thread
\* with update() and through kills, unless a refresh or a restart read a row to
\* which that start had not been written yet, or was under way while the start
\* was recorded: then nextRun is computed from an older last_run.
NoEarlyRerun ==
    [][\A j \in Jobs :
          pc[j] = "last1" /\ pc'[j] = "next1" /\ stamp[j] # NoTime /\ ~dirty[j]
             => now > stamp[j] + Period(JobInterval)]_vars

\* Between two setLastRun calls of run(), and with nothing of job j posted, the
\* row holds its latest start (task.cpp:392-398, pgworker.cpp:287-302).  The
\* exceptions, which lost records: the update of the row failed, the process
\* was killed first, or a refresh changed lastRun before it was emitted.
LastRunIsDurable ==
    \A j \in Jobs :
        /\ pc[j] \notin Recording
        /\ \A i \in DOMAIN posted : posted[i].job # j
        /\ ~lost[j]
        => dbLastRun[j] = stamp[j]

\* Once every notification about a job has been handled, its Task is enabled
\* exactly if its row is (pgworker.cpp:28-31, 244-266; task.cpp:167), while the
\* subscription lasts.
QuiescentEnabledAgrees ==
    \A j \in Jobs :
        /\ main.pc = "idle" /\ conn = "listening"
        /\ \A i \in DOMAIN notes : notes[i].job # j
        => enabled[j] = dbEnabled[j]

\* After a Task is disabled its thread executes the action at most once more,
\* wherever in its loop it was (task.cpp:413-416).
AtMostOneRunAfterDisable == \A j \in Jobs : sinceOff[j] <= 1

\* A pid that stands in the row of a job whose action is not being executed was
\* left by an execution that failed or was killed (task.cpp:444-455).
PidLeftByFailure ==
    \A j \in Jobs :
        dbPid[j] /\ pc[j] \notin {"exec", "unpid"}
            => outcome[j] \in {"error", "killed"}

\* What setLastRun recorded gets into the row, or is known to be lost
\* (pgworker.cpp:287-302), among the notifications that the main thread serves too.
RunIsEventuallyPersisted ==
    \A j \in Jobs :
        stamp[j] # dbLastRun[j] ~> stamp[j] = dbLastRun[j] \/ lost[j]

-----------------------------------------------------------------------------
(***************************************************************************)
(* Refinement: hide the threads, keep the clock and, of every job, its     *)
(* latest start, which is last_run as soon as it has reached the row.      *)
(***************************************************************************)
Contract(j) == INSTANCE JobContract WITH
    JobIntervals <- {JobInterval},
    StartDates   <- {StartDate},
    start  <- StartDate,
    iv     <- JobInterval,
    dbLast <- stamp[j],
    ran    <- stamp[j],
    begun  <- pc[j] \in {"next1", "emit1", "reopen", "last2"},
    stale  <- dirty[j]

\* However its thread, update(), posted events and kills interleave, every job is
\* started when the contract allows it, the one TaskSchedule keeps as well: after
\* its start date, and with its period over since its latest start unless a
\* refresh or a restart missed that one (task.cpp:140-238, 392-475).
ImplementsContract ==
    /\ \A j \in Jobs : Contract(j)!Init
    /\ [][\A j \in Jobs : [Contract(j)!Next]_(Contract(j)!vars)]_vars

=============================================================================
