--------------------------- MODULE WorkerRegistry ---------------------------
(***************************************************************************)
(* The list of workers of PGWorker (Objects/pgworker.cpp) against the rows *)
(* of dbms_scheduler.jobs.  init() subscribes to the trigger, reads the    *)
(* list of jobs and starts a thread for each; an ADD notification makes a  *)
(* worker for a row inserted later.  Nothing removes a worker.             *)
(*                                                                         *)
(* All of this happens on the main thread; what interleaves with it is the *)
(* administrator, who inserts and deletes rows, the connection, which      *)
(* breaks and is opened again, and the kill that ends the process.         *)
(***************************************************************************)
EXTENDS Naturals, Sequences

CONSTANTS
    Jobs,       \* ids of rows; a bigserial, so no id is used twice
    NoJob,
    MaxOther    \* bound on notifications that are no insertion

ASSUME RegistryAssumption ==
    /\ NoJob \notin Jobs
    /\ MaxOther \in Nat

VARIABLES
    rows,     \* ids in the table
    gone,     \* ids of deleted rows
    conn,     \* the main connection: "down", "open", or open and "listening"
    notes,    \* notifications that wait in it
    others,   \* how many of them were no insertion
    main,     \* where the main thread is, and the job it handles
    listed,   \* result of the SELECT of getListTasks, as far as it is not loaded
    workers,  \* the QList of workers
    window    \* history: rows inserted between subscription and SELECT

vars == <<rows, gone, conn, notes, others, main, listed, workers, window>>
tableVars == <<rows, gone, others, window>>
linkVars  == <<conn, notes>>

Kinds == {"ADD", "UPDATE", "OTHER"}
Note  == [kind : Kinds, job : Jobs]

\* A worker, whether update() found its row, whether its thread executes run(),
\* and how often its signal UpdateLastRun is connected.
Worker(j, found, started, links) ==
    [job |-> j, found |-> found, started |-> started, links |-> links]

WorkerType == [job : Jobs, found : BOOLEAN, started : BOOLEAN, links : Nat]

MainPCs == {"dead", "open", "subscribed", "list", "idle", "add",
            "update", "reconnect", "stuck"}

TypeOK ==
    /\ rows \subseteq Jobs
    /\ gone \subseteq Jobs
    /\ conn \in {"down", "open", "listening"}
    /\ notes \in Seq(Note)
    /\ others \in 0 .. MaxOther
    /\ main \in [pc : MainPCs, job : Jobs \cup {NoJob}]
    /\ listed \subseteq Jobs
    /\ workers \in Seq(WorkerType)
    /\ window \subseteq Jobs

At(p) == [pc |-> p, job |-> NoJob]

Init ==
    /\ rows \in SUBSET Jobs
    /\ gone = {}
    /\ conn = "down"
    /\ notes = <<>>
    /\ others = 0
    /\ main = At("dead")
    /\ listed = {}
    /\ workers = <<>>
    /\ window = {}

-----------------------------------------------------------------------------
(***************************************************************************)
(* The table, the connection and the process.                              *)
(***************************************************************************)
\* What the trigger sends reaches only a session that listens.
Notify(k, j) ==
    notes' = IF conn = "listening" THEN Append(notes, [kind |-> k, job |-> j])
             ELSE notes

Insert(j) ==
    /\ j \notin rows \cup gone
    /\ rows' = rows \cup {j}
    /\ window' = IF main.pc = "subscribed" /\ conn = "listening"
                 THEN window \cup {j} ELSE window
    /\ Notify("ADD", j)
    /\ UNCHANGED <<gone, conn, others, main, listed, workers>>

Delete(j) ==
    /\ others < MaxOther
    /\ others' = others + 1
    /\ j \in rows
    /\ rows' = rows \ {j}
    /\ gone' = gone \cup {j}
    /\ Notify("OTHER", j)
    /\ UNCHANGED <<conn, main, listed, workers, window>>

\* An UPDATE, or a STATE, which leaves the list and what it stands for alone.
Edit(j) ==
    /\ others < MaxOther
    /\ others' = others + 1
    /\ j \in rows
    /\ \E k \in {"UPDATE", "OTHER"} : Notify(k, j)
    /\ UNCHANGED <<rows, gone, conn, main, listed, workers, window>>

Disconnect ==
    /\ main.pc # "dead" /\ conn # "down"
    /\ conn' = "down"
    /\ notes' = <<>>
    /\ UNCHANGED <<tableVars, main, listed, workers>>

\* kill -9.
Kill ==
    /\ main.pc # "dead"
    /\ main' = At("dead")
    /\ conn' = "down"
    /\ notes' = <<>>
    /\ listed' = {}
    /\ workers' = <<>>
    /\ window' = {}
    /\ UNCHANGED <<rows, gone, others>>

-----------------------------------------------------------------------------
(***************************************************************************)
(* PGWorker::init.                                                         *)
(***************************************************************************)
\* db.open(), which must succeed for the rest of init() to happen.
Open ==
    /\ main.pc = "dead"
    /\ main' = At("open")
    /\ conn' = "open"
    /\ UNCHANGED <<tableVars, notes, listed, workers>>

\* subscribeToNotification; its result is not looked at.
Subscribe ==
    /\ main.pc = "open"
    /\ main' = At("subscribed")
    /\ conn' = IF conn = "open" THEN "listening" ELSE conn
    /\ UNCHANGED <<tableVars, notes, listed, workers>>

\* Mutant: the first value of the result is used before its rows are tried, and
\* is 0 where there are none.
SelectIds_ReadsFirst ==
    /\ main.pc = "subscribed"
    /\ main' = At("list")
    /\ listed' = IF conn = "down" \/ rows = {} THEN {NoJob} ELSE rows
    /\ UNCHANGED <<tableVars, linkVars, workers>>

\* The SELECT of getListTasks, which yields nothing over a broken connection.
SelectIds ==
    /\ main.pc = "subscribed"
    /\ main' = At("list")
    /\ listed' = IF conn = "down" THEN {} ELSE rows
    /\ UNCHANGED <<tableVars, linkVars, workers>>

\* Does the SELECT of update() find the row of j?
Found(j) == conn # "down" /\ j \in rows

\* A new Task and its update(), for the next row of the result.
LoadTask(j) ==
    /\ main.pc = "list" /\ j \in listed
    /\ listed' = listed \ {j}
    /\ workers' = Append(workers, Worker(j, Found(j), FALSE, 0))
    /\ UNCHANGED <<tableVars, linkVars, main>>

Started(w) == Worker(w.job, w.found, TRUE, w.links + 1)

StartTasks ==
    /\ main.pc = "list" /\ listed = {}
    /\ main' = At("idle")
    /\ workers' = [i \in DOMAIN workers |-> Started(workers[i])]
    /\ UNCHANGED <<tableVars, linkVars, listed>>

-----------------------------------------------------------------------------
(***************************************************************************)
(* The event loop.                                                         *)
(***************************************************************************)
\* NotifyHandler takes a notification.  Those of a DELETE it knows nothing of,
\* and a STATE only sets a flag.
TakeNote ==
    /\ main.pc = "idle" /\ notes # <<>>
    /\ notes' = Tail(notes)
    /\ LET n == notes[1]
       IN  main' = IF n.kind = "OTHER" THEN main
                   ELSE [pc |-> IF n.kind = "ADD" THEN "add" ELSE "update",
                         job |-> n.job]
    /\ UNCHANGED <<tableVars, conn, listed, workers>>

\* startTask: a thread for every worker with that id, one that runs already
\* among them.  Its Task belongs to another thread, so moveToThread is refused,
\* and its run() is called once more only if that other thread ever becomes
\* idle; but the signal is connected a second time.
StartTask(ws, j) ==
    [i \in DOMAIN ws |-> IF ws[i].job = j THEN Started(ws[i]) ELSE ws[i]]

\* Mutant: startTask is called before the worker is in the list.
AddTask_StartsFirst ==
    /\ main.pc = "add"
    /\ main' = At("idle")
    /\ workers' = Append(StartTask(workers, main.job),
                         Worker(main.job, Found(main.job), FALSE, 0))
    /\ UNCHANGED <<tableVars, linkVars, listed>>

\* ADD: a new worker, its update(), and startTask.
AddTask ==
    /\ main.pc = "add"
    /\ main' = At("idle")
    /\ workers' = StartTask(Append(workers,
                                   Worker(main.job, Found(main.job), FALSE, 0)),
                            main.job)
    /\ UNCHANGED <<tableVars, linkVars, listed>>

\* Mutant: a refreshed worker is started, as a new one is.
UpdateTask_Starts ==
    /\ main.pc = "update"
    /\ main' = At("idle")
    /\ workers' = StartTask(workers, main.job)
    /\ UNCHANGED <<tableVars, linkVars, listed>>

\* UPDATE: update() on every worker with that id; one that finds no row leaves
\* the Task as it is.
UpdateTask ==
    /\ main.pc = "update"
    /\ main' = At("idle")
    /\ workers' = [i \in DOMAIN workers |->
           LET w == workers[i]
           IN  IF w.job = main.job
               THEN Worker(w.job, w.found \/ Found(w.job), w.started, w.links)
               ELSE w]
    /\ UNCHANGED <<tableVars, linkVars, listed>>

\* A Task that runs has posted a last_run whose UPDATE fails.
UpdateLastRunTask ==
    /\ main.pc = "idle"
    /\ \E i \in DOMAIN workers : workers[i].found /\ workers[i].started
    /\ main' = At("reconnect")
    /\ UNCHANGED <<tableVars, linkVars, listed, workers>>

\* Mutant: the whole of init() instead of a mere open().
SystemEventHandler_Init ==
    /\ main.pc = "reconnect"
    /\ main' = At("open")
    /\ conn' = "open"
    /\ notes' = <<>>
    /\ UNCHANGED <<tableVars, listed, workers>>

\* SystemEventHandler: the connection is opened again, without the subscription.
SystemEventHandler ==
    /\ main.pc = "reconnect"
    /\ main' = At("idle")
    /\ conn' = "open"
    /\ notes' = <<>>
    /\ UNCHANGED <<tableVars, listed, workers>>

WorkersOf(j) == {i \in DOMAIN workers : workers[i].job = j}

\* Which row update() is called for next, if its SELECT finds that row.
Updates(j) ==
    /\ Found(j)
    /\ \/ main.pc = "list" /\ j \in listed
       \/ main.pc = "add" /\ main.job = j
       \/ main.pc = "update" /\ main.job = j /\ WorkersOf(j) # {}

\* The interval and the start date of the row may be such that the loop of update()
\* never catches up: the main thread is in it for good, whatever it was called for.
Hang(j) ==
    /\ Updates(j)
    /\ main' = At("stuck")
    /\ listed' = {}
    /\ UNCHANGED <<tableVars, linkVars, workers>>

Main == \/ Subscribe \/ SelectIds \/ StartTasks
        \/ \E j \in Jobs : LoadTask(j) \/ Hang(j)
        \/ TakeNote \/ AddTask \/ UpdateTask \/ SystemEventHandler

Next ==
    \/ \E j \in Jobs : Insert(j) \/ Delete(j) \/ Edit(j)
    \/ Disconnect \/ Kill \/ Open
    \/ Main
    \/ UpdateLastRunTask

\* The main thread goes on while it can, if only in a loop; nothing makes the
\* process start or a run fail.
Spec == Init /\ [][Next]_vars /\ WF_vars(Main)

-----------------------------------------------------------------------------
(***************************************************************************)
(* Properties.                                                             *)
(***************************************************************************)
\* The row of j is loaded in a Task whose thread runs.
Served(j) == \E i \in WorkersOf(j) : workers[i].found /\ workers[i].started

\* While the subscription lasts, and once the notifications about j are served,
\* a row of the table has a Task that runs: none slips through between the list
\* and the notifications (pgworker.cpp:28-31, 267-282).
NoJobMissed ==
    \A j \in rows :
        /\ main.pc = "idle" /\ conn = "listening"
        /\ \A i \in DOMAIN notes : notes[i] # [kind |-> "ADD", job |-> j]
        => Served(j)

\* A job has two workers, and is executed twice as often, only when its row was
\* inserted between the subscription and the SELECT of init(): it is listed and
\* announced (pgworker.cpp:28-30).  It never has three.
DuplicatesFromWindow ==
    \A j \in Jobs :
        /\ j \notin window => \A a, b \in WorkersOf(j) : a = b
        /\ \A a, b, c \in WorkersOf(j) : a = b \/ b = c \/ a = c

\* Outside that window the signal UpdateLastRun of a Task whose thread runs is
\* connected exactly once, and that of any other not yet, so that setLastRun posts
\* one event whatever notifications arrive (pgworker.cpp:87, 103).
ConnectedOnce ==
    \A i \in DOMAIN workers :
        workers[i].job \notin window =>
            workers[i].links = IF workers[i].started THEN 1 ELSE 0

\* The event loop runs, but the subscription of init() is gone.
Deaf == main.pc \in {"idle", "reconnect"} /\ conn # "listening"

\* Once the subscription is lost, a row that has no Task that runs gets none until
\* the process is started again, whatever is done to it and however often the
\* connection is opened (pgworker.cpp:304-327): there is no list but the one of
\* init().
DeafMisses ==
    [][\A j \in Jobs :
          Deaf /\ ~Served(j) => (Deaf /\ ~Served(j))' \/ main'.pc = "dead"]_vars

\* A row inserted while the program listens gets a Task that runs, unless it is
\* deleted, the connection or the process ends first, or the main thread has come
\* to a row whose update() never returns (pgworker.cpp:267-282, task.cpp:184-189).
InsertedIsServed ==
    \A j \in Jobs :
        (j \in rows /\ conn = "listening")
            ~> \/ Served(j) \/ j \notin rows
               \/ conn # "listening" \/ main.pc = "stuck"

=============================================================================
