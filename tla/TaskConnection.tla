--------------------------- MODULE TaskConnection ---------------------------
(***************************************************************************)
(* The database connection of an execution: OpenConnection(),              *)
(* CloseConnection(), saveLogMessageDB() and the part of Task::run() that  *)
(* uses them (Objects/task.cpp:285-297, 355-375, 418-465).                 *)
(*                                                                         *)
(* Connections are kept by Qt in one dictionary of the process, under the  *)
(* name of the job.  The thread of a job reads that name twice: when it    *)
(* registers a new connection and when it looks the connection up again to *)
(* execute the action.  In between update() may change the name, and the   *)
(* thread of another job may register under it.                            *)
(*                                                                         *)
(* External, Qt 5.11 and later: addDatabase() under a name in use replaces *)
(* the connection there, and cuts off whoever still holds it; database()   *)
(* gives a thread none but the connections it has made; open() closes and  *)
(* opens again.  Names are unique in the table, but rows without a name    *)
(* all have the empty one, and what update() has copied lags behind.       *)
(***************************************************************************)
EXTENDS Sequences, Naturals, FiniteSets

CONSTANTS
    Jobs,
    NoJob,
    Names,      \* names of jobs
    Unnamed,    \* the name of a row whose name is null
    NoName,
    MaxRenames  \* changes of a name

AllNames == Names \cup {Unnamed}

ASSUME NameAssumption ==
    /\ NoJob \notin Jobs
    /\ NoName \notin AllNames
    /\ MaxRenames \in Nat

VARIABLES
    row,       \* the table: the name of each job
    renames,   \* how often a name was changed
    notes,     \* the jobs whose update is announced, oldest first
    name,      \* ConnStr.name of each Task
    dict,      \* the job whose connection is registered under a name
    conn,      \* the connection each job has made under a name
    pc,        \* how far each thread has come in run()
    arg,       \* the name its latest ThreadDB was registered under,
    db,        \* and the one its connection db was looked up under
    disturbed, \* history: this execution shared its name or lost it
    failed,    \* history: the latest execution ended without a close
    renamed    \* history: the Task has had another name

table == <<row, renames, notes>>
thread == <<pc, arg, db>>
vars == <<row, renames, notes, name, dict, conn, pc, arg, db, disturbed, failed,
          renamed>>

Holding == {"open", "lookup", "reopen", "retry", "action", "log", "close"}

TypeOK ==
    /\ row \in [Jobs -> AllNames]
    /\ renames \in Nat
    /\ notes \in Seq(Jobs)
    /\ name \in [Jobs -> AllNames]
    /\ dict \in [AllNames -> Jobs \cup {NoJob}]
    /\ conn \in [Jobs -> [AllNames -> {"none", "closed", "open", "cut off"}]]
    /\ pc \in [Jobs -> Holding \cup {"polling", "register"}]
    /\ arg \in [Jobs -> AllNames]
    /\ db \in [Jobs -> AllNames \cup {NoName}]
    /\ disturbed \in [Jobs -> BOOLEAN]
    /\ failed \in [Jobs -> BOOLEAN]
    /\ renamed \in [Jobs -> BOOLEAN]
    /\ \A j \in Jobs, n \in AllNames :
           conn[j][n] \in {"closed", "open"} <=> dict[n] = j

\* The table has names no two rows share.
UniqueNames(names) ==
    \A i, j \in Jobs : names[i] = names[j] => i = j \/ names[i] = Unnamed

Init ==
    /\ row \in [Jobs -> AllNames] /\ UniqueNames(row)
    /\ renames = 0 /\ notes = <<>>
    /\ name = row
    /\ dict = [n \in AllNames |-> NoJob]
    /\ conn = [j \in Jobs |-> [n \in AllNames |-> "none"]]
    /\ pc = [j \in Jobs |-> "polling"]
    /\ arg = row
    /\ db = [j \in Jobs |-> NoName]
    /\ disturbed = [j \in Jobs |-> FALSE]
    /\ failed = [j \in Jobs |-> FALSE]
    /\ renamed = [j \in Jobs |-> FALSE]

-----------------------------------------------------------------------------
(* The table, and update() on the main thread. *)

Rename(j, n) ==
    /\ renames < MaxRenames
    /\ n # row[j]
    /\ UniqueNames([row EXCEPT ![j] = n])
    /\ row' = [row EXCEPT ![j] = n]
    /\ renames' = renames + 1
    /\ notes' = Append(notes, j)
    /\ UNCHANGED <<name, dict, conn, thread, disturbed, failed, renamed>>

Busy(j) == pc[j] # "polling"

\* i has the name n, or has read it and is about to register under it.
Claims(i, n) == name[i] = n \/ (pc[i] = "register" /\ arg[i] = n)

\* NotifyHandler: update() of the job announced, with the row as it is now.
Refresh ==
    /\ notes # <<>>
    /\ LET j == Head(notes)
           n == row[j]
       IN  /\ name' = [name EXCEPT ![j] = n]
           /\ renamed' = [renamed EXCEPT ![j] = @ \/ n # name[j]]
           /\ disturbed' = [i \in Jobs |->
                  \/ disturbed[i]
                  \/ Busy(i) /\ n # name[j] /\ (i = j \/ arg[i] = n)]
    /\ notes' = Tail(notes)
    /\ UNCHANGED <<row, renames, dict, conn, thread, failed>>

-----------------------------------------------------------------------------
(* Task::run() of a job that is due. *)

\* The locals of an execution go out of scope.
Released(c) == [n \in AllNames |-> IF c[n] = "cut off" THEN "none" ELSE c[n]]

Usable(j, n) == n # NoName /\ conn[j][n] # "cut off"

\* OpenConnection copies the name, ...
ReadName(j) ==
    /\ pc[j] = "polling"
    /\ pc' = [pc EXCEPT ![j] = "register"]
    /\ arg' = [arg EXCEPT ![j] = name[j]]
    /\ disturbed' = [disturbed EXCEPT ![j] =
                         \E i \in Jobs \ {j} : Claims(i, name[j])]
    /\ failed' = [failed EXCEPT ![j] = FALSE]
    /\ UNCHANGED <<table, name, dict, conn, db, renamed>>

Holds(i, n) == pc[i] \in Holding /\ (arg[i] = n \/ db[i] = n)

\* j's new connection under n replaces the one of whichever job is there.
Replaces(j, n) ==
    /\ dict' = [dict EXCEPT ![n] = j]
    /\ conn' = [i \in Jobs |-> [conn[i] EXCEPT ![n] =
                    IF i = j THEN "closed"
                    ELSE IF dict[n] # i THEN @
                    ELSE IF Holds(i, n) THEN "cut off" ELSE "none"]]

\* Mutant: one name for all connections.
Register_OneName(j) ==
    /\ pc[j] = "register"
    /\ Replaces(j, Unnamed)
    /\ arg' = [arg EXCEPT ![j] = Unnamed]
    /\ pc' = [pc EXCEPT ![j] = "open"]
    /\ UNCHANGED <<table, name, db, disturbed, failed, renamed>>

\* ... and addDatabase() registers a connection under it.
Register(j) ==
    /\ pc[j] = "register"
    /\ Replaces(j, arg[j])
    /\ pc' = [pc EXCEPT ![j] = "open"]
    /\ UNCHANGED <<table, name, arg, db, disturbed, failed, renamed>>

\* open() of the connection under n, which leaves it open or closed.
Opens(j, n) == Usable(j, n) /\ conn' = [conn EXCEPT ![j][n] = "open"]

CannotOpen(j, n) ==
    conn' = IF Usable(j, n) THEN [conn EXCEPT ![j][n] = "closed"] ELSE conn

\* ThreadDB.open(); if it fails the job polls again.
Open(j) ==
    /\ pc[j] = "open"
    /\ \/ /\ Opens(j, arg[j])
          /\ pc' = [pc EXCEPT ![j] = "lookup"]
       \/ /\ conn' = [conn EXCEPT ![j] = Released(@)]
          /\ pc' = [pc EXCEPT ![j] = "polling"]
    /\ UNCHANGED <<table, name, dict, arg, db, disturbed, failed, renamed>>

\* Mutant: the default connection, which the main thread has made.
Lookup_Default(j) ==
    /\ pc[j] = "lookup"
    /\ db' = [db EXCEPT ![j] = NoName]
    /\ pc' = [pc EXCEPT ![j] = "reopen"]
    /\ UNCHANGED <<table, name, dict, conn, arg, disturbed, failed, renamed>>

\* After setLastRun: database() under the name the Task has by now.
Lookup(j) ==
    /\ pc[j] = "lookup"
    /\ db' = [db EXCEPT ![j] = IF dict[name[j]] = j THEN name[j] ELSE NoName]
    /\ pc' = [pc EXCEPT ![j] = "reopen"]
    /\ UNCHANGED <<table, name, dict, conn, arg, disturbed, failed, renamed>>

\* db.open().
Reopen(j) ==
    /\ pc[j] = "reopen"
    /\ \/ Opens(j, db[j]) /\ pc' = [pc EXCEPT ![j] = "action"]
       \/ CannotOpen(j, db[j]) /\ pc' = [pc EXCEPT ![j] = "retry"]
    /\ UNCHANGED <<table, name, dict, arg, db, disturbed, failed, renamed>>

\* The loop of 429 comes to its end: neither action nor close follow.
Retry(j) ==
    /\ pc[j] = "retry"
    /\ Usable(j, db[j])
    /\ conn' = [conn EXCEPT ![j] = Released([@ EXCEPT ![db[j]] = "open"])]
    /\ pc' = [pc EXCEPT ![j] = "polling"]
    /\ failed' = [failed EXCEPT ![j] = TRUE]
    /\ UNCHANGED <<table, name, dict, arg, db, disturbed, renamed>>

\* The action fails, on the server or because the connection was cut off.
Act(j) ==
    /\ pc[j] = "action"
    /\ \/ Usable(j, db[j]) /\ pc' = [pc EXCEPT ![j] = "close"]
       \/ pc' = [pc EXCEPT ![j] = "log"]
    /\ UNCHANGED <<table, name, dict, conn, arg, db, disturbed, failed, renamed>>

\* Mutant: the connection is taken to be there still.
Log_Unchecked(j) ==
    /\ pc[j] = "log"
    /\ \E s \in {"open", "closed"} :
           conn' = [conn EXCEPT ![j] = Released([@ EXCEPT ![arg[j]] = s])]
    /\ pc' = [pc EXCEPT ![j] = "polling"]
    /\ failed' = [failed EXCEPT ![j] = TRUE]
    /\ UNCHANGED <<table, name, dict, arg, db, disturbed, renamed>>

\* saveLogMessageDB() opens ThreadDB once more and nothing closes it.
Log(j) ==
    /\ pc[j] = "log"
    /\ \E s \in {"open", "closed"} :
           conn' = [conn EXCEPT ![j] = Released(
                        IF Usable(j, arg[j]) THEN [@ EXCEPT ![arg[j]] = s] ELSE @)]
    /\ pc' = [pc EXCEPT ![j] = "polling"]
    /\ failed' = [failed EXCEPT ![j] = TRUE]
    /\ UNCHANGED <<table, name, dict, arg, db, disturbed, renamed>>

\* Mutant: the connection is not closed.
Close_Forgets(j) ==
    /\ pc[j] = "close"
    /\ conn' = [conn EXCEPT ![j] = Released(@)]
    /\ pc' = [pc EXCEPT ![j] = "polling"]
    /\ UNCHANGED <<table, name, dict, arg, db, disturbed, failed, renamed>>

\* CloseConnection(ThreadDB).
Close(j) ==
    /\ pc[j] = "close"
    /\ conn' = [conn EXCEPT ![j] = Released(
                    IF Usable(j, arg[j]) THEN [@ EXCEPT ![arg[j]] = "closed"] ELSE @)]
    /\ pc' = [pc EXCEPT ![j] = "polling"]
    /\ UNCHANGED <<table, name, dict, arg, db, disturbed, failed, renamed>>

Execute(j) ==
    \/ Register(j) \/ Open(j) \/ Lookup(j) \/ Reopen(j) \/ Retry(j)
    \/ Act(j) \/ Log(j) \/ Close(j)

-----------------------------------------------------------------------------
\* The process is killed, or dies of a statement on a connection cut off under
\* it, and is started again.
Kill ==
    /\ notes' = <<>>
    /\ name' = row
    /\ dict' = [n \in AllNames |-> NoJob]
    /\ conn' = [j \in Jobs |-> [n \in AllNames |-> "none"]]
    /\ pc' = [j \in Jobs |-> "polling"]
    /\ arg' = row
    /\ db' = [j \in Jobs |-> NoName]
    /\ disturbed' = [j \in Jobs |-> FALSE]
    /\ failed' = [j \in Jobs |-> FALSE]
    /\ renamed' = [j \in Jobs |-> FALSE]
    /\ UNCHANGED <<row, renames>>

Next ==
    \/ \E j \in Jobs : ReadName(j) \/ Execute(j)
    \/ \E j \in Jobs, n \in AllNames : Rename(j, n)
    \/ Refresh
    \/ Kill

\* The threads go on, actions return, and the server comes back.
Spec == Init /\ [][Next]_vars /\ \A j \in Jobs : WF_vars(Execute(j))

-----------------------------------------------------------------------------
(***************************************************************************)
(* Properties.                                                             *)
(***************************************************************************)
\* An execution whose job keeps its name and shares it with no other Task has
\* one connection from beginning to end: the one it looks up is the one it has
\* registered, nobody cuts it off, and it can always be opened again, whatever
\* jobs have been called before (task.cpp:366, 426-440, 461).
UndisturbedKeepsConnection ==
    \A j \in Jobs :
        /\ pc[j] \in Holding /\ ~disturbed[j] => Usable(j, arg[j])
        /\ pc[j] \in {"reopen", "retry", "action", "log", "close"} /\ ~disturbed[j]
               => db[j] = arg[j]

\* A job between two executions has no connection open, unless the latest one
\* failed or had to wait for the server, or its name was changed since the
\* program was started (task.cpp:420-463).
LeftOpenByFailure ==
    \A j \in Jobs, n \in AllNames :
        ~Busy(j) /\ conn[j][n] = "open" => failed[j] \/ renamed[j]

\* An execution comes to its end, although it retries without a limit to open a
\* connection that it has looked up by name (task.cpp:429-436), unless the name
\* was shared or changed while it ran.
ExecutionEnds == \A j \in Jobs : Busy(j) ~> ~Busy(j) \/ disturbed[j]
=============================================================================
