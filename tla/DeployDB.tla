------------------------------ MODULE DeployDB ------------------------------
(***************************************************************************)
(* The start of a program up to the moment it serves jobs: init(),         *)
(* deploy() and deployDB() of Objects/pgworker.cpp.  deployDB() looks for  *)
(* the schema dbms_scheduler, the table jobs and the trigger function; it   *)
(* creates the first two, leaves the function to an administrator, and ends *)
(* the process when the table or the function is not what it should be.    *)
(* The trigger comes with the table and is never looked for.               *)
(*                                                                         *)
(* Several programs may start on one database, each statement is a         *)
(* transaction of its own, and an administrator changes the same objects.  *)
(* A SELECT on a lost connection has no rows, so its loop is not entered   *)
(* and the next check follows: the program goes on.                        *)
(***************************************************************************)
EXTENDS FiniteSets, Naturals

CONSTANTS
    Programs,   \* processes started on the database
    MayCreate   \* whether their role may create schemas and tables

ASSUME DeployAssumption == MayCreate \in BOOLEAN

\* The functions named trigger_event_jobs: "trigger" is the one without
\* arguments that returns a trigger, "other" an overload of its name.
Functions == {"trigger", "other"}

VARIABLES
    schema,    \* the schema dbms_scheduler exists
    table,     \* the table jobs: "none", "right" with 15 columns, or "wrong"
    fns,       \* the functions named trigger_event_jobs
    config,    \* the default connection file: "none", "written", "edited"
    pc,
    conn,      \* the connection of a program is up
    erred,     \* history: a statement of this start failed
    meddled    \* history: objects were dropped or altered since this start

database == <<schema, table, fns>>
vars == <<schema, table, fns, config, pc, conn, erred, meddled>>

Deploying == {"schema", "create schema", "table", "create table", "columns",
              "function"}

\* "down" is a program that was not started or was killed, "ended" one that left
\* by exit(0); "idle" and "serving" have left init(), without and with jobs.
TypeOK ==
    /\ schema \in BOOLEAN
    /\ table \in {"none", "right", "wrong"}
    /\ fns \in SUBSET Functions
    /\ config \in {"none", "written", "edited"}
    /\ pc \in [Programs -> {"down", "ended", "open", "idle", "serving"} \cup Deploying]
    /\ conn \in [Programs -> BOOLEAN]
    /\ erred \in [Programs -> BOOLEAN]
    /\ meddled \in [Programs -> BOOLEAN]
    /\ table # "none" \/ fns # {} => schema
    /\ \A p \in Programs : conn[p] => pc[p] \in {"serving"} \cup Deploying

Init ==
    /\ schema = FALSE /\ table = "none" /\ fns = {}
    /\ config \in {"none", "edited"}
    /\ pc = [p \in Programs |-> "down"]
    /\ conn = [p \in Programs |-> FALSE]
    /\ erred = [p \in Programs |-> FALSE]
    /\ meddled = [p \in Programs |-> FALSE]

-----------------------------------------------------------------------------
\* The process begins: deploy() writes a connection file if there is none.
Start(p) ==
    /\ pc[p] \in {"down", "ended"}
    /\ config' = IF config = "none" THEN "written" ELSE config
    /\ pc' = [pc EXCEPT ![p] = "open"]
    /\ erred' = [erred EXCEPT ![p] = FALSE]
    /\ meddled' = [meddled EXCEPT ![p] = FALSE]
    /\ UNCHANGED <<database, conn>>

\* db.open(), tried once: a program that fails here runs on with no jobs.
Open(p) ==
    /\ pc[p] = "open"
    /\ \E up \in BOOLEAN :
           /\ conn' = [conn EXCEPT ![p] = up]
           /\ pc' = [pc EXCEPT ![p] = IF up THEN "schema" ELSE "idle"]
    /\ UNCHANGED <<database, config, erred, meddled>>

\* A statement of p fails with an error that is logged; the next one follows.
Errs(p, next) ==
    /\ erred' = [erred EXCEPT ![p] = TRUE]
    /\ pc' = [pc EXCEPT ![p] = next]
    /\ UNCHANGED <<database, conn>>

Goes(p, next) ==
    /\ pc' = [pc EXCEPT ![p] = next]
    /\ UNCHANGED <<database, conn, erred>>

\* exit(0), which closes the connection.
Ends(p) ==
    /\ pc' = [pc EXCEPT ![p] = "ended"]
    /\ conn' = [conn EXCEPT ![p] = FALSE]
    /\ UNCHANGED <<database, erred>>

CheckSchema(p) ==
    /\ pc[p] = "schema"
    /\ \/ conn[p] /\ Goes(p, IF schema THEN "table" ELSE "create schema")
       \/ ~conn[p] /\ Errs(p, "table")

CreateSchema(p) ==
    /\ pc[p] = "create schema"
    /\ \/ /\ conn[p] /\ MayCreate /\ ~schema
          /\ schema' = TRUE
          /\ pc' = [pc EXCEPT ![p] = "table"]
          /\ UNCHANGED <<table, fns, conn, erred>>
       \/ /\ ~(conn[p] /\ MayCreate /\ ~schema)
          /\ Errs(p, "table")

CheckTable(p) ==
    /\ pc[p] = "table"
    /\ \/ conn[p] /\ Goes(p, IF table = "none" THEN "create table" ELSE "columns")
       \/ ~conn[p] /\ Errs(p, "function")

CanCreateTable(p) == conn[p] /\ MayCreate /\ schema /\ table = "none"

\* Mutant: a program that cannot create the table, as when another was first, ends.
CreateTable_Exits(p) ==
    /\ pc[p] = "create table"
    /\ \/ /\ CanCreateTable(p) /\ "trigger" \in fns
          /\ table' = "right"
          /\ pc' = [pc EXCEPT ![p] = "function"]
          /\ UNCHANGED <<schema, fns, conn, erred>>
       \/ /\ ~(CanCreateTable(p) /\ "trigger" \in fns)
          /\ Ends(p)

\* CREATE TABLE and CREATE TRIGGER sent as one query, which is one transaction.
CreateTable(p) ==
    /\ pc[p] = "create table"
    /\ \/ /\ CanCreateTable(p) /\ "trigger" \in fns
          /\ table' = "right"
          /\ pc' = [pc EXCEPT ![p] = "function"]
          /\ UNCHANGED <<schema, fns, conn, erred>>
       \/ /\ ~(CanCreateTable(p) /\ "trigger" \in fns)
          /\ Errs(p, "function")

\* Mutant: a table with other columns is reported and used.
CheckColumns_Reports(p) ==
    /\ pc[p] = "columns"
    /\ Goes(p, "function")

\* The lastError() of this query is not looked at, but is an error all the same.
CheckColumns(p) ==
    /\ pc[p] = "columns"
    /\ \/ conn[p] /\ table = "right" /\ Goes(p, "function")
       \/ conn[p] /\ table # "right" /\ Ends(p)
       \/ ~conn[p] /\ Errs(p, "function")

\* Mutant: without the function init() returns, and the program stays.
CheckFunction_Returns(p) ==
    /\ pc[p] = "function"
    /\ \/ conn[p] /\ Goes(p, IF Cardinality(fns) = 1 THEN "serving" ELSE "idle")
       \/ ~conn[p] /\ Errs(p, "serving")

\* Functions are counted by their name: an overload passes for the trigger
\* function, and beside it ends the program.
CheckFunction(p) ==
    /\ pc[p] = "function"
    /\ \/ conn[p] /\ Cardinality(fns) = 1 /\ Goes(p, "serving")
       \/ conn[p] /\ Cardinality(fns) # 1 /\ Ends(p)
       \/ ~conn[p] /\ Errs(p, "serving")

\* One statement of deployDB().
Deploy(p) ==
    /\ \/ CheckSchema(p) \/ CreateSchema(p)
       \/ CheckTable(p) \/ CreateTable(p)
       \/ CheckColumns(p) \/ CheckFunction(p)
    /\ UNCHANGED <<config, meddled>>

-----------------------------------------------------------------------------
Disconnect(p) ==
    /\ conn[p]
    /\ conn' = [conn EXCEPT ![p] = FALSE]
    /\ UNCHANGED <<database, config, pc, erred, meddled>>

Kill(p) ==
    /\ pc[p] \notin {"down", "ended"}
    /\ pc' = [pc EXCEPT ![p] = "down"]
    /\ conn' = [conn EXCEPT ![p] = FALSE]
    /\ UNCHANGED <<database, config, erred, meddled>>

\* What an administrator adds does not undo what a program has checked.
Adds ==
    /\ \/ ~schema /\ schema' = TRUE /\ UNCHANGED <<table, fns>>
       \/ /\ schema
          /\ \E f \in Functions : fns' = fns \cup {f}
          /\ UNCHANGED <<schema, table>>
       \/ /\ schema /\ table = "none"
          /\ table' \in {"right", "wrong"}
          /\ UNCHANGED <<schema, fns>>
    /\ UNCHANGED <<config, pc, conn, erred, meddled>>

\* The table altered or dropped, a function dropped, with the trigger if need be,
\* or the schema dropped with all that is in it.
Alters ==
    /\ \/ /\ table # "none"
          /\ table' \in {"none", "right", "wrong"}
          /\ UNCHANGED <<schema, fns>>
       \/ /\ \E f \in fns : fns' = fns \ {f}
          /\ UNCHANGED <<schema, table>>
       \/ schema' = FALSE /\ table' = "none" /\ fns' = {}
    /\ meddled' = [p \in Programs |-> TRUE]
    /\ UNCHANGED <<config, pc, conn, erred>>

EditConfig ==
    /\ config = "written"
    /\ config' = "edited"
    /\ UNCHANGED <<database, pc, conn, erred, meddled>>

Next ==
    \/ \E p \in Programs : Start(p) \/ Open(p) \/ Deploy(p)
    \/ \E p \in Programs : Disconnect(p) \/ Kill(p)
    \/ Adds \/ Alters \/ EditConfig

\* init() is a sequence of calls that return; nothing starts a program again.
Spec ==
    /\ Init /\ [][Next]_vars
    /\ \A p \in Programs : WF_vars(Open(p)) /\ WF_vars(Deploy(p))

-----------------------------------------------------------------------------
(***************************************************************************)
(* Properties.                                                             *)
(***************************************************************************)
\* A program that serves jobs, none of whose statements failed, has a schema, a
\* table with the right columns and a function of the trigger function's name,
\* although it checked them one after the other, others created them at the same
\* time and a program that finds no function can never make one
\* (pgworker.cpp:132-237).
ServingIsVerified ==
    \A p \in Programs :
        pc[p] = "serving" /\ ~erred[p] /\ ~meddled[p]
            => schema /\ table = "right" /\ fns # {}

\* The administrator has made the function, and the table is missing or right.
Ready == fns = {"trigger"} /\ table # "wrong"

\* A start made while the database is ready comes to serve, whichever of several
\* programs is the first to create the table, whatever its role may create and
\* whichever statement fails, unless its one attempt to connect fails, it is
\* killed, or objects are dropped, altered or overloaded meanwhile: no exit(0) of
\* deployDB() is in its way (pgworker.cpp:24-36, 132-237).
ReadyComesToServe ==
    \A p \in Programs :
        pc[p] = "open" /\ Ready
            ~> pc[p] \in {"serving", "idle", "down"} \/ ~Ready \/ meddled[p]

=============================================================================
