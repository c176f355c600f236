-------------------------- MODULE ServiceContract --------------------------
(***************************************************************************)
(* What the service control manager and the service see of each other,    *)
(* whatever threads, semaphores, mutex and condition lie between them: the *)
(* state that the manager shows, and what the service was told last.       *)
(*                                                                         *)
(* The state moves as the manager's documentation draws it.  A function of *)
(* the service is called when its pending state is shown, and the final    *)
(* state is shown when it has returned.  Once a report has overtaken a     *)
(* newer one (late) the state shown says nothing but that the service was  *)
(* started.  QtServiceWin implements this contract.                        *)
(***************************************************************************)
VARIABLES
    shown,   \* the state of the service that the manager shows
    told,    \* what the service was told last: "nothing", "running" by start()
             \* or resume(), "paused" by pause(), "stopped" by stop()
    late     \* a report overtook a newer one

vars == <<shown, told, late>>

Active == {"RUNNING", "PAUSED"}

Pending == {"PAUSE_PENDING", "CONTINUE_PENDING", "STOP_PENDING"}

Shown == Active \cup Pending \cup {"START_PENDING", "STOPPED"}

Alive == told \in {"running", "paused"}

Init == shown = "STOPPED" /\ told = "nothing" /\ late = FALSE

\* The manager starts the process of a stopped service.
Launch ==
    /\ shown = "STOPPED" /\ told = "nothing"
    /\ shown' = "START_PENDING"
    /\ UNCHANGED <<told, late>>

-----------------------------------------------------------------------------
(* A function of the service returns. *)

Start ==
    /\ told = "nothing" /\ shown = "START_PENDING"
    /\ told' = "running"
    /\ UNCHANGED <<shown, late>>

Pause ==
    /\ Alive /\ (late \/ shown = "PAUSE_PENDING")
    /\ told' = "paused"
    /\ UNCHANGED <<shown, late>>

Resume ==
    /\ Alive /\ (late \/ shown = "CONTINUE_PENDING")
    /\ told' = "running"
    /\ UNCHANGED <<shown, late>>

\* For a stop, or for the shutdown of the system, which has no pending state.
Stop ==
    /\ Alive /\ (late \/ shown \in Active \cup {"STOP_PENDING"})
    /\ told' = "stopped"
    /\ UNCHANGED <<shown, late>>

-----------------------------------------------------------------------------
(* A report reaches the manager. *)

Announce == shown \in Active /\ Alive /\ shown' \in Pending

\* A final state says what the service was told.
Conclude ==
    \/ shown \in {"START_PENDING", "CONTINUE_PENDING"} /\ told = "running"
       /\ shown' = "RUNNING"
    \/ shown = "PAUSE_PENDING" /\ told = "paused" /\ shown' = "PAUSED"
    \/ shown \in Active \cup {"STOP_PENDING"} /\ told = "stopped" /\ shown' = "STOPPED"

Report ==
    /\ ~late /\ (Announce \/ Conclude)
    /\ UNCHANGED <<told, late>>

\* An older report arrives after a newer one, and from then on any report may.
Overtake ==
    /\ shown # "STOPPED" /\ told # "nothing"
    /\ shown' \in Shown /\ late' = TRUE
    /\ UNCHANGED told

\* The process ends or dies.
End == shown' = "STOPPED" /\ told' = "nothing" /\ late' = FALSE

-----------------------------------------------------------------------------
Next ==
    \/ Launch \/ Start \/ Pause \/ Resume \/ Stop
    \/ Report \/ Overtake \/ End

Spec == Init /\ [][Next]_vars
=============================================================================
