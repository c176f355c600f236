---------------------------- MODULE QtServiceWin ----------------------------
(***************************************************************************)
(* The service library under Windows: qtservice_win.cpp.  Three threads of *)
(* the service process meet here.  The main thread runs the event loop and *)
(* in it start(), stop(), pause(), resume() and processCommand() of the    *)
(* service; "svc" is the thread of serviceMain, which signals the start;   *)
(* "disp" is the dispatcher, which calls handler() for one control at a    *)
(* time.  handler() posts an event to the loop and waits on a condition    *)
(* without a predicate until the loop has handled it.                      *)
(*                                                                         *)
(* Every thread writes one status structure and reports it to the service  *)
(* control manager: handler() inside its mutex, then once more outside it, *)
(* and the main thread without it when the loop has ended.                 *)
(*                                                                         *)
(* The manager is external.  It starts a process only for a stopped        *)
(* service, refuses a control in the states STOPPED, START_PENDING and     *)
(* STOP_PENDING, one the flags do not accept or one that the shutdown of   *)
(* the system has overtaken, delivers one at a time, lets a caller wait    *)
(* for 30 seconds, and ignores a report after STOPPED.                     *)
(***************************************************************************)
EXTENDS Sequences, FiniteSets

CONSTANTS
    Callers,    \* programs with a QtServiceController
    NoOne,
    Controls,   \* the controls they send
    Flags       \* the service flags set by its constructor

Threads == {"svc", "disp"}

ASSUME ControlAssumption ==
    /\ NoOne \notin Callers \cup Threads
    /\ Controls \subseteq {"stop", "pause", "continue", "user", "interrogate",
                           "shutdown"}
    /\ Flags \subseteq {"CanBeSuspended", "CannotBeStopped", "NeedsStopOnShutdown"}

VARIABLES
    scm,       \* the state of the service the manager knows
    status,    \* dwCurrentState of the status structure
    main,      \* how far the main thread has come
    event,     \* the event it handles
    events,    \* the events posted to controllerHandler
    args,      \* startSemaphore: serviceMain has the arguments
    ready,     \* startSemaphore2: the loop may be signalled
    quitting,  \* quit() was called
    mutex,     \* the thread that holds it, NoOne if none
    at,        \* how far the threads svc and disp have come,
    code,      \* the code their handler() was called with,
    saved,     \* and what its last report read from the structure
    client,    \* the caller whose control disp handles
    cpc, ctl, result,  \* what each caller does, last sent and was told
    started,   \* history: start() has returned
    paused,    \* history: pause() has returned, and no resume() since
    called,    \* history: the service's function for ctl has returned
    over,      \* history: the process ctl was given to has left its loop
    late,      \* history: a report overtook a newer one
    down       \* the system is shutting down

process == <<status, main, event, events, args, ready, quitting, mutex, at, code,
             saved>>
caller == <<client, cpc, ctl, result>>
history == <<started, paused, called, over, late>>
vars == <<scm, status, main, event, events, args, ready, quitting, mutex, at,
          code, saved, client, cpc, ctl, result, started, paused, called, over,
          late, down>>

States == {"STOPPED", "START_PENDING", "RUNNING", "PAUSE_PENDING", "PAUSED",
           "CONTINUE_PENDING", "STOP_PENDING"}

Codes == {"startup", "stop", "pause", "continue", "user", "interrogate", "shutdown"}

\* Where a thread stands in handler().
Handling == {"entered", "pending", "posting", "posted", "waiting", "woken",
             "reporting", "unlocking", "unlocked", "delivering"}

TypeOK ==
    /\ scm \in States /\ status \in States
    /\ main \in {"none", "launched", "waitArgs", "loop", "handling", "waking",
                 "left", "stopped", "deleted"}
    /\ event \in Codes
    /\ events \in Seq(Codes)
    /\ args \in BOOLEAN /\ ready \in BOOLEAN /\ quitting \in BOOLEAN
    /\ mutex \in Threads \cup {NoOne}
    /\ at \in [Threads -> Handling \cup {"none", "called", "acquiring", "idle"}]
    /\ code \in [Threads -> Codes]
    /\ saved \in [Threads -> States]
    /\ client \in Callers \cup {NoOne}
    /\ cpc \in [Callers -> {"idle", "sent", "served", "polling"}]
    /\ ctl \in [Callers -> Codes]
    /\ result \in [Callers -> {"none", "true", "false"}]
    /\ started \in BOOLEAN /\ paused \in BOOLEAN /\ late \in BOOLEAN
    /\ called \in [Callers -> BOOLEAN]
    /\ over \in [Callers -> BOOLEAN]
    /\ down \in BOOLEAN
    /\ \A t \in Threads : mutex = t
           <=> at[t] \in {"pending", "posting", "posted", "reporting", "unlocking"}
    /\ at["disp"] = "none" => at["svc"] = "none"

Init ==
    /\ scm = "STOPPED" /\ status = "STOPPED"
    /\ main = "none" /\ event = "startup" /\ events = <<>>
    /\ args = FALSE /\ ready = FALSE /\ quitting = FALSE
    /\ mutex = NoOne
    /\ at = [t \in Threads |-> "none"]
    /\ code = [t \in Threads |-> "startup"]
    /\ saved = [t \in Threads |-> "STOPPED"]
    /\ client = NoOne
    /\ cpc = [c \in Callers |-> "idle"]
    /\ ctl = [c \in Callers |-> "startup"]
    /\ result = [c \in Callers |-> "none"]
    /\ started = FALSE /\ paused = FALSE /\ late = FALSE
    /\ called = [c \in Callers |-> FALSE]
    /\ over = [c \in Callers |-> FALSE]
    /\ down = FALSE

-----------------------------------------------------------------------------
\* SetServiceStatus.
Report(s) == scm' = IF scm = "STOPPED" THEN scm ELSE s

isRunning == scm # "STOPPED"

\* dwControlsAccepted as serviceFlags() computes it.
Accepts(m) ==
    /\ m \in {"pause", "continue"} => "CanBeSuspended" \in Flags
    /\ m = "stop" => "CannotBeStopped" \notin Flags
    /\ m = "shutdown" => "NeedsStopOnShutdown" \in Flags

InHandler(t) == at[t] \in Handling

\* controllerHandler exists from before the loop until sysd is deleted.
HandlerExists == main \in {"loop", "handling", "waking", "left", "stopped"}

\* What handler() reports before it posts, and after it has been woken.
Before(m) ==
    {s \in States : <<m, s>> \in
        {<<"startup", "START_PENDING">>, <<"stop", "STOP_PENDING">>,
         <<"pause", "PAUSE_PENDING">>, <<"continue", "CONTINUE_PENDING">>}}

After(m) ==
    {s \in States : <<m, s>> \in
        {<<"startup", "RUNNING">>, <<"continue", "RUNNING">>, <<"pause", "PAUSED">>}}

-----------------------------------------------------------------------------
(* Callers. *)

\* start() of the controller, and of a program run from a console.
CtlStart(c) ==
    /\ cpc[c] = "idle" /\ ~down
    /\ ctl' = [ctl EXCEPT ![c] = "startup"]
    /\ \/ /\ ~isRunning /\ main = "none"
          /\ scm' = "START_PENDING"
          /\ main' = "launched"
          /\ result' = [result EXCEPT ![c] = "true"]
       \/ /\ isRunning
          /\ result' = [result EXCEPT ![c] = "false"]
          /\ UNCHANGED <<scm, main>>
    /\ UNCHANGED <<status, event, events, args, ready, quitting, mutex, at, code,
                   saved, client, cpc, history, down>>

\* stop(), pause(), resume() and sendCommand() of the controller, which calls
\* ControlService; the manager's own interrogation and shutdown.
Send(c, m) ==
    /\ cpc[c] = "idle" /\ ~down
    /\ cpc' = [cpc EXCEPT ![c] = "sent"]
    /\ ctl' = [ctl EXCEPT ![c] = m]
    /\ result' = [result EXCEPT ![c] = "none"]
    /\ called' = [called EXCEPT ![c] = FALSE]
    /\ over' = [over EXCEPT ![c] = FALSE]
    /\ down' = (m = "shutdown")
    /\ UNCHANGED <<scm, process, client, started, paused, late>>

Controllable(m) ==
    /\ scm \notin {"STOPPED", "START_PENDING", "STOP_PENDING"}
    /\ Accepts(m)
    /\ down => m = "shutdown"

\* The dispatcher calls handler().
Deliver(c) ==
    /\ cpc[c] = "sent" /\ at["disp"] = "idle" /\ Controllable(ctl[c])
    /\ cpc' = [cpc EXCEPT ![c] = "served"]
    /\ client' = c
    /\ at' = [at EXCEPT !["disp"] = "entered"]
    /\ code' = [code EXCEPT !["disp"] = ctl[c]]
    /\ UNCHANGED <<scm, status, main, event, events, args, ready, quitting, mutex,
                   saved, ctl, result, history, down>>

Fails(c) ==
    /\ cpc' = [cpc EXCEPT ![c] = "idle"]
    /\ result' = [result EXCEPT ![c] = "false"]

Refuse(c) ==
    /\ cpc[c] = "sent" /\ ~Controllable(ctl[c])
    /\ Fails(c)
    /\ UNCHANGED <<scm, process, client, ctl, history, down>>

\* ControlService gives up; the handler goes on.
TimeOut(c) ==
    /\ cpc[c] \in {"sent", "served"}
    /\ Fails(c)
    /\ client' = IF client = c THEN NoOne ELSE client
    /\ UNCHANGED <<scm, process, ctl, history, down>>

\* Mutant: stop() does not wait for the state STOPPED.
Poll_AtOnce(c) ==
    /\ cpc[c] = "polling"
    /\ cpc' = [cpc EXCEPT ![c] = "idle"]
    /\ result' = [result EXCEPT ![c] = "true"]
    /\ UNCHANGED <<scm, process, client, ctl, history, down>>

\* stop() asks for the state, ten times at most.
Poll(c) ==
    /\ cpc[c] = "polling"
    /\ cpc' = [cpc EXCEPT ![c] = "idle"]
    /\ result' = [result EXCEPT ![c] = IF isRunning THEN "false" ELSE "true"]
    /\ UNCHANGED <<scm, process, client, ctl, history, down>>

-----------------------------------------------------------------------------
(* serviceMain and handler(), in the threads svc and disp. *)

\* StartServiceCtrlDispatcher connects; the manager calls serviceMain.
Connect ==
    /\ main = "waitArgs" /\ at["disp"] = "none"
    /\ at' = [svc |-> "called", disp |-> "idle"]
    /\ UNCHANGED <<scm, status, main, event, events, args, ready, quitting, mutex,
                   code, saved, caller, history, down>>

ServiceMain ==
    /\ at["svc"] = "called"
    /\ args' = TRUE
    /\ at' = [at EXCEPT !["svc"] = "acquiring"]
    /\ UNCHANGED <<scm, status, main, event, events, ready, quitting, mutex, code,
                   saved, caller, history, down>>

\* Mutant: serviceMain does not wait for the loop to be ready.
Acquire_Early ==
    /\ at["svc"] = "acquiring"
    /\ at' = [at EXCEPT !["svc"] = "entered"]
    /\ UNCHANGED <<scm, status, main, event, events, args, ready, quitting, mutex,
                   code, saved, caller, history, down>>

Acquire ==
    /\ at["svc"] = "acquiring" /\ ready
    /\ ready' = FALSE
    /\ at' = [at EXCEPT !["svc"] = "entered"]
    /\ UNCHANGED <<scm, status, main, event, events, args, quitting, mutex, code,
                   saved, caller, history, down>>

\* setStatus assigns first; a code without a status of its own goes on.
Assign(t, states, reporting, otherwise) ==
    \/ /\ status' \in states
       /\ at' = [at EXCEPT ![t] = reporting]
    \/ /\ states = {}
       /\ at' = [at EXCEPT ![t] = otherwise]
       /\ UNCHANGED status

Lock(t) ==
    /\ at[t] = "entered" /\ mutex = NoOne
    /\ mutex' = t
    /\ Assign(t, Before(code[t]), "pending",
              IF code[t] = "interrogate" THEN "unlocking" ELSE "posting")
    /\ UNCHANGED <<scm, main, event, events, args, ready, quitting, code, saved,
                   caller, history, down>>

\* The rest of setStatus, before the event and after it.
SetStatus(t) ==
    /\ at[t] \in {"pending", "reporting"}
    /\ Report(status)
    /\ at' = [at EXCEPT ![t] = IF @ = "pending" THEN "posting" ELSE "unlocking"]
    /\ UNCHANGED <<status, main, event, events, args, ready, quitting, mutex, code,
                   saved, caller, history, down>>

Posted(t) == Append(events, IF code[t] = "shutdown" THEN "stop" ELSE code[t])

\* Mutant: the mutex is released before the event is posted.
Post_Unlocked(t) ==
    /\ at[t] = "posting"
    /\ events' = IF HandlerExists THEN Posted(t) ELSE events
    /\ mutex' = NoOne
    /\ at' = [at EXCEPT ![t] = "posted"]
    /\ UNCHANGED <<scm, status, main, event, args, ready, quitting, code, saved,
                   caller, history, down>>

\* An event posted while there is no controllerHandler is lost.
Post(t) ==
    /\ at[t] = "posting"
    /\ events' = IF HandlerExists THEN Posted(t) ELSE events
    /\ at' = [at EXCEPT ![t] = "posted"]
    /\ UNCHANGED <<scm, status, main, event, args, ready, quitting, mutex, code,
                   saved, caller, history, down>>

\* Mutant: handler() does not wait for the loop.
Wait_NotAtAll(t) ==
    /\ at[t] = "posted"
    /\ mutex' = NoOne
    /\ at' = [at EXCEPT ![t] = "woken"]
    /\ UNCHANGED <<scm, status, main, event, events, args, ready, quitting, code,
                   saved, caller, history, down>>

\* Mutant: handler() keeps the mutex while it waits.
Wait_Holds(t) ==
    /\ at[t] = "posted"
    /\ at' = [at EXCEPT ![t] = "waiting"]
    /\ UNCHANGED <<scm, status, main, event, events, args, ready, quitting, mutex,
                   code, saved, caller, history, down>>

\* The condition releases the mutex.
Wait(t) ==
    /\ at[t] = "posted"
    /\ mutex' = NoOne
    /\ at' = [at EXCEPT ![t] = "waiting"]
    /\ UNCHANGED <<scm, status, main, event, events, args, ready, quitting, code,
                   saved, caller, history, down>>

\* condition.wait() returns with the mutex.
Woken(t) ==
    /\ at[t] = "woken" /\ mutex = NoOne
    /\ mutex' = t
    /\ Assign(t, After(code[t]), "reporting", "unlocking")
    /\ UNCHANGED <<scm, main, event, events, args, ready, quitting, code, saved,
                   caller, history, down>>

Unlock(t) ==
    /\ at[t] = "unlocking"
    /\ mutex' = NoOne
    /\ at' = [at EXCEPT ![t] = "unlocked"]
    /\ UNCHANGED <<scm, status, main, event, events, args, ready, quitting, code,
                   saved, caller, history, down>>

\* handler() returns: the end of serviceMain, or the answer to ControlService.
HandlerReturns(t) ==
    /\ at' = [at EXCEPT ![t] = "idle"]
    /\ IF t = "disp" /\ client # NoOne
       THEN /\ cpc' = [cpc EXCEPT ![client] =
                           IF ctl[client] = "stop" THEN "polling" ELSE "idle"]
            /\ result' = [result EXCEPT ![client] =
                              IF ctl[client] = "stop" THEN "none" ELSE "true"]
            /\ client' = NoOne
       ELSE UNCHANGED <<cpc, result, client>>

\* "Report current status", outside the mutex: the structure is read, ...
ReadStatus(t) ==
    /\ at[t] = "unlocked"
    /\ IF status = "STOPPED"
       THEN HandlerReturns(t) /\ UNCHANGED saved
       ELSE /\ saved' = [saved EXCEPT ![t] = status]
            /\ at' = [at EXCEPT ![t] = "delivering"]
            /\ UNCHANGED <<cpc, result, client>>
    /\ UNCHANGED <<scm, status, main, event, events, args, ready, quitting, mutex,
                   code, ctl, history, down>>

\* ... and what was read reaches the manager, whatever was reported since.
DeliverStatus(t) ==
    /\ at[t] = "delivering"
    /\ Report(saved[t])
    /\ late' = (late \/ (scm # "STOPPED" /\ saved[t] \notin {status, scm}))
    /\ HandlerReturns(t)
    /\ UNCHANGED <<status, main, event, events, args, ready, quitting, mutex, code,
                   saved, ctl, started, paused, called, over, down>>

-----------------------------------------------------------------------------
(* The main thread: QtServiceBasePrivate::start(). *)

\* sysInit, and the thread of the dispatcher.
SysInit ==
    /\ main = "launched"
    /\ main' = "waitArgs"
    /\ UNCHANGED <<scm, status, event, events, args, ready, quitting, mutex, at,
                   code, saved, caller, history, down>>

\* The application and controllerHandler; serviceMain may continue.
CreateApplication ==
    /\ main = "waitArgs" /\ args
    /\ args' = FALSE
    /\ ready' = TRUE
    /\ main' = "loop"
    /\ UNCHANGED <<scm, status, event, events, quitting, mutex, at, code, saved,
                   caller, history, down>>

\* Mutant: the waiting thread is woken before the service's function is called.
TakeEvent_Wakes ==
    /\ main = "loop" /\ events # <<>> /\ mutex = NoOne
    /\ event' = Head(events)
    /\ events' = Tail(events)
    /\ main' = "handling"
    /\ at' = [t \in Threads |-> IF at[t] = "waiting" THEN "woken" ELSE at[t]]
    /\ UNCHANGED <<scm, status, args, ready, quitting, mutex, code, saved, caller,
                   history, down>>

\* An event of the loop; those posted before quit() are still handled.
TakeEvent ==
    /\ main = "loop" /\ events # <<>>
    /\ event' = Head(events)
    /\ events' = Tail(events)
    /\ main' = "handling"
    /\ UNCHANGED <<scm, status, args, ready, quitting, mutex, at, code, saved,
                   caller, history, down>>

\* start(), pause(), resume() or stop() of the service runs and returns; only
\* start() does anything.
ServiceRuns ==
    /\ started' = (started \/ event = "startup")
    /\ paused' = (event = "pause" \/ (paused /\ event # "continue"))
    /\ called' = IF event # "startup" /\ client # NoOne
                 THEN [called EXCEPT ![client] = TRUE] ELSE called

\* Mutant: the loop is not told to quit.
CallService_RunsOn ==
    /\ main = "handling"
    /\ main' = "waking"
    /\ ServiceRuns
    /\ UNCHANGED <<scm, status, event, events, args, ready, quitting, mutex, at,
                   code, saved, caller, over, late, down>>

\* handleCustomEvent: the service's function, and quit() after stop().
CallService ==
    /\ main = "handling"
    /\ main' = "waking"
    /\ quitting' = (quitting \/ event = "stop")
    /\ ServiceRuns
    /\ UNCHANGED <<scm, status, event, events, args, ready, mutex, at, code, saved,
                   caller, over, late, down>>

\* handleCustomEvent: wakeAll under the mutex.
WakeAll ==
    /\ main = "waking" /\ mutex = NoOne
    /\ main' = "loop"
    /\ at' = [t \in Threads |-> IF at[t] = "waiting" THEN "woken" ELSE at[t]]
    /\ UNCHANGED <<scm, status, event, events, args, ready, quitting, mutex, code,
                   saved, caller, history, down>>

Given == {c \in Callers : cpc[c] \in {"served", "polling"}}

\* executeApplication() returns; setStatus(SERVICE_STOPPED) assigns ...
LeaveLoop ==
    /\ main = "loop" /\ quitting
    /\ main' = "left"
    /\ status' = "STOPPED"
    /\ over' = [c \in Callers |-> over[c] \/ c \in Given]
    /\ UNCHANGED <<scm, event, events, args, ready, quitting, mutex, at, code,
                   saved, caller, started, paused, called, late, down>>

\* ... and reports what the structure holds by then.
ReportStopped ==
    /\ main = "left"
    /\ main' = "stopped"
    /\ Report(status)
    /\ UNCHANGED <<status, event, events, args, ready, quitting, mutex, at, code,
                   saved, caller, history, down>>

\* wait(1000) for the dispatcher, whose result is not looked at, so that nothing is
\* certain of it; no one waits for svc.  Then sysd is deleted with the mutex, the
\* condition and the structure.  A thread that still uses them finds what was there
\* or dies, and the process, which is about to end, with it.
Delete ==
    /\ main = "stopped"
    /\ main' = "deleted"
    /\ UNCHANGED <<scm, status, event, events, args, ready, quitting, mutex, at,
                   code, saved, caller, history, down>>

\* The process is gone, with all its threads; the manager sees it.
EndProcess ==
    /\ scm' = "STOPPED" /\ status' = "STOPPED"
    /\ main' = "none" /\ event' = "startup" /\ events' = <<>>
    /\ args' = FALSE /\ ready' = FALSE /\ quitting' = FALSE
    /\ mutex' = NoOne
    /\ at' = [t \in Threads |-> "none"]
    /\ code' = [t \in Threads |-> "startup"]
    /\ saved' = [t \in Threads |-> "STOPPED"]
    /\ client' = NoOne
    /\ cpc' = [c \in Callers |-> IF cpc[c] = "served" THEN "idle" ELSE cpc[c]]
    /\ result' = [c \in Callers |-> IF cpc[c] = "served" THEN "false" ELSE result[c]]
    /\ over' = [c \in Callers |-> over[c] \/ c \in Given]
    /\ started' = FALSE /\ paused' = FALSE /\ late' = FALSE
    /\ UNCHANGED <<ctl, called, down>>

Exit == main = "deleted" /\ EndProcess

\* startSemaphore is not released within 20 seconds.
GiveUp == main = "waitArgs" /\ ~args /\ EndProcess

\* The process dies; deployDB() makes start() do so with exit(0).
Crash == main \notin {"none", "deleted"} /\ EndProcess

-----------------------------------------------------------------------------
ThreadStep(t) ==
    \/ Lock(t) \/ SetStatus(t) \/ Post(t) \/ Wait(t) \/ Woken(t)
    \/ Unlock(t) \/ ReadStatus(t) \/ DeliverStatus(t)

StartStep == Connect \/ ServiceMain \/ Acquire

MainStep ==
    \/ SysInit \/ CreateApplication \/ TakeEvent \/ CallService \/ WakeAll
    \/ LeaveLoop \/ ReportStopped \/ Delete \/ Exit

ManagerStep(c) == Deliver(c) \/ Refuse(c) \/ Poll(c)

Next ==
    \/ \E c \in Callers :
           \/ CtlStart(c) \/ ManagerStep(c) \/ TimeOut(c)
           \/ \E m \in Controls : Send(c, m)
    \/ \E t \in Threads : ThreadStep(t)
    \/ StartStep \/ MainStep
    \/ GiveUp \/ Crash

\* The threads and the manager go on; the service's functions return; a loop that
\* was told to quit does so, however often it still finds an event.
Spec ==
    /\ Init /\ [][Next]_vars
    /\ \A c \in Callers : WF_vars(ManagerStep(c))
    /\ \A t \in Threads : WF_vars(ThreadStep(t))
    /\ WF_vars(StartStep) /\ WF_vars(MainStep) /\ SF_vars(LeaveLoop)

-----------------------------------------------------------------------------
(***************************************************************************)
(* Properties.                                                             *)
(***************************************************************************)
\* The manager is told RUNNING, and so lets controls through, only after start()
\* has returned in the main thread: neither the two semaphores nor the condition
\* without a predicate lets serviceMain report too early
\* (qtservice_win.cpp:516-519, 575-580).
RunningMeansStarted == scm \notin {"STOPPED", "START_PENDING"} => started

\* As long as no report overtakes a newer one, what the manager shows agrees with
\* what the service was told last: PAUSED after pause(), RUNNING after resume()
\* or start() (qtservice_win.cpp:586-598, 621-622).
ReportsAgree ==
    ~late => /\ scm = "PAUSED" => paused
             /\ scm = "RUNNING" => ~paused

\* A control that ControlService reports as done was handled by the service's
\* function in the main thread, and stop() returns TRUE only when the process it
\* reached has left its event loop (qtservice_win.cpp:281-381).
AnswersAreHonest ==
    \A c \in Callers :
        cpc[c] = "idle" /\ result[c] = "true" =>
            /\ ctl[c] \in {"pause", "continue", "user"} => called[c]
            /\ ctl[c] = "stop" => over[c]

\* Every call of the controller comes back, even if ControlService waited for
\* ever: no wake-up is lost between the post and the wait
\* (qtservice_win.cpp:537-564, 566-618).
CallsReturn == \A c \in Callers : cpc[c] # "idle" ~> cpc[c] = "idle"

\* A stop or a shutdown that reached handler() ends the process
\* (qtservice_win.cpp:545-548, 804-815).
StopTakesEffect ==
    InHandler("disp") /\ code["disp"] \in {"stop", "shutdown"} ~> main = "none"

\* A process that is launched comes to be RUNNING, or ends: the start is signalled
\* to the loop, and never before it is there (qtservice_win.cpp:504-524, 762-802).
StartupCompletes == main = "launched" ~> scm = "RUNNING" \/ main = "none"

\* A thread that waits on the condition, or is about to, is the one whose event is
\* posted or being handled, so the next wakeAll() is meant for it
\* (qtservice_win.cpp:566-580, 608-618); but a control that a report overtaking a
\* newer one let through may come when the loop has ended.
NoLostWakeUp ==
    \A t \in Threads : at[t] \in {"posted", "waiting"} =>
        LET e == IF code[t] = "shutdown" THEN "stop" ELSE code[t]
        IN  \/ late
            \/ main = "loop" /\ events = <<e>>
            \/ main \in {"handling", "waking"} /\ event = e

-----------------------------------------------------------------------------
(***************************************************************************)
(* Refinement: hide the threads, keep the manager and the service.         *)
(***************************************************************************)
\* What the functions of the service have told it, until quit() has been called.
Told ==
    IF ~started THEN "nothing"
    ELSE IF quitting THEN "stopped" ELSE IF paused THEN "paused" ELSE "running"

Contract == INSTANCE ServiceContract WITH shown <- scm, told <- Told

\* What the manager shows follows what the service is told, step by step and in
\* the manager's order, whichever of the three threads reports it; a function is
\* called after its pending state was shown, and none before start() nor after
\* stop() (qtservice_win.cpp:437-460, 504-524, 537-624, 804-806).
ImplementsContract == Contract!Spec

-----------------------------------------------------------------------------
\* qtservice_win.cpp:808 of the wait for the dispatcher: "let the handler thread
\* finish".  What is deleted then is not in use in its handler().
HandlerFinished == main = "deleted" => ~InHandler("disp")
=============================================================================
