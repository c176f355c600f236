---------------------------- MODULE QtServiceUnix ----------------------------
(***************************************************************************)
(* The service library under Unix: qtservice_unix.cpp and its sockets.  A  *)
(* service is a detached process that listens on one well-known socket     *)
(* file; a caller (the program with an argument, or another program with a *)
(* QtServiceController) connects to whatever process the file names, sends *)
(* one command and waits, without a timeout, for "true" or "false".        *)
(*                                                                         *)
(* Nothing but this file tells a service that runs from one that does not: *)
(* a start is refused only if the file leads to a process that answers     *)
(* "alive".  A new process unlinks the file before it binds its own, and a *)
(* process that ends unlinks it after it has stopped listening, whoever it *)
(* belongs to by then.                                                     *)
(*                                                                         *)
(* This is vendored code.  main.cpp uses it where the program is built for *)
(* Windows; under Linux it runs a plain application.                       *)
(***************************************************************************)
EXTENDS FiniteSets

CONSTANTS
    Instances,       \* processes that may be launched as the service
    Callers,         \* processes that call the controller or exec()
    NoOne,
    Commands,        \* the commands they send
    Flags            \* the service flags set by its constructor

ASSUME ServiceAssumption ==
    /\ NoOne \notin Instances
    /\ Commands \subseteq {"terminate", "pause", "resume", "num"}
    /\ Flags \subseteq {"CanBeSuspended", "CannotBeStopped"}

VARIABLES
    settings,   \* the keys of the service in QSettings; none if not installed
    path,       \* the process that bound the socket file, NoOne if no file
    proc,       \* how far each process has come
    owns,       \* its path_ is not empty: it listens, or has done so
    cpc,        \* how far each caller has come
    cmd,        \* the command a caller is at or has last sent,
    peer,       \* the process it connected to,
    reply,      \* what that process wrote back,
    result,     \* and what the call returned
    called,     \* history: the service's function for cmd was called
    hasty       \* history: a start or stop began before another had ended

process == <<path, proc, owns>>
caller == <<cpc, cmd, peer, reply, result, called>>
vars == <<settings, path, proc, owns, cpc, cmd, peer, reply, result, called,
          hasty>>

ProcStates == {"unused", "launched", "unlinked", "bound", "starting",
               "serving", "quitting", "closed", "ended"}

TypeOK ==
    /\ settings \in {{}, {"path", "description", "automaticStartup"}}
    /\ path \in Instances \cup {NoOne}
    /\ proc \in [Instances -> ProcStates]
    /\ owns \in [Instances -> BOOLEAN]
    /\ cpc \in [Callers -> {"idle", "runner", "waiting", "launching"}]
    /\ cmd \in [Callers -> Commands \cup {"none", "start", "alive"}]
    /\ peer \in [Callers -> Instances \cup {NoOne}]
    /\ reply \in [Callers -> {"none", "true", "false"}]
    /\ result \in [Callers -> {"none", "true", "false"}]
    /\ called \in [Callers -> BOOLEAN]
    /\ hasty \in BOOLEAN
    /\ \A i \in Instances :
           owns[i] => proc[i] \in {"starting", "serving", "quitting", "closed", "ended"}
    /\ \A c \in Callers : cpc[c] = "waiting" => peer[c] \in Instances

Init ==
    /\ settings = {}
    /\ path = NoOne
    /\ proc = [i \in Instances |-> "unused"]
    /\ owns = [i \in Instances |-> FALSE]
    /\ cpc = [c \in Callers |-> "idle"]
    /\ cmd = [c \in Callers |-> "none"]
    /\ peer = [c \in Callers |-> NoOne]
    /\ reply = [c \in Callers |-> "none"]
    /\ result = [c \in Callers |-> "none"]
    /\ called = [c \in Callers |-> FALSE]
    /\ hasty = FALSE

-----------------------------------------------------------------------------
\* The process listens: it has bound the file, and not closed its descriptor.
Listening(i) == owns[i] /\ proc[i] \in {"starting", "serving", "quitting"}

\* connectTo succeeds: a file refuses before its process listens, and after that
\* process has died.
Reachable == path # NoOne /\ Listening(path)

isInstalled == settings # {}

isRunning == Reachable

\* A start that has not yet launched its process or been refused.
Starting(c) ==
    \/ cpc[c] \in {"runner", "launching"}
    \/ cpc[c] = "waiting" /\ cmd[c] = "alive"

Stopping(c) == cpc[c] = "waiting" /\ cmd[c] = "terminate"

\* Between the launch and the listening, or between quit() and the end.
Moving(i) ==
    proc[i] \in {"launched", "unlinked", "bound", "quitting", "closed"}

Live(i) == proc[i] \notin {"unused", "ended"}

-----------------------------------------------------------------------------
(* Callers. *)

\* exec() with -i and -u, and the controller's functions that run them.
Install(c) ==
    /\ cpc[c] = "idle" /\ ~isInstalled
    /\ settings' = {"path", "description", "automaticStartup"}
    /\ UNCHANGED <<process, caller, hasty>>

Uninstall(c) ==
    /\ cpc[c] = "idle" /\ isInstalled
    /\ settings' = {}
    /\ UNCHANGED <<process, caller, hasty>>

\* sendCmd up to its wait.
Connect(c, m) ==
    /\ cmd' = [cmd EXCEPT ![c] = m]
    /\ reply' = [reply EXCEPT ![c] = "none"]
    /\ peer' = [peer EXCEPT ![c] = IF Reachable THEN path ELSE NoOne]
    /\ called' = [called EXCEPT ![c] = FALSE]

\* stop(), pause(), resume() and sendCommand() of the controller.
SendCmd(c, m) ==
    /\ cpc[c] = "idle"
    /\ Connect(c, m)
    /\ cpc' = [cpc EXCEPT ![c] = IF Reachable THEN "waiting" ELSE "idle"]
    /\ result' = [result EXCEPT ![c] = IF Reachable THEN "none" ELSE "false"]
    /\ hasty' = (hasty \/ (m = "terminate" /\ \E d \in Callers : Starting(d)))
    /\ UNCHANGED <<settings, process>>

\* A start begins: c is now the program run without an argument.
BeginRun(c, answer) ==
    /\ cpc' = [cpc EXCEPT ![c] = "runner"]
    /\ cmd' = [cmd EXCEPT ![c] = "start"]
    /\ result' = [result EXCEPT ![c] = answer]
    /\ hasty' = (\/ hasty
                 \/ \E d \in Callers : Starting(d) \/ Stopping(d)
                 \/ \E i \in Instances : Moving(i))
    /\ UNCHANGED <<settings, process, peer, reply, called>>

Run(c) ==
    /\ cpc[c] = "idle"
    /\ BeginRun(c, "none")

\* start() of the controller: true as soon as the program has been started.
CtlStart(c) ==
    /\ cpc[c] = "idle"
    /\ \/ /\ isInstalled /\ ~isRunning
          /\ BeginRun(c, "true")
       \/ /\ ~isInstalled \/ isRunning
          /\ cmd' = [cmd EXCEPT ![c] = "start"]
          /\ result' = [result EXCEPT ![c] = "false"]
          /\ UNCHANGED <<settings, process, cpc, peer, reply, called, hasty>>

\* Mutant: the result of connectTo is not looked at.
AskAlive_Waits(c) ==
    /\ cpc[c] = "runner"
    /\ Connect(c, "alive")
    /\ cpc' = [cpc EXCEPT ![c] = "waiting"]
    /\ UNCHANGED <<settings, process, result, hasty>>

\* The program asks whether a service is alive.
AskAlive(c) ==
    /\ cpc[c] = "runner"
    /\ Connect(c, "alive")
    /\ cpc' = [cpc EXCEPT ![c] = IF Reachable THEN "waiting" ELSE "launching"]
    /\ UNCHANGED <<settings, process, result, hasty>>

\* The end of file that a closed peer leaves reads as an empty reply.  It comes
\* with close() for a connection that the loop has not accepted yet, and with the
\* deletion of the socket object, or the end of the process, for one that it has.
HungUp(c) == reply[c] = "none" /\ proc[peer[c]] \in {"closed", "ended"}

\* Mutant: the program starts its process whatever it is told.
Return_Launches(c) ==
    /\ cpc[c] = "waiting"
    /\ reply[c] # "none" \/ HungUp(c)
    /\ IF cmd[c] = "alive"
       THEN /\ cpc' = [cpc EXCEPT ![c] = "launching"]
            /\ UNCHANGED result
       ELSE /\ cpc' = [cpc EXCEPT ![c] = "idle"]
            /\ result' = [result EXCEPT ![c] =
                              IF reply[c] = "true" THEN "true" ELSE "false"]
    /\ UNCHANGED <<settings, process, cmd, peer, reply, called, hasty>>

\* Mutant: an empty reply counts as success.
Return_NotFalse(c) ==
    /\ cpc[c] = "waiting"
    /\ reply[c] # "none" \/ HungUp(c)
    /\ IF cmd[c] = "alive"
       THEN /\ cpc' = [cpc EXCEPT ![c] =
                           IF reply[c] = "true" THEN "idle" ELSE "launching"]
            /\ UNCHANGED result
       ELSE /\ cpc' = [cpc EXCEPT ![c] = "idle"]
            /\ result' = [result EXCEPT ![c] =
                              IF reply[c] = "false" THEN "false" ELSE "true"]
    /\ UNCHANGED <<settings, process, cmd, peer, reply, called, hasty>>

Return(c) ==
    /\ cpc[c] = "waiting"
    /\ reply[c] # "none" \/ HungUp(c)
    /\ IF cmd[c] = "alive"
       THEN /\ cpc' = [cpc EXCEPT ![c] =
                           IF reply[c] = "true" THEN "idle" ELSE "launching"]
            /\ UNCHANGED result
       ELSE /\ cpc' = [cpc EXCEPT ![c] = "idle"]
            /\ result' = [result EXCEPT ![c] =
                              IF reply[c] = "true" THEN "true" ELSE "false"]
    /\ UNCHANGED <<settings, process, cmd, peer, reply, called, hasty>>

\* startDetached with QTSERVICE_RUN set, which may fail.
Launch(c) ==
    /\ cpc[c] = "launching"
    /\ cpc' = [cpc EXCEPT ![c] = "idle"]
    /\ \/ \E i \in Instances :
              /\ proc[i] = "unused"
              /\ proc' = [proc EXCEPT ![i] = "launched"]
       \/ UNCHANGED proc
    /\ UNCHANGED <<settings, path, owns, cmd, peer, reply, result, called, hasty>>

-----------------------------------------------------------------------------
(* The service process: run(true, ...). *)

\* Mutant: the file is not removed before the bind.
SetPathUnlink_Keeps(i) ==
    /\ proc[i] = "launched"
    /\ proc' = [proc EXCEPT ![i] = "unlinked"]
    /\ UNCHANGED <<settings, path, owns, caller, hasty>>

SetPathUnlink(i) ==
    /\ proc[i] = "launched"
    /\ path' = NoOne
    /\ proc' = [proc EXCEPT ![i] = "unlinked"]
    /\ UNCHANGED <<settings, owns, caller, hasty>>

\* bind fails if another process has made the file since; the service runs on
\* without a socket then.
SetPathBind(i) ==
    /\ proc[i] = "unlinked"
    /\ \/ path = NoOne /\ path' = i /\ proc' = [proc EXCEPT ![i] = "bound"]
       \/ path # NoOne /\ path' = path /\ proc' = [proc EXCEPT ![i] = "starting"]
    /\ UNCHANGED <<settings, owns, caller, hasty>>

SetPathListen(i) ==
    /\ proc[i] = "bound"
    /\ proc' = [proc EXCEPT ![i] = "starting"]
    /\ owns' = [owns EXCEPT ![i] = TRUE]
    /\ UNCHANGED <<settings, path, caller, hasty>>

\* startService(), the first event of the loop, before any command is read.
StartService(i) ==
    /\ proc[i] = "starting"
    /\ proc' = [proc EXCEPT ![i] = "serving"]
    /\ UNCHANGED <<settings, path, owns, caller, hasty>>

\* slotReady reads a command.  One that arrives in the iteration of the loop in
\* which quit() is called is still carried out.
Reads(i, c) ==
    /\ proc[i] \in {"serving", "quitting"}
    /\ cpc[c] = "waiting" /\ peer[c] = i /\ reply[c] = "none"

Accepted(m) ==
    /\ m = "terminate" => "CannotBeStopped" \notin Flags
    /\ m \in {"pause", "resume"} => "CanBeSuspended" \in Flags

Carry(i, c, answer) ==
    /\ Accepted(cmd[c])
    /\ called' = [called EXCEPT ![c] = TRUE]
    /\ reply' = [reply EXCEPT ![c] = answer]

\* Mutant: a command that the flags forbid is not answered.
Refuse_Silently(i, c) ==
    /\ ~Accepted(cmd[c])
    /\ UNCHANGED <<proc, called, reply>>

Refuse(i, c) ==
    /\ ~Accepted(cmd[c])
    /\ reply' = [reply EXCEPT ![c] = "false"]
    /\ UNCHANGED <<proc, called>>

\* Mutant: quit() is left to stop() of the service, which does not call it.
Obey_StaysInLoop(i, c) ==
    /\ Carry(i, c, "true")
    /\ UNCHANGED proc

\* stop(), pause(), resume() or processCommand(), then the answer; terminate
\* calls quit() in between.
Obey(i, c) ==
    /\ Carry(i, c, "true")
    /\ proc' = [proc EXCEPT ![i] = IF cmd[c] = "terminate" THEN "quitting" ELSE @]

\* The process dies after the call and before the answer.
DieObeying(i, c) ==
    /\ Carry(i, c, "none")
    /\ proc' = [proc EXCEPT ![i] = "ended"]

Handle(i, c) ==
    /\ Reads(i, c)
    /\ Refuse(i, c) \/ Obey(i, c) \/ DieObeying(i, c)
    /\ UNCHANGED <<settings, path, owns, cpc, cmd, peer, result, hasty>>

\* executeApplication() returns; QTcpServer::close().
LoopExit(i) ==
    /\ proc[i] = "quitting"
    /\ proc' = [proc EXCEPT ![i] = "closed"]
    /\ UNCHANGED <<settings, path, owns, caller, hasty>>

\* The rest of QtUnixServerSocket::close(): unlink, whoever made the file.
CloseUnlink(i) ==
    /\ proc[i] = "closed"
    /\ proc' = [proc EXCEPT ![i] = "ended"]
    /\ path' = IF owns[i] THEN NoOne ELSE path
    /\ UNCHANGED <<settings, owns, caller, hasty>>

\* The process dies: the kernel closes its sockets, the file stays.
Crash(i) ==
    /\ Live(i)
    /\ proc' = [proc EXCEPT ![i] = "ended"]
    /\ UNCHANGED <<settings, path, owns, caller, hasty>>

-----------------------------------------------------------------------------
\* exec(): what the argument of the program asks for.
Exec(c) ==
    \/ Install(c) \/ Uninstall(c)
    \/ \E m \in Commands : SendCmd(c, m)
    \/ Run(c)

CallerStep(c) == AskAlive(c) \/ Return(c) \/ Launch(c)

ServiceStep(i) ==
    \/ SetPathUnlink(i) \/ SetPathBind(i) \/ SetPathListen(i)
    \/ StartService(i) \/ LoopExit(i) \/ CloseUnlink(i)

Next ==
    \/ \E c \in Callers : Exec(c) \/ CtlStart(c) \/ CallerStep(c)
    \/ \E i \in Instances : ServiceStep(i) \/ Crash(i)
    \/ \E i \in Instances, c \in Callers : Handle(i, c)

\* Every process goes on, and its event loop serves each socket that is ready;
\* that start() returns is the service's own duty.
Spec ==
    /\ Init /\ [][Next]_vars
    /\ \A c \in Callers : WF_vars(CallerStep(c))
    /\ \A i \in Instances : WF_vars(ServiceStep(i))
    /\ \A i \in Instances, c \in Callers : WF_vars(Handle(i, c))

-----------------------------------------------------------------------------
(***************************************************************************)
(* Properties.                                                             *)
(***************************************************************************)
\* As long as no start or stop is begun while another is under way, there is
\* never more than one process of the service, whatever crashes and whatever
\* file a crash leaves behind (qtservice_unix.cpp:370-380).
UnhurriedIsSingle ==
    ~hasty => \A i, j \in Instances : Live(i) /\ Live(j) => i = j

\* Under the same discipline the socket file leads to the process that runs, so
\* that it can be stopped and a second start is refused
\* (qtunixserversocket.cpp:25-56).
UnhurriedIsReachable ==
    ~hasty => \A i \in Instances :
                  proc[i] \in {"starting", "serving", "quitting"}
                      => path = i /\ Listening(i)

\* The loop of the process has been left, or will be.
Leaving(i) == proc[i] \in {"quitting", "closed", "ended"}

Told(c, answer) == cpc[c] = "idle" /\ cmd[c] \in Commands /\ result[c] = answer

\* A caller that is told "true" had its command carried out by the process it
\* connected to, which is on its way out if the command was terminate, though it
\* need not have ended; one that is told "false" did not, or that process is dead
\* and could not say so (qtservice_unix.cpp:57-71, 285-324).
AnswersAreHonest ==
    \A c \in Callers :
        /\ Told(c, "true") =>
               called[c] /\ (cmd[c] = "terminate" => Leaving(peer[c]))
        /\ Told(c, "false") /\ called[c] => proc[peer[c]] = "ended"

\* A process that a stop reported as done reached does end, though it goes on to
\* carry out commands that came with it, and more may be sent while it listens
\* (qtservice_unix.cpp:294-296, 361-368).
StopTakesEffect ==
    \A c \in Callers, i \in Instances :
        Told(c, "true") /\ cmd[c] = "terminate" /\ peer[c] = i ~> proc[i] = "ended"

\* sendCmd waits without a timeout, and yet every call comes back: the process
\* answers or its end closes the connection (qtservice_unix.cpp:57-71).
CallsReturn == \A c \in Callers : cpc[c] = "waiting" ~> cpc[c] # "waiting"

\* qtservice.cpp:220-227 of isRunning(): "Returns true if the service is
\* running; otherwise returns false."  No process is on its way in or out here.
IsRunningAsDocumented ==
    (\E i \in Instances : proc[i] = "serving") /\ (\A i \in Instances : ~Moving(i))
        => isRunning

=============================================================================
