-------------------------- MODULE QtServiceWin_proof --------------------------
(***************************************************************************)
(* Proofs about QtServiceWin: its type invariant with the ownership of the *)
(* mutex, its safety properties from one inductive invariant, and that it  *)
(* implements ServiceContract.                                             *)
(***************************************************************************)
EXTENDS QtServiceWin, TLAPS

\* The parts of TypeOK.
CallerType ==
    /\ client \in Callers \cup {NoOne}
    /\ cpc \in [Callers -> {"idle", "sent", "served", "polling"}]
    /\ ctl \in [Callers -> Codes]
    /\ result \in [Callers -> {"none", "true", "false"}]
    /\ down \in BOOLEAN

HistoryType ==
    /\ started \in BOOLEAN /\ paused \in BOOLEAN /\ late \in BOOLEAN
    /\ called \in [Callers -> BOOLEAN]
    /\ over \in [Callers -> BOOLEAN]

MainType ==
    /\ scm \in States /\ status \in States
    /\ main \in {"none", "launched", "waitArgs", "loop", "handling", "waking",
                 "left", "stopped", "deleted"}
    /\ event \in Codes
    /\ events \in Seq(Codes)
    /\ args \in BOOLEAN /\ ready \in BOOLEAN /\ quitting \in BOOLEAN

ThreadType ==
    /\ mutex \in Threads \cup {NoOne}
    /\ at \in [Threads -> Handling \cup {"none", "called", "acquiring", "idle"}]
    /\ code \in [Threads -> Codes]
    /\ saved \in [Threads -> States]
    /\ \A t \in Threads : mutex = t
           <=> at[t] \in {"pending", "posting", "posted", "reporting", "unlocking"}
    /\ at["disp"] = "none" => at["svc"] = "none"

LEMMA Parts == CallerType' /\ HistoryType' /\ MainType' /\ ThreadType' => TypeOK'
  BY DEF TypeOK, CallerType, HistoryType, MainType, ThreadType

LEMMA EmptySeq == \A S : <<>> \in Seq(S)
  OBVIOUS

\* A thread in handler() moves on: what it needs to keep the type of at.
LEMMA MoveOn ==
    ASSUME TypeOK, NEW t \in Threads, at[t] # "none",
           at' \in [Threads -> Handling \cup {"none", "called", "acquiring", "idle"}],
           at'[t] # "none", \A u \in Threads : u # t => at'[u] = at[u]
    PROVE  at'["disp"] = "none" => at'["svc"] = "none"
  BY DEF TypeOK, Threads

\* The steps of a caller and of the manager on its behalf.
CallerStep(c) ==
    \/ CtlStart(c) \/ ManagerStep(c) \/ TimeOut(c)
    \/ \E m \in Controls : Send(c, m)

\* The steps of the main thread that leave the process alive.
LiveMainStep ==
    \/ SysInit \/ CreateApplication \/ TakeEvent \/ CallService \/ WakeAll
    \/ LeaveLoop \/ ReportStopped \/ Delete

LEMMA NextCases ==
    [Next]_vars => \/ \E c \in Callers : CallerStep(c)
                   \/ \E t \in Threads : ThreadStep(t)
                   \/ StartStep \/ LiveMainStep \/ EndProcess \/ UNCHANGED vars
  BY DEF Next, CallerStep, LiveMainStep, MainStep, Exit, GiveUp, Crash

-----------------------------------------------------------------------------
LEMMA CallerStepType ==
    ASSUME TypeOK, NEW c \in Callers, CallerStep(c)
    PROVE  TypeOK'
  <1>1. CallerType' /\ HistoryType'
    <2>1. ASSUME NEW m \in Controls, Send(c, m) PROVE CallerType' /\ HistoryType'
      <3>1. m \in Codes
        BY ControlAssumption DEF Codes
      <3>2. CallerType'
        BY <2>1, <3>1 DEF TypeOK, CallerType, Send
      <3>3. HistoryType'
        BY <2>1 DEF TypeOK, HistoryType, Send
      <3> QED
        BY <3>2, <3>3
    <2>2. CASE CtlStart(c) \/ Deliver(c) \/ Refuse(c) \/ Poll(c) \/ TimeOut(c)
      <3>1. CallerType'
        <4>1. CASE CtlStart(c)
          BY <4>1 DEF TypeOK, CallerType, CtlStart, Codes
        <4>2. CASE Deliver(c)
          BY <4>2 DEF TypeOK, CallerType, Deliver
        <4>3. CASE Refuse(c) \/ Poll(c)
          BY <4>3 DEF TypeOK, CallerType, Refuse, Poll, Fails
        <4>4. CASE TimeOut(c)
          BY <4>4 DEF TypeOK, CallerType, TimeOut, Fails
        <4> QED
          BY <2>2, <4>1, <4>2, <4>3, <4>4
      <3>2. HistoryType'
        BY <2>2 DEF TypeOK, HistoryType, CtlStart, Deliver, Refuse, Poll, TimeOut,
           history
      <3> QED
        BY <3>1, <3>2
    <2> QED
      BY <2>1, <2>2 DEF CallerStep, ManagerStep
  <1>2. MainType'
    BY DEF TypeOK, MainType, CallerStep, CtlStart, ManagerStep, Deliver, Refuse,
       Poll, TimeOut, Send, process, States
  <1>3. ThreadType'
    <2>1. CASE Deliver(c)
      BY <2>1, ControlAssumption DEF TypeOK, ThreadType, Deliver, Handling, Threads
    <2>2. CASE UNCHANGED <<mutex, at, code, saved>>
      BY <2>2 DEF TypeOK, ThreadType
    <2> QED
      BY <2>1, <2>2 DEF CallerStep, CtlStart, ManagerStep, Refuse, Poll, TimeOut,
         Send, process
  <1> QED
    BY <1>1, <1>2, <1>3, Parts

LEMMA EndProcessType == ASSUME TypeOK, EndProcess PROVE TypeOK'
  <1>1. CallerType'
    BY DEF TypeOK, CallerType, EndProcess
  <1>3. HistoryType'
    <2>1. over' \in [Callers -> BOOLEAN]
      BY DEF EndProcess
    <2> QED
      BY <2>1 DEF TypeOK, HistoryType, EndProcess
  <1>4. MainType'
    <2>1. "startup" \in Codes /\ <<>> \in Seq(Codes)
      BY EmptySeq DEF Codes
    <2> QED
      BY <2>1 DEF MainType, EndProcess, States
  <1>2. ThreadType'
    BY ControlAssumption DEF TypeOK, ThreadType, EndProcess, States, Codes, Threads
  <1> QED
    BY <1>1, <1>2, <1>3, <1>4, Parts

\* setStatus assigns states, and moves the thread on.
LEMMA AssignType ==
    ASSUME TypeOK, NEW t \in Threads, NEW states \in SUBSET States,
           NEW p, NEW q, Assign(t, states, p, q),
           p \in {"pending", "reporting"}, q \in {"posting", "unlocking"}
    PROVE  /\ status' \in States
           /\ at' \in [Threads -> Handling \cup {"none", "called", "acquiring", "idle"}]
           /\ at'[t] \in {"pending", "posting", "posted", "reporting", "unlocking"}
           /\ \A u \in Threads : u # t => at'[u] = at[u]
  <1>1. CASE status' \in states /\ at' = [at EXCEPT ![t] = p]
    BY <1>1 DEF TypeOK, Handling
  <1>2. CASE UNCHANGED status /\ at' = [at EXCEPT ![t] = q]
    BY <1>2 DEF TypeOK, Handling
  <1> QED
    BY <1>1, <1>2 DEF Assign

LEMMA ThreadStepType ==
    ASSUME TypeOK, NEW t \in Threads, ThreadStep(t)
    PROVE  TypeOK'
  <1>1. CallerType' /\ HistoryType'
    <2>1. CASE DeliverStatus(t)
      BY <2>1 DEF TypeOK, CallerType, HistoryType, DeliverStatus, HandlerReturns
    <2>2. CASE ReadStatus(t)
      BY <2>2 DEF TypeOK, CallerType, HistoryType, ReadStatus, HandlerReturns, history
    <2>3. CASE UNCHANGED <<caller, history, down>>
      BY <2>3 DEF TypeOK, CallerType, HistoryType, caller, history
    <2> QED
      BY <2>1, <2>2, <2>3 DEF ThreadStep, Lock, SetStatus, Post, Wait, Woken, Unlock
  <1>2. CASE Lock(t) \/ Woken(t)
    <2>1. mutex = NoOne /\ mutex' = t /\ UNCHANGED <<scm, main, event, events, args,
          ready, quitting, code, saved>>
      BY <1>2 DEF Lock, Woken
    <2>2. PICK states \in SUBSET States, p \in {"pending", "reporting"},
               q \in {"posting", "unlocking"} : Assign(t, states, p, q)
      BY <1>2 DEF Lock, Woken, Before, After
    <2>3. MainType'
      BY <2>1, <2>2, AssignType DEF TypeOK, MainType
    <2>4. ThreadType'
      <3>1. at[t] # "none"
        BY <1>2 DEF Lock, Woken
      <3>2. at'["disp"] = "none" => at'["svc"] = "none"
        BY <2>2, <3>1, AssignType, MoveOn
      <3>3. /\ at' \in [Threads -> Handling \cup {"none", "called", "acquiring", "idle"}]
            /\ at'[t] \in {"pending", "posting", "posted", "reporting", "unlocking"}
            /\ \A u \in Threads : u # t => at'[u] = at[u]
        BY <2>2, AssignType
      <3>4. \A u \in Threads :
               u # t => at'[u] \notin {"pending", "posting", "posted", "reporting",
                                      "unlocking"}
        BY <2>1, <3>3, ControlAssumption DEF TypeOK
      <3>5. code' \in [Threads -> Codes] /\ saved' \in [Threads -> States]
        BY <2>1 DEF TypeOK
      <3> QED
        BY <2>1, <3>2, <3>3, <3>4, <3>5 DEF ThreadType
    <2> QED
      BY <1>1, <2>3, <2>4, Parts
  <1>3. CASE Post(t)
    <2>1. MainType'
      BY <1>3 DEF TypeOK, MainType, Post, Posted, Codes
    <2>2. ThreadType'
      BY <1>3 DEF TypeOK, ThreadType, Post, Handling
    <2> QED
      BY <1>1, <2>1, <2>2, Parts
  <1>4. CASE SetStatus(t) \/ Wait(t) \/ Unlock(t) \/ ReadStatus(t) \/ DeliverStatus(t)
    <2>1. MainType'
      BY <1>4 DEF TypeOK, MainType, SetStatus, Wait, Unlock, ReadStatus,
         DeliverStatus, Report
    <2>2. CASE SetStatus(t)
      <3>1. ThreadType'
        BY <2>2 DEF TypeOK, ThreadType, SetStatus, Handling
      <3> QED
        BY <1>1, <2>1, <3>1, Parts
    <2>3. CASE Wait(t) \/ Unlock(t)
      <3>1. ThreadType'
        <4>1. /\ at' \in [Threads -> Handling \cup {"none", "called", "acquiring", "idle"}]
              /\ at[t] \in {"posted", "unlocking"} /\ at'[t] \in {"waiting", "unlocked"}
              /\ \A u \in Threads : u # t => at'[u] = at[u]
          BY <2>3 DEF TypeOK, Wait, Unlock, Handling
        <4>2. at'["disp"] = "none" => at'["svc"] = "none"
          BY <4>1, MoveOn
        <4> QED
          BY <2>3, <4>1, <4>2, ControlAssumption DEF TypeOK, ThreadType, Wait, Unlock
      <3> QED
        BY <1>1, <2>1, <3>1, Parts
    <2>4. CASE ReadStatus(t) \/ DeliverStatus(t)
      <3>1. ThreadType'
        <4>1. /\ at' \in [Threads -> Handling \cup {"none", "called", "acquiring", "idle"}]
              /\ at[t] \in {"unlocked", "delivering"} /\ at'[t] \in {"delivering", "idle"}
              /\ \A u \in Threads : u # t => at'[u] = at[u]
              /\ saved' \in [Threads -> States]
              /\ UNCHANGED <<mutex, code>>
          BY <2>4 DEF TypeOK, ReadStatus, DeliverStatus, HandlerReturns, Handling
        <4>2. at'["disp"] = "none" => at'["svc"] = "none"
          BY <4>1, MoveOn
        <4> QED
          BY <4>1, <4>2 DEF TypeOK, ThreadType
      <3> QED
        BY <1>1, <2>1, <3>1, Parts
    <2> QED
      BY <1>4, <2>2, <2>3, <2>4
  <1> QED
    BY <1>2, <1>3, <1>4 DEF ThreadStep

LEMMA StartStepType == ASSUME TypeOK, StartStep PROVE TypeOK'
  <1>1. UNCHANGED <<scm, status, main, event, events, quitting, caller, history,
                    down>>
    BY DEF StartStep, Connect, ServiceMain, Acquire
  <1>3. args' \in BOOLEAN /\ ready' \in BOOLEAN
    BY DEF TypeOK, StartStep, Connect, ServiceMain, Acquire
  <1>4. CallerType' /\ HistoryType'
    BY <1>1 DEF TypeOK, CallerType, HistoryType, caller, history
  <1>5. MainType'
    BY <1>1, <1>3 DEF TypeOK, MainType
  <1>2. ThreadType'
    <2>1. CASE Connect
      <3>1. at'["svc"] = "called" /\ at'["disp"] = "idle" /\ at["disp"] = "none"
            /\ at' \in [Threads -> {"called", "idle"}]
        BY <2>1 DEF Connect, Threads
      <3> QED
        BY <2>1, <3>1 DEF TypeOK, ThreadType, Connect, Threads
    <2>2. CASE ServiceMain \/ Acquire
      BY <2>2 DEF TypeOK, ThreadType, ServiceMain, Acquire, Threads, Handling
    <2> QED
      BY <2>1, <2>2 DEF StartStep
  <1> QED
    BY <1>2, <1>4, <1>5, Parts

LEMMA MainStepType == ASSUME TypeOK, LiveMainStep PROVE TypeOK'
  <1>1. CallerType' /\ HistoryType'
    <2>1. CASE CallService
      <3>1. started' \in BOOLEAN /\ paused' \in BOOLEAN
        BY <2>1 DEF TypeOK, CallService, ServiceRuns
      <3>2. called' \in [Callers -> BOOLEAN]
        BY <2>1 DEF TypeOK, CallService, ServiceRuns
      <3> QED
        BY <2>1, <3>1, <3>2 DEF TypeOK, CallerType, HistoryType, CallService, caller
    <2>2. CASE ~CallService
      BY <2>2 DEF TypeOK, CallerType, HistoryType, LiveMainStep, SysInit,
         CreateApplication, TakeEvent, WakeAll, LeaveLoop, ReportStopped, Delete,
         caller, history, Given
    <2> QED
      BY <2>1, <2>2
  <1>2. MainType'
    <2>1. CASE TakeEvent
      <3>1. event' \in Codes /\ events' \in Seq(Codes)
        BY <2>1 DEF TypeOK, TakeEvent
      <3> QED
        BY <2>1, <3>1 DEF TypeOK, MainType, TakeEvent
    <2>2. CASE CallService
      <3>1. quitting' \in BOOLEAN
        BY <2>2 DEF TypeOK, CallService, ServiceRuns
      <3> QED
        BY <2>2, <3>1 DEF TypeOK, MainType, CallService, ServiceRuns
    <2>3. CASE SysInit \/ CreateApplication \/ WakeAll
      BY <2>3 DEF TypeOK, MainType, SysInit, CreateApplication, WakeAll
    <2>4. CASE LeaveLoop \/ ReportStopped \/ Delete
      <3>1. scm' \in States /\ status' \in States
        BY <2>4 DEF TypeOK, LeaveLoop, ReportStopped, Delete, Report, States
      <3> QED
        BY <2>4, <3>1 DEF TypeOK, MainType, LeaveLoop, ReportStopped, Delete
    <2> QED
      BY <2>1, <2>2, <2>3, <2>4 DEF LiveMainStep
  <1>3. ThreadType'
    <2>1. CASE WakeAll
      <3>1. /\ at' \in [Threads -> Handling \cup {"none", "called", "acquiring", "idle"}]
            /\ \A t \in Threads : at'[t] = at[t]
                                  \/ (at[t] = "waiting" /\ at'[t] = "woken")
        BY <2>1 DEF TypeOK, WakeAll, Handling
      <3>2. at'["disp"] = "none" => at'["svc"] = "none"
        BY <3>1 DEF TypeOK, Threads
      <3> QED
        BY <2>1, <3>1, <3>2 DEF TypeOK, ThreadType, WakeAll
    <2>2. CASE UNCHANGED <<mutex, at, code, saved>>
      BY <2>2 DEF TypeOK, ThreadType
    <2> QED
      BY <2>1, <2>2 DEF LiveMainStep, SysInit, CreateApplication, TakeEvent,
         CallService, ServiceRuns, LeaveLoop, ReportStopped, Delete
  <1> QED
    BY <1>1, <1>2, <1>3, Parts

LEMMA NextType == TypeOK /\ [Next]_vars => TypeOK'
  <1>1. ASSUME TypeOK, UNCHANGED vars PROVE TypeOK'
    BY <1>1 DEF TypeOK, vars
  <1> QED
    BY <1>1, NextCases, CallerStepType, ThreadStepType, StartStepType, MainStepType,
       EndProcessType

LEMMA InitTypeOK == Init => TypeOK
  <1> SUFFICES ASSUME Init PROVE TypeOK
    OBVIOUS
  <1>1. CallerType /\ HistoryType
    BY DEF Init, CallerType, HistoryType, Codes
  <1>2. MainType
    <2>1. "startup" \in Codes /\ <<>> \in Seq(Codes)
      BY EmptySeq DEF Codes
    <2> QED
      BY <2>1 DEF Init, MainType, States
  <1>3. ThreadType
    BY ControlAssumption DEF Init, ThreadType, Codes, States, Threads
  <1> QED
    BY <1>1, <1>2, <1>3 DEF TypeOK, CallerType, HistoryType, MainType, ThreadType

\* The type invariant holds, and the mutex belongs to the one thread that is
\* between the lock and the unlock of handler(), and not in the wait.
THEOREM SpecTypeOK == Spec => []TypeOK
  BY InitTypeOK, NextType, PTL DEF Spec

-----------------------------------------------------------------------------
\* As long as start() has not returned, serviceMain has not been woken, no control
\* has been let through and the loop knows of nothing but the start.
Starting ==
    /\ scm \in {"STOPPED", "START_PENDING"} /\ status \in {"STOPPED", "START_PENDING"}
    /\ at["disp"] \in {"none", "idle"}
    /\ code["svc"] = "startup"
    /\ at["svc"] \in {"none", "called", "acquiring", "entered", "pending", "posting",
                      "posted", "waiting"}
    /\ events \in Seq({"startup"})
    /\ main \in {"none", "launched", "waitArgs", "loop", "handling"}
    /\ main = "handling" => event = "startup"
    /\ ~quitting

StartInv == ~started => Starting

LEMMA NextStartInv == TypeOK /\ StartInv /\ [Next]_vars => StartInv'
  <1> SUFFICES ASSUME TypeOK, StartInv, [Next]_vars, ~started' PROVE Starting'
    BY DEF StartInv
  <1>1. CASE EndProcess
    BY <1>1 DEF EndProcess, Starting, Threads
  <1>2. CASE ~EndProcess
    <2>1. Starting
      BY <1>2, NextCases DEF StartInv, CallerStep, CtlStart, ManagerStep, Deliver,
         Refuse, Poll, TimeOut, Send, ThreadStep, Lock, SetStatus, Post, Wait, Woken,
         Unlock, ReadStatus, DeliverStatus, StartStep, Connect, ServiceMain, Acquire,
         LiveMainStep, SysInit, CreateApplication, TakeEvent, CallService, ServiceRuns,
         WakeAll, LeaveLoop, ReportStopped, Delete, history, vars
    <2>2. ASSUME NEW c \in Callers, CallerStep(c) PROVE Starting'
      BY <2>1, <2>2 DEF Starting, CallerStep, CtlStart, ManagerStep, Deliver, Refuse,
         Poll, TimeOut, Send, Controllable, process
    <2>3. ASSUME NEW t \in Threads, ThreadStep(t) PROVE Starting'
      <3>1. t = "svc" /\ UNCHANGED <<code, event, main, quitting>>
        BY <2>1, <2>3 DEF Starting, ThreadStep, Lock, SetStatus, Post, Wait, Woken,
           Unlock, ReadStatus, DeliverStatus, Threads
      <3>2. CASE Lock(t)
        <4>1. Before("startup") = {"START_PENDING"}
          BY DEF Before, States
        <4>2. /\ status' = "START_PENDING" /\ at' = [at EXCEPT !["svc"] = "pending"]
              /\ UNCHANGED <<scm, events>>
          BY <2>1, <3>1, <3>2, <4>1 DEF Lock, Assign, Starting
        <4> QED
          BY <2>1, <3>1, <4>2 DEF Starting, TypeOK, Threads
      <3>3. CASE SetStatus(t) \/ Wait(t)
        BY <2>1, <3>1, <3>3 DEF Starting, SetStatus, Wait, Report, TypeOK, Threads
      <3>4. CASE Post(t)
        <4>1. events' \in Seq({"startup"})
          BY <2>1, <3>1, <3>4 DEF Starting, Post, Posted
        <4> QED
          BY <2>1, <3>1, <3>4, <4>1 DEF Starting, Post, TypeOK, Threads
      <3> QED
        BY <2>1, <2>3, <3>1, <3>2, <3>3, <3>4 DEF ThreadStep, Woken, Unlock,
           ReadStatus, DeliverStatus, Starting
    <2>4. CASE StartStep
      BY <2>1, <2>4 DEF Starting, StartStep, Connect, ServiceMain, Acquire, TypeOK,
         Threads
    <2>5. CASE LiveMainStep
      <3>1. CASE TakeEvent
        <4>1. event' = "startup" /\ events' \in Seq({"startup"})
          BY <2>1, <3>1 DEF Starting, TakeEvent
        <4> QED
          BY <2>1, <3>1, <4>1 DEF Starting, TakeEvent
      <3>2. CASE SysInit \/ CreateApplication
        BY <2>1, <3>2 DEF Starting, SysInit, CreateApplication
      <3> QED
        BY <2>1, <2>5, <3>1, <3>2 DEF LiveMainStep, Starting, CallService, ServiceRuns,
           WakeAll, LeaveLoop, ReportStopped, Delete
    <2>6. CASE UNCHANGED vars
      BY <2>1, <2>6 DEF Starting, vars
    <2> QED
      BY <1>2, <2>2, <2>3, <2>4, <2>5, <2>6, NextCases
  <1> QED
    BY <1>1, <1>2

\* The manager is told RUNNING, and lets controls through, only after start() has
\* returned in the main thread.
THEOREM SpecRunningMeansStarted == Spec => []RunningMeansStarted
  <1>1. Init => StartInv
    BY DEF Init, StartInv, Starting, Threads
  <1>2. StartInv => RunningMeansStarted
    BY DEF StartInv, Starting, RunningMeansStarted
  <1> QED
    BY <1>1, <1>2, NextStartInv, SpecTypeOK, PTL DEF Spec

-----------------------------------------------------------------------------
(***************************************************************************)
(* What the manager and the callers are told.  The parts of an invariant   *)
(* that is inductive as a whole, and the lemmas about them.                *)
(***************************************************************************)
Signalled == {"unlocking", "unlocked", "delivering", "idle"}

Awake == {"woken", "reporting", "unlocking", "unlocked", "delivering"}

InLoop == {"loop", "handling", "waking"}

Over == {"left", "stopped", "deleted"}

\* The start is signalled before the first control is let through.
OrderInv ==
    /\ code["svc"] = "startup"
    /\ at["disp"] \notin {"called", "acquiring"}
    /\ InHandler("disp") => at["svc"] \in Signalled /\ code["disp"] # "startup"
    /\ quitting => at["svc"] \in Signalled
    /\ main \in Over => quitting
    /\ scm \notin {"STOPPED", "START_PENDING"} => at["svc"] \in Signalled
    /\ status \notin {"STOPPED", "START_PENDING"} => at["svc"] \in Signalled \cup {"reporting"}
    /\ at["svc"] = "reporting" => status = "RUNNING"
    /\ code["disp"] = "interrogate"
           => at["disp"] \notin {"pending", "posting", "posted", "waiting", "woken",
                                 "reporting"}
    /\ \A c \in Callers : cpc[c] # "idle" => ctl[c] # "startup"

Outstanding(t) == at[t] \in {"posted", "waiting"}

EventOf(t) == IF code[t] = "shutdown" THEN "stop" ELSE code[t]

Awaited(e) == \E t \in Threads : Outstanding(t) /\ e = EventOf(t)

\* There is one event at most, and a thread waits for it.
EventInv ==
    /\ events # <<>> => /\ Len(events) = 1 /\ main \notin {"handling", "waking"}
                        /\ Awaited(events[1])
    /\ main \in {"handling", "waking"} => events = <<>> /\ Awaited(event)

\* What setStatus is called with, before the event and after it.
LEMMA BeforeIs ==
    /\ Before("startup") = {"START_PENDING"}
    /\ Before("stop") = {"STOP_PENDING"}
    /\ Before("pause") = {"PAUSE_PENDING"}
    /\ Before("continue") = {"CONTINUE_PENDING"}
    /\ \A m \in {"user", "interrogate", "shutdown"} : Before(m) = {}
  BY DEF Before, States

LEMMA AfterIs ==
    /\ After("startup") = {"RUNNING"} /\ After("continue") = {"RUNNING"}
    /\ After("pause") = {"PAUSED"}
    /\ \A m \in {"stop", "user", "interrogate", "shutdown"} : After(m) = {}
  BY DEF After, States

\* Where lock() leaves a thread of handler(), and where the wait does.
LEMMA LockDoes ==
    ASSUME TypeOK, NEW t \in Threads, Lock(t)
    PROVE  /\ at[t] = "entered"
           /\ UNCHANGED <<scm, main, event, events, quitting, code, saved, caller,
                          history, down>>
           /\ at' = [at EXCEPT ![t] = at'[t]]
           /\ \/ /\ code[t] \in {"startup", "stop", "pause", "continue"}
                 /\ at'[t] = "pending" /\ status' \in Before(code[t])
              \/ /\ code[t] \in {"user", "shutdown"}
                 /\ at'[t] = "posting" /\ status' = status
              \/ /\ code[t] = "interrogate"
                 /\ at'[t] = "unlocking" /\ status' = status
  <1>1. at[t] = "entered"
    BY DEF Lock
  <1>2. UNCHANGED <<scm, main, event, events, quitting, code, saved, caller,
                    history, down>>
    BY DEF Lock
  <1>3. at' = [at EXCEPT ![t] = at'[t]]
    BY DEF Lock, Assign, TypeOK
  <1>4. /\ Before(code[t]) # {} => status' \in Before(code[t]) /\ at'[t] = "pending"
        /\ Before(code[t]) = {} => /\ status' = status
                                   /\ at'[t] = IF code[t] = "interrogate"
                                               THEN "unlocking" ELSE "posting"
    BY DEF Lock, Assign, TypeOK
  <1>5. code[t] \in Codes
    BY DEF TypeOK
  <1> QED
    BY <1>1, <1>2, <1>3, <1>4, <1>5, BeforeIs DEF Codes

LEMMA WokenDoes ==
    ASSUME TypeOK, NEW t \in Threads, Woken(t)
    PROVE  /\ at[t] = "woken"
           /\ UNCHANGED <<scm, main, event, events, quitting, code, saved, caller,
                          history, down>>
           /\ at' = [at EXCEPT ![t] = at'[t]]
           /\ \/ /\ code[t] \in {"startup", "continue"}
                 /\ at'[t] = "reporting" /\ status' = "RUNNING"
              \/ /\ code[t] = "pause"
                 /\ at'[t] = "reporting" /\ status' = "PAUSED"
              \/ /\ code[t] \in {"stop", "user", "interrogate", "shutdown"}
                 /\ at'[t] = "unlocking" /\ status' = status
  <1>1. at[t] = "woken"
    BY DEF Woken
  <1>2. UNCHANGED <<scm, main, event, events, quitting, code, saved, caller,
                    history, down>>
    BY DEF Woken
  <1>3. at' = [at EXCEPT ![t] = at'[t]]
    BY DEF Woken, Assign, TypeOK
  <1>4. /\ After(code[t]) # {} => status' \in After(code[t]) /\ at'[t] = "reporting"
        /\ After(code[t]) = {} => status' = status /\ at'[t] = "unlocking"
    BY DEF Woken, Assign, TypeOK
  <1>5. code[t] \in Codes
    BY DEF TypeOK
  <1> QED
    BY <1>1, <1>2, <1>3, <1>4, <1>5, AfterIs DEF Codes

LEMMA OrderStep ==
    ASSUME TypeOK, StartInv, OrderInv, EventInv, [Next]_vars
    PROVE  OrderInv'
  <1> USE DEF OrderInv, Signalled, InHandler, Handling, Over
  <1>1. ASSUME NEW c \in Callers, CallerStep(c) PROVE OrderInv'
    <2>1. ASSUME NEW m \in Controls, Send(c, m) PROVE OrderInv'
      BY <2>1, ControlAssumption DEF Send, process, TypeOK
    <2>2. CASE Deliver(c)
      BY <2>2 DEF Deliver, Controllable, TypeOK, Threads
    <2>3. CASE CtlStart(c)
      BY <2>3 DEF CtlStart, TypeOK
    <2>4. CASE Refuse(c) \/ Poll(c) \/ TimeOut(c)
      BY <2>4 DEF Refuse, Poll, TimeOut, Fails, process, TypeOK
    <2> QED
      BY <1>1, <2>1, <2>2, <2>3, <2>4 DEF CallerStep, ManagerStep
  <1>2. ASSUME NEW t \in Threads, ThreadStep(t) PROVE OrderInv'
    <2>1. CASE Lock(t)
      BY <2>1, LockDoes, BeforeIs DEF TypeOK, Threads, caller
    <2>2. CASE SetStatus(t)
      BY <2>2 DEF SetStatus, Report, TypeOK, Threads, caller
    <2>3. CASE Post(t) \/ Wait(t) \/ Unlock(t)
      BY <2>3 DEF Post, Wait, Unlock, TypeOK, Threads, caller
    <2>4. CASE Woken(t)
      BY <2>4, WokenDoes DEF TypeOK, Threads, caller
    <2>5. CASE ReadStatus(t)
      BY <2>5 DEF ReadStatus, HandlerReturns, TypeOK, Threads
    <2>6. CASE DeliverStatus(t)
      BY <2>6 DEF DeliverStatus, HandlerReturns, Report, TypeOK, Threads
    <2> QED
      BY <1>2, <2>1, <2>2, <2>3, <2>4, <2>5, <2>6 DEF ThreadStep
  <1>3. CASE StartStep
    BY <1>3 DEF StartStep, Connect, ServiceMain, Acquire, TypeOK, Threads, caller
  <1>4. CASE LiveMainStep
    <2>1. CASE WakeAll
      BY <2>1 DEF WakeAll, TypeOK, Threads, caller
    <2>2. CASE CallService
      <3>1. UNCHANGED <<scm, status, at, code, caller>>
        BY <2>2 DEF CallService, ServiceRuns
      <3>2. main' = "waking" /\ (quitting' => quitting \/ event = "stop")
        BY <2>2 DEF CallService
      <3>3. Awaited(event)
        BY <2>2 DEF CallService, EventInv
      <3>4. event = "stop" => InHandler("disp")
        BY <3>3 DEF Awaited, Outstanding, EventOf, Threads
      <3> QED
        BY <3>1, <3>2, <3>4 DEF caller
    <2>3. CASE ReportStopped
      BY <2>3 DEF ReportStopped, Report, TypeOK, caller
    <2> QED
      BY <1>4, <2>1, <2>2, <2>3 DEF LiveMainStep, SysInit, CreateApplication,
         TakeEvent, LeaveLoop, Delete, caller
  <1>5. CASE EndProcess
    BY <1>5 DEF EndProcess, Threads, TypeOK
  <1>6. CASE UNCHANGED vars
    BY <1>6 DEF vars
  <1> QED
    BY <1>1, <1>2, <1>3, <1>4, <1>5, <1>6, NextCases

LEMMA EventStep ==
    ASSUME TypeOK, OrderInv, EventInv, [Next]_vars
    PROVE  EventInv'
  <1> USE DEF EventInv, Awaited, Outstanding, EventOf
  <1>1. ASSUME NEW c \in Callers, CallerStep(c) PROVE EventInv'
    <2>1. CASE Deliver(c)
      BY <2>1 DEF Deliver, TypeOK, Threads
    <2>2. CASE CtlStart(c)
      BY <2>2 DEF CtlStart, TypeOK
    <2> QED
      BY <1>1, <2>1, <2>2 DEF CallerStep, ManagerStep, Send, Refuse, Poll, TimeOut,
         process
  <1>2. ASSUME NEW t \in Threads, ThreadStep(t) PROVE EventInv'
    <2>1. CASE Lock(t)
      BY <2>1, LockDoes DEF TypeOK
    <2>2. CASE SetStatus(t)
      BY <2>2 DEF SetStatus, TypeOK
    <2>3. CASE Post(t)
      <3>1. at' = [at EXCEPT ![t] = "posted"] /\ UNCHANGED <<code, main, event>>
        BY <2>3 DEF Post
      <3>2. ~Outstanding(t) /\ Outstanding(t)'
        BY <3>1, <2>3 DEF Post, TypeOK
      <3>3. \A u \in Threads : Outstanding(u) => u # t /\ Outstanding(u)'
        BY <3>1, <2>3 DEF Post, TypeOK
      <3>4. \A u \in Threads : ~Outstanding(u)
        BY <3>2, <2>3 DEF Post, OrderInv, InHandler, Handling, Signalled, Threads
      <3>5. events = <<>> /\ main \notin {"handling", "waking"}
        BY <3>4
      <3>6. events' = <<>> \/ events' = <<EventOf(t)>>
        BY <2>3, <3>5 DEF Post, Posted, TypeOK
      <3> QED
        BY <3>1, <3>2, <3>5, <3>6
    <2>4. CASE Wait(t)
      BY <2>4 DEF Wait, TypeOK
    <2>5. CASE Woken(t)
      BY <2>5, WokenDoes DEF TypeOK
    <2>6. CASE Unlock(t) \/ ReadStatus(t) \/ DeliverStatus(t)
      BY <2>6 DEF Unlock, ReadStatus, DeliverStatus, HandlerReturns, TypeOK
    <2> QED
      BY <1>2, <2>1, <2>2, <2>3, <2>4, <2>5, <2>6 DEF ThreadStep
  <1>3. CASE StartStep
    BY <1>3 DEF StartStep, Connect, ServiceMain, Acquire, TypeOK, Threads
  <1>4. CASE LiveMainStep
    <2>1. CASE WakeAll
      <3>1. events = <<>> /\ events' = <<>> /\ main' = "loop"
        BY <2>1 DEF WakeAll
      <3> QED
        BY <3>1
    <2>2. CASE TakeEvent
      <3>1. Len(events) = 1 /\ Awaited(events[1]) /\ events # <<>>
        BY <2>2 DEF TakeEvent
      <3>2. event' = events[1] /\ events' = <<>>
        BY <2>2, <3>1 DEF TakeEvent, TypeOK
      <3> QED
        BY <2>2, <3>1, <3>2 DEF TakeEvent
    <2>3. CASE CallService
      BY <2>3 DEF CallService, ServiceRuns
    <2> QED
      BY <1>4, <2>1, <2>2, <2>3 DEF LiveMainStep, SysInit, CreateApplication,
         LeaveLoop, ReportStopped, Delete
  <1>5. CASE EndProcess
    BY <1>5 DEF EndProcess
  <1>6. CASE UNCHANGED vars
    BY <1>6 DEF vars
  <1> QED
    BY <1>1, <1>2, <1>3, <1>4, <1>5, <1>6, NextCases

\* The manager is not told STOPPED before the loop has ended.
AliveInv ==
    /\ main \in {"launched", "waitArgs"} \cup InLoop => scm # "STOPPED"
    /\ main \in InLoop /\ at["svc"] \notin {"none", "called", "acquiring", "entered"}
           => status # "STOPPED"
    /\ main = "none" => at["svc"] = "none" /\ at["disp"] = "none"
    /\ main \in {"none", "launched", "waitArgs"} => ~ready
    /\ main = "launched" => at["svc"] = "none"
    /\ main = "waitArgs" => at["svc"] \in {"none", "called", "acquiring"}
    /\ \A t \in Threads : at[t] = "delivering" => saved[t] # "STOPPED"

LEMMA AliveStep ==
    ASSUME TypeOK, OrderInv, AliveInv, [Next]_vars
    PROVE  AliveInv'
  <1> USE DEF AliveInv, InLoop
  <1>1. ASSUME NEW c \in Callers, CallerStep(c) PROVE AliveInv'
    <2>1. CASE Deliver(c)
      BY <2>1 DEF Deliver, TypeOK, Threads
    <2>2. CASE CtlStart(c)
      BY <2>2 DEF CtlStart, TypeOK
    <2> QED
      BY <1>1, <2>1, <2>2 DEF CallerStep, ManagerStep, Send, Refuse, Poll, TimeOut,
         process
  <1>2. ASSUME NEW t \in Threads, ThreadStep(t) PROVE AliveInv'
    <2>1. CASE Lock(t)
      <3>1. status' # "STOPPED" \/ status' = status
        BY <2>1, LockDoes, BeforeIs
      <3>2. main \notin {"none", "launched", "waitArgs"}
        BY <2>1 DEF Lock, TypeOK, Threads, OrderInv, InHandler, Handling, Signalled
      <3>3. UNCHANGED <<scm, main, saved>> /\ at' = [at EXCEPT ![t] = at'[t]]
            /\ at'[t] # "delivering" /\ at[t] = "entered"
        BY <2>1, LockDoes
      <3>4. t = "svc" => status' # "STOPPED"
        BY <2>1, LockDoes, BeforeIs DEF OrderInv
      <3> QED
        BY <3>1, <3>2, <3>3, <3>4 DEF TypeOK, Threads
    <2>2. CASE SetStatus(t)
      BY <2>2 DEF SetStatus, Report, TypeOK, Threads, OrderInv, InHandler, Handling,
         Signalled
    <2>3. CASE Post(t) \/ Wait(t) \/ Unlock(t)
      BY <2>3 DEF Post, Wait, Unlock, TypeOK, Threads
    <2>4. CASE Woken(t)
      <3>1. status' # "STOPPED" \/ status' = status
        BY <2>4, WokenDoes
      <3>2. UNCHANGED <<scm, main, saved, ready>> /\ at' = [at EXCEPT ![t] = at'[t]]
            /\ at'[t] \in {"reporting", "unlocking"} /\ at[t] = "woken"
        BY <2>4, WokenDoes DEF Woken
      <3> QED
        BY <3>1, <3>2 DEF TypeOK, Threads
    <2>5. CASE ReadStatus(t)
      BY <2>5 DEF ReadStatus, HandlerReturns, TypeOK, Threads
    <2>6. CASE DeliverStatus(t)
      BY <2>6 DEF DeliverStatus, HandlerReturns, Report, TypeOK, Threads
    <2> QED
      BY <1>2, <2>1, <2>2, <2>3, <2>4, <2>5, <2>6 DEF ThreadStep
  <1>3. CASE StartStep
    BY <1>3 DEF StartStep, Connect, ServiceMain, Acquire, TypeOK, Threads
  <1>4. CASE LiveMainStep
    <2>1. CASE WakeAll
      BY <2>1 DEF WakeAll, TypeOK, Threads
    <2>2. CASE CreateApplication \/ SysInit
      BY <2>2 DEF CreateApplication, SysInit, TypeOK, Threads
    <2> QED
      BY <1>4, <2>1, <2>2 DEF LiveMainStep, TakeEvent, CallService, ServiceRuns,
         LeaveLoop, ReportStopped, Delete
  <1>5. CASE EndProcess
    BY <1>5 DEF EndProcess, Threads
  <1>6. CASE UNCHANGED vars
    BY <1>6 DEF vars
  <1> QED
    BY <1>1, <1>2, <1>3, <1>4, <1>5, <1>6, NextCases

\* A control is answered by the function of the service it was sent for.
Asked == {"pause", "continue", "user"}

AnswerInv ==
    /\ AnswersAreHonest
    /\ \A c \in Callers : cpc[c] = "served" <=> client = c
    /\ client # NoOne => InHandler("disp") /\ code["disp"] = ctl[client]
    /\ client # NoOne /\ ctl[client] \in Asked /\ (at["disp"] \in Awake \/ main = "waking")
           => called[client]
    /\ client # NoOne /\ ctl[client] = "stop" /\ main \in Over /\ at["disp"] \in Awake
           => over[client]
    /\ \A c \in Callers : cpc[c] = "polling"
           => ctl[c] = "stop" /\ (over[c] \/ main \in InLoop)

LEMMA AnswerStep ==
    ASSUME TypeOK, OrderInv, EventInv, AliveInv, AnswerInv, [Next]_vars
    PROVE  AnswerInv'
  <1> USE DEF AnswerInv, AnswersAreHonest, InHandler, Handling, Awake, Asked, Over, InLoop
  <1>1. ASSUME NEW c \in Callers, CallerStep(c) PROVE AnswerInv'
    <2>1. CASE Deliver(c)
      <3>1. main # "waking"
        BY <2>1 DEF Deliver, Controllable, EventInv, Awaited, Outstanding, OrderInv,
           Signalled, Threads
      <3>2. client = NoOne
        BY <2>1 DEF Deliver
      <3>3. /\ at' = [at EXCEPT !["disp"] = "entered"] /\ client' = c
            /\ code' = [code EXCEPT !["disp"] = ctl[c]]
            /\ cpc' = [cpc EXCEPT ![c] = "served"]
            /\ UNCHANGED <<main, ctl, result, called, over>>
        BY <2>1 DEF Deliver, history
      <3> QED
        BY <3>1, <3>2, <3>3, ControlAssumption DEF TypeOK, Threads
    <2>2. CASE CtlStart(c)
      BY <2>2, ControlAssumption DEF CtlStart, TypeOK, history
    <2>3. ASSUME NEW m \in Controls, Send(c, m) PROVE AnswerInv'
      BY <2>3, ControlAssumption DEF Send, process, TypeOK
    <2>4. CASE Refuse(c)
      BY <2>4, ControlAssumption DEF Refuse, Fails, process, history, TypeOK
    <2>5. CASE TimeOut(c)
      BY <2>5, ControlAssumption DEF TimeOut, Fails, process, history, TypeOK
    <2>6. CASE Poll(c)
      BY <2>6, ControlAssumption DEF Poll, isRunning, process, history, TypeOK, AliveInv
    <2> QED
      BY <1>1, <2>1, <2>2, <2>3, <2>4, <2>5, <2>6 DEF CallerStep, ManagerStep
  <1>2. ASSUME NEW t \in Threads, ThreadStep(t) PROVE AnswerInv'
    <2>1. CASE Lock(t)
      BY <2>1, LockDoes DEF TypeOK, Threads, caller, history
    <2>2. CASE SetStatus(t) \/ Post(t) \/ Wait(t) \/ Unlock(t)
      BY <2>2 DEF SetStatus, Post, Wait, Unlock, TypeOK, Threads, caller, history
    <2>3. InHandler("disp") => main \in InLoop \cup Over
      BY DEF TypeOK, OrderInv, AliveInv, Signalled
    <2>4. CASE Woken(t)
      BY <2>4, WokenDoes DEF TypeOK, Threads, caller, history
    <2>5. CASE ReadStatus(t)
      BY <2>5, <2>3, ControlAssumption DEF ReadStatus, HandlerReturns, TypeOK, Threads,
         history
    <2>6. CASE DeliverStatus(t)
      <3>1. /\ at[t] = "delivering" /\ HandlerReturns(t)
            /\ UNCHANGED <<main, code, ctl, called, over>>
        BY <2>6 DEF DeliverStatus
      <3>2. at' = [at EXCEPT ![t] = "idle"]
        BY <3>1 DEF HandlerReturns
      <3>3. CASE t = "disp" /\ client # NoOne
        <4>1. /\ client' = NoOne /\ client \in Callers
              /\ cpc' = [cpc EXCEPT ![client] =
                            IF ctl[client] = "stop" THEN "polling" ELSE "idle"]
              /\ result' = [result EXCEPT ![client] =
                            IF ctl[client] = "stop" THEN "none" ELSE "true"]
          BY <3>1, <3>3 DEF HandlerReturns, TypeOK
        <4>2. ctl[client] \in Asked => called[client]
          BY <3>1, <3>3
        <4>3. ctl[client] = "stop" => over[client] \/ main \in InLoop
          BY <2>3, <3>1, <3>3
        <4> QED
          BY <3>1, <3>2, <3>3, <4>1, <4>2, <4>3, ControlAssumption DEF TypeOK, Threads
      <3>4. CASE ~(t = "disp" /\ client # NoOne)
        BY <3>1, <3>2, <3>4 DEF HandlerReturns, TypeOK, Threads
      <3> QED
        BY <3>3, <3>4
    <2> QED
      BY <1>2, <2>1, <2>2, <2>4, <2>5, <2>6 DEF ThreadStep
  <1>3. CASE StartStep
    BY <1>3 DEF StartStep, Connect, ServiceMain, Acquire, TypeOK, Threads, caller, history
  <1>4. CASE LiveMainStep
    <2>1. CASE WakeAll
      BY <2>1 DEF WakeAll, TypeOK, Threads, caller, history
    <2>2. CASE CreateApplication \/ SysInit \/ TakeEvent \/ ReportStopped \/ Delete
      BY <2>2 DEF CreateApplication, SysInit, TakeEvent, ReportStopped, Delete, caller, history
    <2>3. CASE CallService
      <3>1. /\ main = "handling" /\ main' = "waking"
            /\ UNCHANGED <<code, at, cpc, ctl, client, result, over>>
            /\ called' = IF event # "startup" /\ client # NoOne
                         THEN [called EXCEPT ![client] = TRUE] ELSE called
        BY <2>3 DEF CallService, ServiceRuns, caller
      <3>2. client # NoOne => event # "startup"
        BY <3>1 DEF TypeOK, EventInv, Awaited, Outstanding, EventOf, OrderInv,
           Signalled, Threads
      <3>3. client # NoOne => client \in Callers /\ called'[client]
        BY <3>1, <3>2 DEF TypeOK
      <3>4. \A c \in Callers : called[c] => called'[c]
        BY <3>1 DEF TypeOK
      <3> QED
        BY <3>1, <3>3, <3>4
    <2>4. CASE LeaveLoop
      <3>1. /\ main' = "left" /\ UNCHANGED <<code, at, cpc, ctl, client, result, called>>
            /\ over' = [c \in Callers |-> over[c] \/ c \in Given]
        BY <2>4 DEF LeaveLoop, caller
      <3>2. \A c \in Callers :
               over'[c] = (over[c] \/ cpc[c] \in {"served", "polling"})
        BY <3>1 DEF Given
      <3>3. client # NoOne => client \in Callers /\ over'[client]
        BY <3>2 DEF TypeOK
      <3>4. main = "loop"
        BY <2>4 DEF LeaveLoop
      <3> QED
        BY <3>1, <3>2, <3>3, <3>4
    <2> QED
      BY <1>4, <2>1, <2>2, <2>3, <2>4 DEF LiveMainStep
  <1>5. CASE EndProcess
    <2>1. /\ client' = NoOne /\ UNCHANGED <<ctl, called>>
          /\ \A c \in Callers :
                 /\ cpc'[c] = IF cpc[c] = "served" THEN "idle" ELSE cpc[c]
                 /\ result'[c] = IF cpc[c] = "served" THEN "false" ELSE result[c]
                 /\ over'[c] = (over[c] \/ cpc[c] \in {"served", "polling"})
      BY <1>5 DEF EndProcess, Given
    <2>2. ASSUME NEW c \in Callers, cpc'[c] = "idle", result'[c] = "true"
          PROVE  /\ ctl'[c] \in Asked => called'[c]
                 /\ ctl'[c] = "stop" => over'[c]
      <3>1. cpc[c] = "idle" /\ result[c] = "true"
        BY <2>1, <2>2
      <3> QED
        BY <2>1, <3>1
    <2>3. \A c \in Callers : cpc'[c] # "served" /\ c # client'
      BY <2>1, ControlAssumption
    <2>4. \A c \in Callers : cpc'[c] = "polling" => ctl'[c] = "stop" /\ over'[c]
      BY <2>1
    <2> QED
      BY <2>1, <2>2, <2>3, <2>4
  <1>6. CASE UNCHANGED vars
    BY <1>6 DEF vars
  <1> QED
    BY <1>1, <1>2, <1>3, <1>4, <1>5, <1>6, NextCases

-----------------------------------------------------------------------------
\* A shutdown is sent once.
ShutdownInv ==
    /\ \A c, d \in Callers :
           cpc[c] = "sent" /\ ctl[c] = "shutdown"
               => down /\ (cpc[d] = "sent" /\ ctl[d] = "shutdown" => c = d)
    /\ code["disp"] = "shutdown"
           => down /\ \A c \in Callers : ~(cpc[c] = "sent" /\ ctl[c] = "shutdown")

LEMMA ShutdownStep ==
    ASSUME TypeOK, ShutdownInv, [Next]_vars
    PROVE  ShutdownInv'
  <1> USE DEF ShutdownInv
  <1>1. ASSUME NEW c \in Callers, CallerStep(c) PROVE ShutdownInv'
    <2>1. CASE Deliver(c)
      BY <2>1 DEF Deliver, TypeOK, Threads
    <2>2. CASE CtlStart(c)
      BY <2>2 DEF CtlStart, TypeOK
    <2>3. ASSUME NEW m \in Controls, Send(c, m) PROVE ShutdownInv'
      BY <2>3 DEF Send, process, TypeOK
    <2>4. CASE Refuse(c) \/ Poll(c) \/ TimeOut(c)
      <3>1. cpc' = [cpc EXCEPT ![c] = "idle"] /\ UNCHANGED <<ctl, code, down>>
        BY <2>4 DEF Refuse, Poll, TimeOut, Fails, process
      <3>2. \A d \in Callers : cpc'[d] = "sent" => cpc[d] = "sent"
        BY <3>1 DEF TypeOK
      <3> QED
        BY <3>1, <3>2
    <2> QED
      BY <1>1, <2>1, <2>2, <2>3, <2>4 DEF CallerStep, ManagerStep
  <1>2. ASSUME NEW t \in Threads, ThreadStep(t) PROVE ShutdownInv'
    <2>1. CASE ReadStatus(t) \/ DeliverStatus(t)
      BY <2>1 DEF ReadStatus, DeliverStatus, HandlerReturns, TypeOK
    <2> QED
      BY <1>2, <2>1 DEF ThreadStep, Lock, SetStatus, Post, Wait, Woken, Unlock, caller
  <1>3. CASE StartStep \/ LiveMainStep
    BY <1>3 DEF StartStep, Connect, ServiceMain, Acquire, LiveMainStep, SysInit,
       CreateApplication, TakeEvent, CallService, ServiceRuns, WakeAll, LeaveLoop,
       ReportStopped, Delete, caller
  <1>4. CASE EndProcess
    BY <1>4 DEF EndProcess, Threads, TypeOK
  <1>5. CASE UNCHANGED vars
    BY <1>5 DEF vars
  <1> QED
    BY <1>1, <1>2, <1>3, <1>4, <1>5, NextCases

\* From its first report to its last, nobody else changes the status.
PendingInv ==
    ~late /\ ~quitting /\ Before(code["disp"]) # {}
    /\ at["disp"] \in {"pending", "posting", "posted", "waiting", "woken"}
        => /\ status \in Before(code["disp"])
           /\ at["disp"] # "pending" => scm = status

LEMMA PendingStep ==
    ASSUME TypeOK, OrderInv, AliveInv, PendingInv, [Next]_vars
    PROVE  PendingInv'
  <1> USE DEF PendingInv, OrderInv, Signalled, InHandler, Handling
  <1>1. ASSUME NEW c \in Callers, CallerStep(c) PROVE PendingInv'
    <2>1. CASE Deliver(c)
      BY <2>1 DEF Deliver, TypeOK, Threads
    <2>2. CASE CtlStart(c)
      BY <2>2 DEF CtlStart, history, AliveInv, TypeOK
    <2> QED
      BY <1>1, <2>1, <2>2 DEF CallerStep, ManagerStep, Send, Refuse, Poll, TimeOut,
         process, history
  <1>2. ASSUME NEW t \in Threads, ThreadStep(t) PROVE PendingInv'
    <2>1. CASE Lock(t)
      BY <2>1, LockDoes, BeforeIs DEF TypeOK, Threads, history
    <2>2. CASE SetStatus(t)
      <3>1. InHandler("disp") => scm # "STOPPED" \/ quitting
        BY DEF AliveInv, InLoop, Over, TypeOK
      <3> QED
        BY <2>2, <3>1 DEF SetStatus, Report, TypeOK, Threads, history
    <2>3. CASE Post(t) \/ Wait(t) \/ Unlock(t)
      BY <2>3 DEF Post, Wait, Unlock, TypeOK, Threads, history
    <2>4. CASE Woken(t)
      BY <2>4, WokenDoes DEF TypeOK, Threads, history
    <2>5. CASE ReadStatus(t)
      BY <2>5 DEF ReadStatus, HandlerReturns, TypeOK, Threads, history
    <2>6. CASE DeliverStatus(t)
      BY <2>6 DEF DeliverStatus, HandlerReturns, Report, TypeOK, Threads
    <2> QED
      BY <1>2, <2>1, <2>2, <2>3, <2>4, <2>5, <2>6 DEF ThreadStep
  <1>3. CASE StartStep
    BY <1>3 DEF StartStep, Connect, ServiceMain, Acquire, TypeOK, Threads, history
  <1>4. CASE LiveMainStep
    <2>1. CASE WakeAll
      BY <2>1 DEF WakeAll, TypeOK, Threads, history
    <2>2. CASE CallService
      BY <2>2 DEF CallService, ServiceRuns, TypeOK
    <2>3. CASE ReportStopped
      BY <2>3 DEF ReportStopped, Over, history
    <2> QED
      BY <1>4, <2>1, <2>2, <2>3 DEF LiveMainStep, SysInit, CreateApplication,
         TakeEvent, LeaveLoop, Delete, history
  <1>5. CASE EndProcess
    BY <1>5 DEF EndProcess, Threads
  <1>6. CASE UNCHANGED vars
    BY <1>6 DEF vars
  <1> QED
    BY <1>1, <1>2, <1>3, <1>4, <1>5, <1>6, NextCases

\* Once the loop has been told to quit, no further control is let through.
QuitInv ==
    ~late /\ quitting =>
        /\ code["disp"] \in {"stop", "shutdown"}
        /\ \/ at["disp"] \in {"woken", "unlocking", "unlocked", "delivering", "idle"}
           \/ main = "waking" /\ Outstanding("disp")
        /\ code["disp"] = "stop" => scm \in {"STOP_PENDING", "STOPPED"}
        /\ code["disp"] = "stop" /\ main \notin Over => status = "STOP_PENDING"
        /\ main \in Over => status = "STOPPED"
        /\ main \in {"stopped", "deleted"} => scm = "STOPPED"

LEMMA QuitStep ==
    ASSUME TypeOK, OrderInv, EventInv, AliveInv, ShutdownInv, PendingInv, QuitInv,
           [Next]_vars
    PROVE  QuitInv'
  <1> USE DEF QuitInv, Outstanding, Over
  <1>1. ASSUME NEW c \in Callers, CallerStep(c) PROVE QuitInv'
    <2>1. CASE Deliver(c)
      <3>1. late \/ ~quitting
        BY <2>1 DEF Deliver, Controllable, ShutdownInv
      <3> QED
        BY <2>1, <3>1 DEF Deliver, history
    <2>2. CASE CtlStart(c)
      BY <2>2 DEF CtlStart, history, AliveInv, OrderInv, Signalled, TypeOK
    <2> QED
      BY <1>1, <2>1, <2>2 DEF CallerStep, ManagerStep, Send, Refuse, Poll, TimeOut,
         process, history
  <1>2. ASSUME NEW t \in Threads, ThreadStep(t) PROVE QuitInv'
    <2>1. quitting => at["svc"] \in Signalled
      BY DEF OrderInv
    <2>2. CASE Lock(t)
      BY <2>1, <2>2, LockDoes DEF Signalled, Threads, history
    <2>3. CASE SetStatus(t)
      BY <2>1, <2>3 DEF SetStatus, Signalled, Threads, history
    <2>4. CASE Post(t)
      BY <2>1, <2>4 DEF Post, Signalled, Threads, history
    <2>5. CASE Wait(t) \/ Unlock(t)
      BY <2>5 DEF Wait, Unlock, TypeOK, Threads, history
    <2>6. CASE Woken(t)
      BY <2>1, <2>6, WokenDoes DEF Signalled, TypeOK, Threads, history
    <2>7. CASE ReadStatus(t)
      BY <2>7 DEF ReadStatus, HandlerReturns, TypeOK, Threads, history
    <2>8. CASE DeliverStatus(t)
      BY <2>8 DEF DeliverStatus, HandlerReturns, Report, TypeOK, Threads
    <2> QED
      BY <1>2, <2>2, <2>3, <2>4, <2>5, <2>6, <2>7, <2>8 DEF ThreadStep
  <1>3. CASE StartStep
    BY <1>3 DEF StartStep, Connect, ServiceMain, Acquire, TypeOK, Threads, history,
       OrderInv, Signalled
  <1>4. CASE LiveMainStep
    <2>1. CASE WakeAll
      <3>1. /\ main = "waking" /\ main' = "loop" /\ mutex = NoOne
            /\ UNCHANGED <<scm, status, code, quitting, late>>
            /\ \A t \in Threads : at'[t] = IF at[t] = "waiting" THEN "woken" ELSE at[t]
        BY <2>1 DEF WakeAll, history
      <3>2. at["disp"] # "posted"
        BY <3>1, ControlAssumption DEF TypeOK, Threads
      <3> QED
        BY <3>1, <3>2 DEF Threads
    <2>2. CASE CallService
      <3>1. /\ main = "handling" /\ main' = "waking" /\ late' = late
            /\ UNCHANGED <<scm, status, at, code>>
            /\ quitting' => quitting \/ event = "stop"
        BY <2>2 DEF CallService, ServiceRuns
      <3>2. Awaited(event)
        BY <3>1 DEF EventInv
      <3>3. event = "stop" => Outstanding("disp") /\ code["disp"] \in {"stop", "shutdown"}
        BY <3>2 DEF Awaited, EventOf, OrderInv, Threads
      <3>4. quitting => late
        BY <3>1, <3>2 DEF Awaited, OrderInv, Signalled, Threads
      <3>5. event = "stop" /\ code["disp"] = "stop" /\ ~late
                => status = "STOP_PENDING" /\ scm = "STOP_PENDING"
        BY <3>3, <3>4, BeforeIs DEF PendingInv
      <3> QED
        BY <3>1, <3>3, <3>4, <3>5
    <2>3. CASE TakeEvent
      <3>1. quitting => late
        BY <2>3 DEF TakeEvent, EventInv, Awaited, OrderInv, Signalled, Threads
      <3> QED
        BY <2>3, <3>1 DEF TakeEvent, history
    <2>4. CASE LeaveLoop \/ ReportStopped \/ Delete
      BY <2>4 DEF LeaveLoop, ReportStopped, Report, Delete, history
    <2>5. CASE SysInit \/ CreateApplication
      BY <2>5 DEF SysInit, CreateApplication, history, TypeOK, AliveInv, OrderInv, Signalled
    <2> QED
      BY <1>4, <2>1, <2>2, <2>3, <2>4, <2>5 DEF LiveMainStep
  <1>5. CASE EndProcess
    BY <1>5 DEF EndProcess
  <1>6. CASE UNCHANGED vars
    BY <1>6 DEF vars
  <1> QED
    BY <1>1, <1>2, <1>3, <1>4, <1>5, <1>6, NextCases

\* What is reported next agrees with what the service was told.
PauseInv ==
    ~late =>
        /\ ReportsAgree
        /\ status = "PAUSED" => paused
        /\ status = "RUNNING" => ~paused
        /\ main = "waking" /\ event = "pause" => paused
        /\ main = "waking" /\ event = "continue" => ~paused
        /\ at["svc"] \notin Signalled => ~paused
        /\ at["disp"] = "woken" /\ code["disp"] = "pause" => paused
        /\ at["disp"] = "woken" /\ code["disp"] = "continue" => ~paused

LEMMA PauseStep ==
    ASSUME TypeOK, OrderInv, EventInv, AliveInv, PendingInv, QuitInv, PauseInv,
           [Next]_vars
    PROVE  PauseInv'
  <1> USE DEF PauseInv, ReportsAgree, Signalled
  <1>1. ASSUME NEW c \in Callers, CallerStep(c) PROVE PauseInv'
    <2>1. CASE Deliver(c)
      BY <2>1 DEF Deliver, TypeOK, Threads, history
    <2>2. CASE CtlStart(c)
      BY <2>2 DEF CtlStart, TypeOK, history
    <2> QED
      BY <1>1, <2>1, <2>2 DEF CallerStep, ManagerStep, Send, Refuse, Poll, TimeOut,
         process, history
  <1>2. ASSUME NEW t \in Threads, ThreadStep(t) PROVE PauseInv'
    <2>1. CASE Lock(t)
      BY <2>1, LockDoes, BeforeIs DEF TypeOK, Threads, history
    <2>2. CASE SetStatus(t)
      BY <2>2 DEF SetStatus, Report, TypeOK, Threads, history
    <2>3. CASE Post(t) \/ Wait(t) \/ Unlock(t)
      BY <2>3 DEF Post, Wait, Unlock, TypeOK, Threads, history
    <2>4. CASE Woken(t)
      <3>1. /\ at[t] = "woken" /\ at' = [at EXCEPT ![t] = at'[t]]
            /\ at'[t] \in {"reporting", "unlocking"}
            /\ UNCHANGED <<scm, main, event, code, paused, late>>
        BY <2>4, WokenDoes DEF history
      <3>2. CASE t = "svc"
        <4>1. status' = "RUNNING" /\ at["disp"] = at'["disp"]
          BY <2>4, <3>1, <3>2, WokenDoes DEF OrderInv, TypeOK, Threads
        <4>2. ~late => ~paused
          BY <3>1, <3>2
        <4> QED
          BY <3>1, <4>1, <4>2
      <3>3. CASE t = "disp"
        <4>1. code["disp"] # "startup" /\ at["svc"] = at'["svc"]
              /\ at'["disp"] # "woken" /\ at["svc"] \in Signalled
          BY <3>1, <3>3 DEF OrderInv, InHandler, Handling, TypeOK, Threads
        <4>2. \/ code["disp"] = "continue" /\ status' = "RUNNING"
              \/ code["disp"] = "pause" /\ status' = "PAUSED"
              \/ status' = status
          BY <2>4, <3>3, <4>1, WokenDoes
        <4> QED
          BY <3>1, <3>3, <4>1, <4>2
      <3> QED
        BY <3>2, <3>3 DEF Threads
    <2>5. CASE ReadStatus(t)
      BY <2>5 DEF ReadStatus, HandlerReturns, TypeOK, Threads, history
    <2>6. CASE DeliverStatus(t)
      BY <2>6 DEF DeliverStatus, HandlerReturns, Report, TypeOK, Threads
    <2> QED
      BY <1>2, <2>1, <2>2, <2>3, <2>4, <2>5, <2>6 DEF ThreadStep
  <1>3. CASE StartStep
    BY <1>3 DEF StartStep, Connect, ServiceMain, Acquire, TypeOK, Threads, history
  <1>4. CASE LiveMainStep
    <2>1. CASE WakeAll
      <3>1. Awaited(event)
        BY <2>1 DEF WakeAll, EventInv
      <3>2. at["disp"] = "waiting" /\ code["disp"] \in {"pause", "continue"}
                => event = code["disp"]
        BY <3>1 DEF Awaited, Outstanding, EventOf, OrderInv, InHandler, Handling, Threads
      <3>3. /\ main = "waking" /\ main' = "loop"
            /\ UNCHANGED <<scm, status, code, paused, late>>
            /\ \A t \in Threads : at'[t] = IF at[t] = "waiting" THEN "woken" ELSE at[t]
        BY <2>1 DEF WakeAll, history
      <3> QED
        BY <3>2, <3>3 DEF TypeOK, Threads
    <2>2. CASE CallService
      <3>1. /\ main = "handling" /\ main' = "waking"
            /\ UNCHANGED <<scm, status, at, code, event, late>>
            /\ paused' = (event = "pause" \/ (paused /\ event # "continue"))
        BY <2>2 DEF CallService, ServiceRuns
      <3>2. Awaited(event)
        BY <3>1 DEF EventInv
      <3>3. quitting => late
        BY <3>1, <3>2 DEF Awaited, Outstanding, OrderInv, QuitInv, Threads
      <3>4. event \in {"pause", "continue"} => Outstanding("disp") /\ code["disp"] = event
        BY <3>2 DEF Awaited, EventOf, OrderInv, Threads
      <3>5. event = "pause" /\ ~late => scm = "PAUSE_PENDING" /\ status = "PAUSE_PENDING"
        BY <3>3, <3>4, BeforeIs DEF PendingInv, Outstanding
      <3>6. event = "continue" /\ ~late
                => scm = "CONTINUE_PENDING" /\ status = "CONTINUE_PENDING"
        BY <3>3, <3>4, BeforeIs DEF PendingInv, Outstanding
      <3>7. Outstanding("disp") => at["svc"] \in Signalled /\ at["disp"] # "woken"
        BY DEF Outstanding, OrderInv, InHandler, Handling
      <3>8. at["disp"] = "woken" => at["svc"] \in Signalled
        BY DEF OrderInv, InHandler, Handling
      <3>9. at["disp"] # "woken"
        BY <3>2, <3>7, <3>8 DEF Awaited, Outstanding, Threads
      <3> QED
        BY <3>1, <3>4, <3>5, <3>6, <3>7, <3>9
    <2>3. CASE TakeEvent \/ SysInit \/ CreateApplication
      BY <2>3 DEF TakeEvent, SysInit, CreateApplication, history
    <2>4. CASE LeaveLoop \/ ReportStopped \/ Delete
      BY <2>4 DEF LeaveLoop, ReportStopped, Report, Delete, history
    <2> QED
      BY <1>4, <2>1, <2>2, <2>3, <2>4 DEF LiveMainStep
  <1>5. CASE EndProcess
    BY <1>5 DEF EndProcess, Threads
  <1>6. CASE UNCHANGED vars
    BY <1>6 DEF vars
  <1> QED
    BY <1>1, <1>2, <1>3, <1>4, <1>5, <1>6, NextCases

-----------------------------------------------------------------------------
LEMMA WakeStep ==
    ASSUME TypeOK, OrderInv, EventInv, AliveInv, QuitInv, NoLostWakeUp, [Next]_vars
    PROVE  NoLostWakeUp'
  <1> USE DEF NoLostWakeUp
  <1>1. ASSUME NEW c \in Callers, CallerStep(c) PROVE NoLostWakeUp'
    <2>1. CASE Deliver(c)
      <3>1. /\ at' = [at EXCEPT !["disp"] = "entered"] /\ code' = [code EXCEPT !["disp"] = ctl[c]]
            /\ UNCHANGED <<main, event, events, late>>
        BY <2>1 DEF Deliver, history
      <3> QED
        BY <3>1 DEF TypeOK, Threads
    <2>2. CASE CtlStart(c)
      BY <2>2 DEF CtlStart, history, TypeOK, AliveInv, Threads
    <2> QED
      BY <1>1, <2>1, <2>2 DEF CallerStep, ManagerStep, Send, Refuse, Poll, TimeOut,
         process, history
  <1>2. ASSUME NEW t \in Threads, ThreadStep(t) PROVE NoLostWakeUp'
    <2>1. CASE Lock(t)
      BY <2>1, LockDoes DEF TypeOK, history
    <2>2. CASE Post(t)
      <3>1. /\ at' = [at EXCEPT ![t] = "posted"] /\ at[t] = "posting"
            /\ events' = IF HandlerExists THEN Posted(t) ELSE events
            /\ UNCHANGED <<code, main, event, late>>
        BY <2>2 DEF Post, history
      <3>2. \A u \in Threads : u # t => at'[u] = at[u] /\ at[u] \notin {"posted", "waiting"}
        BY <3>1 DEF TypeOK, OrderInv, InHandler, Handling, Signalled, Threads
      <3>3. events = <<>> /\ main \notin {"handling", "waking"}
        BY <3>1, <3>2 DEF EventInv, Awaited, Outstanding
      <3>4. main \in InLoop \/ main \in Over
        BY <3>1 DEF TypeOK, AliveInv, OrderInv, InHandler, Handling, Signalled, InLoop,
           Over, Threads
      <3>5. late \/ main \notin Over
        <4>1. main \in Over => quitting /\ at["svc"] \in Signalled
          BY DEF OrderInv
        <4>2. main \in Over => t = "disp"
          BY <4>1, <3>1 DEF Signalled, Threads
        <4> QED
          BY <4>1, <4>2, <3>1, <3>3 DEF QuitInv
      <3>6. late \/ (main = "loop" /\ events' = Posted(t))
        BY <3>1, <3>3, <3>4, <3>5 DEF InLoop, HandlerExists
      <3>7. Posted(t) = <<IF code[t] = "shutdown" THEN "stop" ELSE code[t]>>
        BY <3>3 DEF Posted, TypeOK
      <3> QED
        BY <3>1, <3>2, <3>6, <3>7
    <2>3. CASE Woken(t)
      BY <2>3, WokenDoes DEF TypeOK, history
    <2>4. CASE SetStatus(t) \/ Wait(t) \/ Unlock(t)
      BY <2>4 DEF SetStatus, Wait, Unlock, TypeOK, history
    <2>5. CASE ReadStatus(t) \/ DeliverStatus(t)
      BY <2>5 DEF ReadStatus, DeliverStatus, HandlerReturns, TypeOK, history
    <2> QED
      BY <1>2, <2>1, <2>2, <2>3, <2>4, <2>5 DEF ThreadStep
  <1>3. CASE StartStep
    BY <1>3 DEF StartStep, Connect, ServiceMain, Acquire, TypeOK, Threads, history
  <1>4. CASE LiveMainStep
    <2>1. CASE WakeAll
      <3>1. mutex = NoOne
            /\ \A t \in Threads : at'[t] = IF at[t] = "waiting" THEN "woken" ELSE at[t]
        BY <2>1 DEF WakeAll
      <3>2. \A t \in Threads : at[t] # "posted"
        BY <3>1, ControlAssumption DEF TypeOK
      <3> QED
        BY <3>1, <3>2
    <2>2. CASE TakeEvent
      <3>1. /\ main = "loop" /\ main' = "handling" /\ event' = Head(events)
            /\ UNCHANGED <<at, code, late>>
        BY <2>2 DEF TakeEvent, history
      <3>2. \A e : events = <<e>> => Head(events) = e
        OBVIOUS
      <3> QED
        BY <3>1, <3>2
    <2>3. CASE CallService
      BY <2>3 DEF CallService, ServiceRuns
    <2>4. CASE LeaveLoop
      <3>1. main = "loop" /\ quitting /\ UNCHANGED <<at, late>>
        BY <2>4 DEF LeaveLoop
      <3>2. ~late => \A t \in Threads : at[t] \notin {"posted", "waiting"}
        BY <3>1 DEF QuitInv, OrderInv, Signalled, Threads
      <3> QED
        BY <3>1, <3>2
    <2>5. CASE SysInit \/ CreateApplication
      BY <2>5 DEF SysInit, CreateApplication, history
    <2>6. CASE ReportStopped \/ Delete
      BY <2>6 DEF ReportStopped, Delete, history
    <2> QED
      BY <1>4, <2>1, <2>2, <2>3, <2>4, <2>5, <2>6 DEF LiveMainStep
  <1>5. CASE EndProcess
    BY <1>5 DEF EndProcess, Threads
  <1>6. CASE UNCHANGED vars
    BY <1>6 DEF vars
  <1> QED
    BY <1>1, <1>2, <1>3, <1>4, <1>5, <1>6, NextCases

\* What the service was told, before start() has returned and once the loop has
\* handled a stop.
ToldInv ==
    /\ ~started => ~late /\ ~paused
    /\ main \in {"none", "launched", "waitArgs"} => ~started
    /\ main = "waking" /\ event = "stop" => quitting

LEMMA ToldStep ==
    ASSUME TypeOK, StartInv, ToldInv, [Next]_vars
    PROVE  ToldInv'
  <1> USE DEF ToldInv
  <1>1. ASSUME NEW c \in Callers, CallerStep(c) PROVE ToldInv'
    <2>1. CASE CtlStart(c)
      BY <2>1 DEF CtlStart, history, TypeOK
    <2> QED
      BY <1>1, <2>1 DEF CallerStep, ManagerStep, Deliver, Send, Refuse, Poll, TimeOut,
         process, history
  <1>2. ASSUME NEW t \in Threads, ThreadStep(t) PROVE ToldInv'
    <2>1. CASE DeliverStatus(t)
      <3>1. started
        BY <2>1 DEF DeliverStatus, StartInv, Starting, Threads
      <3> QED
        BY <2>1, <3>1 DEF DeliverStatus
    <2> QED
      BY <1>2, <2>1 DEF ThreadStep, Lock, SetStatus, Post, Wait, Woken, Unlock,
         ReadStatus, history
  <1>3. CASE StartStep
    BY <1>3 DEF StartStep, Connect, ServiceMain, Acquire, history
  <1>4. CASE LiveMainStep
    <2>1. CASE CallService
      <3>1. ~started => event = "startup"
        BY <2>1 DEF CallService, StartInv, Starting
      <3>2. /\ started' = (started \/ event = "startup")
            /\ quitting' = (quitting \/ event = "stop")
            /\ main' = "waking" /\ UNCHANGED <<event, late>>
        BY <2>1 DEF CallService, ServiceRuns
      <3> QED
        BY <3>1, <3>2
    <2>2. CASE CreateApplication \/ SysInit \/ TakeEvent \/ WakeAll
      BY <2>2 DEF CreateApplication, SysInit, TakeEvent, WakeAll, history
    <2>3. CASE LeaveLoop \/ ReportStopped \/ Delete
      BY <2>3 DEF LeaveLoop, ReportStopped, Delete, history
    <2> QED
      BY <1>4, <2>1, <2>2, <2>3 DEF LiveMainStep
  <1>5. CASE EndProcess
    BY <1>5 DEF EndProcess
  <1>6. CASE UNCHANGED vars
    BY <1>6 DEF vars
  <1> QED
    BY <1>1, <1>2, <1>3, <1>4, <1>5, <1>6, NextCases

\* Where the dispatcher is between two pairs of reports.
Settled == {"idle", "entered", "unlocking", "unlocked", "delivering"}

Active == {"RUNNING", "PAUSED"}

\* What the manager shows, and the structure holds, of a service that was started
\* and not stopped, wherever the dispatcher is in handler().
InOrder ==
    /\ at["disp"] \in Settled => scm = status /\ scm \in Active
    /\ at["disp"] = "pending" => status \in Before(code["disp"])
                                 /\ scm \in Active \cup {status}
    /\ at["disp"] \in {"posting", "posted", "waiting", "woken"}
       /\ Before(code["disp"]) = {} => scm = status /\ scm \in Active
    /\ at["disp"] = "woken" => code["disp"] \notin {"stop", "shutdown"}
    /\ at["disp"] = "reporting" => status \in After(code["disp"])
                                   /\ scm \in Before(code["disp"]) \cup {status}

ShownInv ==
    ~late =>
        /\ ~quitting /\ at["svc"] \in Signalled => InOrder
        /\ quitting /\ code["disp"] = "shutdown" /\ main \notin Over
               => scm = status /\ scm \in Active
        /\ main = "left" => scm \in Active \cup {"STOP_PENDING", "STOPPED"}

\* While the loop runs, and before it is told to quit, the service is not stopped.
LEMMA RunningLoop ==
    ASSUME TypeOK, OrderInv, AliveInv, ~quitting, at["svc"] \in Signalled
    PROVE  main \in InLoop /\ scm # "STOPPED"
  BY DEF TypeOK, OrderInv, AliveInv, InLoop, Over, Signalled

LEMMA ShownStep ==
    ASSUME TypeOK, StartInv, OrderInv, EventInv, AliveInv, ShutdownInv, PendingInv,
           QuitInv, ToldInv, ShownInv, [Next]_vars
    PROVE  ShownInv'
  <1> USE DEF ShownInv
  <1>1. ASSUME NEW c \in Callers, CallerStep(c) PROVE ShownInv'
    <2>1. CASE Deliver(c)
      <3>1. late \/ ~quitting
        BY <2>1 DEF Deliver, Controllable, ShutdownInv, QuitInv
      <3>2. /\ at' = [at EXCEPT !["disp"] = "entered"] /\ at["disp"] = "idle"
            /\ UNCHANGED <<scm, status, main, quitting, late>>
        BY <2>1 DEF Deliver, history
      <3>3. at'["disp"] = "entered" /\ at'["svc"] = at["svc"]
        BY <3>2 DEF TypeOK, Threads
      <3>4. InOrder => InOrder'
        BY <3>2, <3>3 DEF InOrder, Settled
      <3>5. main = "left" => quitting
        BY DEF OrderInv, Over
      <3> QED
        BY <3>1, <3>2, <3>3, <3>4, <3>5
    <2>2. CASE CtlStart(c)
      <3>1. main = "none" => ~quitting /\ at["svc"] \notin Signalled
        BY DEF AliveInv, OrderInv, Signalled
      <3>2. /\ UNCHANGED <<status, quitting, at, code, late>>
            /\ \/ main = "none" /\ main' = "launched"
               \/ UNCHANGED <<scm, main>>
        BY <2>2 DEF CtlStart, history
      <3> QED
        BY <3>1, <3>2 DEF InOrder
    <2>3. CASE UNCHANGED <<scm, status, main, quitting, at, code, late>>
      BY <2>3 DEF InOrder
    <2> QED
      BY <1>1, <2>1, <2>2, <2>3 DEF CallerStep, ManagerStep, Send, Refuse, Poll,
         TimeOut, process, history
  <1>2. ASSUME NEW t \in Threads, ThreadStep(t) PROVE ShownInv'
    <2>0. UNCHANGED <<main, quitting, code>> /\ (late => late')
      <3>1. CASE DeliverStatus(t)
        BY <3>1 DEF DeliverStatus
      <3>2. CASE Lock(t) \/ SetStatus(t) \/ Post(t) \/ Wait(t)
        BY <3>2 DEF Lock, SetStatus, Post, Wait, history
      <3>3. CASE Woken(t) \/ Unlock(t) \/ ReadStatus(t)
        BY <3>3 DEF Woken, Unlock, ReadStatus, history
      <3> QED
        BY <1>2, <3>1, <3>2, <3>3 DEF ThreadStep
    <2>1. CASE Lock(t)
      <3>1. scm' = scm /\ at[t] = "entered" /\ at' = [at EXCEPT ![t] = at'[t]]
        BY <2>1, LockDoes
      <3>2. ~late /\ quitting => t \notin {"svc", "disp"}
        BY <3>1 DEF QuitInv, OrderInv, Outstanding, Signalled
      <3>3. CASE t = "svc"
        BY <2>0, <2>1, <3>1, <3>2, <3>3, LockDoes DEF Signalled, TypeOK, OrderInv, Over
      <3>4. CASE t = "disp"
        <4>1. at'["svc"] = at["svc"]
          BY <3>1, <3>4 DEF TypeOK, Threads
        <4>2. \/ at'["disp"] = "pending" /\ status' \in Before(code["disp"])
              \/ /\ at'["disp"] = "posting" /\ status' = status
                 /\ code["disp"] \in {"user", "shutdown"}
              \/ at'["disp"] = "unlocking" /\ status' = status
          BY <2>1, <3>4, LockDoes
        <4>3. InOrder => InOrder'
          BY <2>0, <3>1, <3>4, <4>2 DEF InOrder, Settled
        <4>4. main = "left" => quitting
          BY DEF OrderInv, Over
        <4> QED
          BY <2>0, <3>1, <3>2, <3>4, <4>1, <4>3, <4>4
      <3> QED
        BY <3>3, <3>4 DEF Threads
    <2>2. CASE SetStatus(t)
      <3>1. /\ scm' = IF scm = "STOPPED" THEN scm ELSE status
            /\ at[t] \in {"pending", "reporting"} /\ UNCHANGED <<status, late>>
            /\ at' = [at EXCEPT ![t] = IF at[t] = "pending" THEN "posting" ELSE "unlocking"]
        BY <2>2 DEF SetStatus, Report, history
      <3>2. ~late /\ quitting => t \notin {"svc", "disp"}
        BY <3>1 DEF QuitInv, OrderInv, Outstanding, Signalled
      <3>3. main = "left" => quitting
        BY DEF OrderInv, Over
      <3>4. CASE t = "svc"
        <4>1. at'["disp"] = at["disp"] /\ at'["svc"] \in {"posting", "unlocking"}
          BY <3>1, <3>4 DEF TypeOK, Threads
        <4>2. ~InHandler("disp")
          BY <3>1, <3>4 DEF OrderInv, Signalled
        <4>3. at'["svc"] \in Signalled => at["svc"] = "reporting"
          BY <3>1, <3>4 DEF TypeOK, Threads, Signalled
        <4>4. at["svc"] = "reporting" /\ ~quitting => status = "RUNNING" /\ scm # "STOPPED"
          BY DEF OrderInv, AliveInv, TypeOK, InLoop, Over
        <4>5. at["svc"] = "reporting" /\ ~quitting => InOrder'
          BY <3>1, <4>1, <4>2, <4>4 DEF InOrder, InHandler, Handling, Active
        <4> QED
          BY <2>0, <3>1, <3>2, <3>3, <3>4, <4>3, <4>5
      <3>5. CASE t = "disp"
        <4>1. at'["svc"] = at["svc"]
          BY <3>1, <3>5 DEF TypeOK, Threads
        <4>2. ~quitting /\ at["svc"] \in Signalled => scm # "STOPPED" /\ scm' = status
          BY <3>1, RunningLoop
        <4>3. \/ at["disp"] = "pending" /\ at'["disp"] = "posting"
              \/ at["disp"] = "reporting" /\ at'["disp"] = "unlocking"
          BY <3>1, <3>5 DEF TypeOK, Threads
        <4>4. After(code["disp"]) \subseteq Active
          BY DEF After, Active
        <4>5. scm' = status /\ InOrder => InOrder'
          BY <2>0, <3>1, <4>3, <4>4 DEF InOrder, Settled
        <4> QED
          BY <2>0, <3>1, <3>2, <3>3, <3>5, <4>1, <4>2, <4>5
      <3> QED
        BY <3>4, <3>5 DEF Threads
    <2>3. CASE Post(t) \/ Wait(t)
      <3>1. /\ \/ at[t] = "posting" /\ at'[t] = "posted"
               \/ at[t] = "posted" /\ at'[t] = "waiting"
            /\ at' = [at EXCEPT ![t] = at'[t]]
            /\ UNCHANGED <<scm, status, late>>
        BY <2>3 DEF Post, Wait, TypeOK, history
      <3>2. CASE t = "svc"
        BY <2>0, <3>1, <3>2 DEF Signalled
      <3>3. CASE t = "disp"
        <4>1. at'["svc"] = at["svc"]
          BY <3>1, <3>3 DEF TypeOK, Threads
        <4>2. InOrder => InOrder'
          BY <2>0, <3>1, <3>3 DEF InOrder, Settled
        <4> QED
          BY <2>0, <3>1, <4>1, <4>2
      <3> QED
        BY <3>2, <3>3 DEF Threads
    <2>4. CASE Woken(t)
      <3>1. /\ at[t] = "woken" /\ at' = [at EXCEPT ![t] = at'[t]]
            /\ at'[t] \in {"reporting", "unlocking"}
            /\ UNCHANGED <<scm, late>>
        BY <2>4, WokenDoes DEF history
      <3>2. CASE t = "svc"
        <4>1. at'["svc"] = "reporting" /\ at["svc"] = "woken"
          BY <2>4, <3>1, <3>2, WokenDoes DEF OrderInv
        <4>2. ~quitting
          BY <4>1 DEF OrderInv, Signalled
        <4>3. main # "left"
          BY <4>2 DEF OrderInv, Over
        <4> QED
          BY <2>0, <4>1, <4>2, <4>3 DEF Signalled
      <3>3. CASE t = "disp"
        <4>1. at'["svc"] = at["svc"]
          BY <3>1, <3>3 DEF TypeOK, Threads
        <4>2. \/ /\ code["disp"] \in {"startup", "continue"}
                 /\ at'["disp"] = "reporting" /\ status' = "RUNNING"
              \/ /\ code["disp"] = "pause"
                 /\ at'["disp"] = "reporting" /\ status' = "PAUSED"
              \/ /\ code["disp"] \in {"stop", "user", "interrogate", "shutdown"}
                 /\ at'["disp"] = "unlocking" /\ status' = status
          BY <2>4, <3>3, WokenDoes
        <4>3. code["disp"] # "startup"
          BY <3>1, <3>3 DEF OrderInv, InHandler, Handling
        <4>4. ~late /\ ~quitting /\ InOrder => InOrder'
          <5>1. CASE code["disp"] \in {"continue", "pause"}
            <6>1. at'["disp"] = "reporting" /\ status' \in After(code["disp"])
              BY <4>2, <5>1, AfterIs
            <6>2. Before(code["disp"]) # {}
              BY <5>1, BeforeIs
            <6>3. ~late /\ ~quitting => scm \in Before(code["disp"])
              BY <3>1, <3>3, <6>2 DEF PendingInv
            <6> QED
              BY <2>0, <3>1, <6>1, <6>3 DEF InOrder, Settled
          <5>2. CASE code["disp"] \in {"user", "interrogate"}
            <6>1. Before(code["disp"]) = {} /\ at'["disp"] = "unlocking" /\ status' = status
              BY <4>2, <5>2, BeforeIs
            <6> QED
              BY <2>0, <3>1, <3>3, <6>1 DEF InOrder, Settled
          <5>3. CASE code["disp"] \in {"stop", "shutdown"}
            BY <3>1, <3>3, <5>3 DEF InOrder
          <5> QED
            BY <4>2, <4>3, <5>1, <5>2, <5>3
        <4>5. code["disp"] = "shutdown" => status' = status
          BY <4>2
        <4> QED
          BY <2>0, <3>1, <4>1, <4>4, <4>5
      <3> QED
        BY <3>2, <3>3 DEF Threads
    <2>5. CASE Unlock(t) \/ ReadStatus(t)
      <3>1. /\ at[t] \in {"unlocking", "unlocked"}
            /\ at'[t] \in {"unlocked", "delivering", "idle"}
            /\ at' = [at EXCEPT ![t] = at'[t]]
            /\ UNCHANGED <<scm, status, late>>
        BY <2>5 DEF Unlock, ReadStatus, HandlerReturns, TypeOK, history
      <3>2. at'["svc"] \in Signalled => at["svc"] \in Signalled
        BY <3>1 DEF TypeOK, Threads, Signalled
      <3>3. InOrder => InOrder'
        BY <2>0, <3>1 DEF InOrder, Settled, TypeOK, Threads
      <3> QED
        BY <2>0, <3>1, <3>2, <3>3
    <2>6. CASE DeliverStatus(t)
      <3>1. /\ at[t] = "delivering" /\ at' = [at EXCEPT ![t] = "idle"]
            /\ scm' = IF scm = "STOPPED" THEN scm ELSE saved[t]
            /\ late' = (late \/ (scm # "STOPPED" /\ saved[t] \notin {status, scm}))
            /\ status' = status
        BY <2>6 DEF DeliverStatus, HandlerReturns, Report
      <3>2. at'["svc"] \in Signalled => at["svc"] \in Signalled
        BY <3>1 DEF TypeOK, Threads, Signalled
      <3>3. ~late' => scm' = status \/ scm' = scm
        BY <3>1
      <3>4. scm' \in {status, scm} /\ InOrder => InOrder'
        BY <2>0, <3>1 DEF InOrder, Settled, TypeOK, Threads
      <3>5. ~quitting /\ at["svc"] \in Signalled => scm # "STOPPED"
        BY RunningLoop
      <3>6. ~late /\ main = "left" => status = "STOPPED"
        BY DEF QuitInv, OrderInv, Over
      <3> QED
        BY <2>0, <3>1, <3>2, <3>3, <3>4, <3>5, <3>6
    <2> QED
      BY <1>2, <2>1, <2>2, <2>3, <2>4, <2>5, <2>6 DEF ThreadStep
  <1>3. CASE StartStep
    <2>1. UNCHANGED <<scm, status, main, quitting, code, late>>
      BY <1>3 DEF StartStep, Connect, ServiceMain, Acquire, history
    <2>2. at'["svc"] \notin Signalled
      BY <1>3 DEF StartStep, Connect, ServiceMain, Acquire, TypeOK, Threads, Signalled
    <2> QED
      BY <2>1, <2>2
  <1>4. CASE LiveMainStep
    <2>1. CASE WakeAll
      <3>1. /\ main = "waking" /\ main' = "loop" /\ mutex = NoOne
            /\ UNCHANGED <<scm, status, code, quitting, late>>
            /\ \A t \in Threads : at'[t] = IF at[t] = "waiting" THEN "woken" ELSE at[t]
        BY <2>1 DEF WakeAll, history
      <3>2. at'["svc"] \in Signalled => at["svc"] = at'["svc"]
        BY <3>1 DEF Threads, Signalled
      <3>3. Awaited(event)
        BY <3>1 DEF EventInv
      <3>4. at["disp"] = "waiting" /\ code["disp"] \in {"stop", "shutdown"} => quitting
        BY <3>1, <3>3 DEF Awaited, Outstanding, EventOf, OrderInv, InHandler, Handling,
           Signalled, ToldInv, Threads
      <3>5. at["svc"] \in Signalled => at["disp"] \in {"posted", "waiting"}
        BY <3>3 DEF Awaited, Outstanding, Signalled, Threads
      <3>6. at["disp"] # "posted"
        BY <3>1, ControlAssumption DEF TypeOK, Threads
      <3>7. at["svc"] \in Signalled /\ ~quitting /\ InOrder => InOrder'
        BY <3>1, <3>4, <3>5, <3>6 DEF InOrder, Settled, Threads
      <3> QED
        BY <3>1, <3>2, <3>7 DEF Over
    <2>2. CASE CallService
      <3>1. /\ main = "handling" /\ main' = "waking"
            /\ UNCHANGED <<scm, status, at, code, late>>
            /\ quitting' = (quitting \/ event = "stop")
        BY <2>2 DEF CallService, ServiceRuns
      <3>2. Awaited(event)
        BY <3>1 DEF EventInv
      <3>3. ~quitting /\ quitting' => Outstanding("disp") /\ at["svc"] \in Signalled
        BY <3>1, <3>2 DEF Awaited, EventOf, Outstanding, OrderInv, InHandler, Handling,
           Threads
      <3>4. ~quitting /\ quitting' /\ ~late /\ code["disp"] = "shutdown"
                => scm = status /\ scm \in Active
        BY <3>3, BeforeIs DEF InOrder, Outstanding
      <3>5. InOrder => InOrder'
        BY <3>1 DEF InOrder
      <3> QED
        BY <3>1, <3>4, <3>5 DEF Over
    <2>3. CASE LeaveLoop
      <3>1. /\ main = "loop" /\ quitting /\ main' = "left"
            /\ UNCHANGED <<scm, quitting, at, code, late>>
        BY <2>3 DEF LeaveLoop
      <3>2. ~late => scm \in Active \cup {"STOP_PENDING", "STOPPED"}
        BY <3>1 DEF QuitInv, Over
      <3> QED
        BY <3>1, <3>2 DEF Over
    <2>4. CASE ReportStopped \/ Delete
      <3>1. main \in Over /\ main' \in {"stopped", "deleted"}
            /\ UNCHANGED <<quitting, late>>
        BY <2>4 DEF ReportStopped, Delete, Over, history
      <3>2. quitting
        BY <3>1 DEF OrderInv
      <3> QED
        BY <3>1, <3>2 DEF Over
    <2>5. CASE SysInit \/ CreateApplication \/ TakeEvent
      <3>1. UNCHANGED <<scm, status, quitting, at, code, late>>
            /\ main \notin Over /\ main' \notin Over
        BY <2>5 DEF SysInit, CreateApplication, TakeEvent, history, Over
      <3>2. InOrder => InOrder'
        BY <3>1 DEF InOrder
      <3> QED
        BY <3>1, <3>2 DEF Over
    <2> QED
      BY <1>4, <2>1, <2>2, <2>3, <2>4, <2>5 DEF LiveMainStep
  <1>5. CASE EndProcess
    BY <1>5 DEF EndProcess, Threads, Signalled
  <1>6. CASE UNCHANGED vars
    BY <1>6 DEF vars, InOrder
  <1> QED
    BY <1>1, <1>2, <1>3, <1>4, <1>5, <1>6, NextCases

-----------------------------------------------------------------------------
IInv ==
    /\ TypeOK /\ StartInv /\ OrderInv /\ EventInv /\ AliveInv
    /\ AnswerInv /\ ShutdownInv /\ PendingInv /\ QuitInv /\ PauseInv
    /\ NoLostWakeUp /\ ToldInv /\ ShownInv

LEMMA InitIInv == Init => IInv
  <1> SUFFICES ASSUME Init PROVE IInv
    OBVIOUS
  <1>1. TypeOK
    BY InitTypeOK
  <1>2. StartInv /\ OrderInv /\ EventInv
    BY DEF Init, StartInv, Starting, OrderInv, EventInv, Threads, InHandler, Handling,
       Over
  <1>3. AliveInv /\ ShutdownInv /\ PendingInv /\ QuitInv
    BY DEF Init, AliveInv, InLoop, ShutdownInv, PendingInv, QuitInv, Threads
  <1>4. AnswerInv
    BY ControlAssumption DEF Init, AnswerInv, AnswersAreHonest, InLoop, Over, Threads
  <1>5. PauseInv
    BY DEF Init, PauseInv, ReportsAgree, Threads
  <1>6. NoLostWakeUp /\ ToldInv /\ ShownInv
    BY DEF Init, NoLostWakeUp, ToldInv, ShownInv, Signalled, Threads
  <1> QED
    BY <1>1, <1>2, <1>3, <1>4, <1>5, <1>6 DEF IInv

LEMMA NextIInv == IInv /\ [Next]_vars => IInv'
  BY NextType, NextStartInv, OrderStep, EventStep, AliveStep, AnswerStep, ShutdownStep,
     PendingStep, QuitStep, PauseStep, WakeStep, ToldStep, ShownStep DEF IInv

\* The conjunction of the invariants above holds of every reachable state.
LEMMA SpecIInv == Spec => []IInv
  BY InitIInv, NextIInv, PTL DEF Spec

\* A control that is reported as done was handled by the function of the service,
\* and a stop that is reported as done ended the loop it reached.
THEOREM SpecAnswersAreHonest == Spec => []AnswersAreHonest
  <1>1. IInv => AnswersAreHonest
    BY DEF IInv, AnswerInv
  <1> QED
    BY <1>1, SpecIInv, PTL

\* What the manager shows agrees with what the service was told last, unless a
\* report overtook a newer one.
THEOREM SpecReportsAgree == Spec => []ReportsAgree
  <1>1. IInv => ReportsAgree
    BY DEF IInv, PauseInv, ReportsAgree
  <1> QED
    BY <1>1, SpecIInv, PTL

-----------------------------------------------------------------------------
(***************************************************************************)
(* The refinement: every step is a step of ServiceContract or leaves what  *)
(* it speaks of alone.                                                     *)
(***************************************************************************)
\* The two reports of handler() for a control, made by whichever thread reads the
\* structure first.
LEMMA ControlReport ==
    ASSUME IInv, ~late, ~quitting, at["svc"] \in Signalled,
           at["disp"] \in {"pending", "reporting"}, scm' = status,
           UNCHANGED <<started, quitting, paused, late>>
    PROVE  [Contract!Next]_(Contract!vars)
  <1>1. InOrder /\ code["disp"] # "startup" /\ code["disp"] \in Codes
    BY DEF IInv, ShownInv, OrderInv, InHandler, Handling, TypeOK, Threads
  <1>2. started
    BY DEF IInv, StartInv, Starting, Signalled
  <1>3. Told' = Told /\ Told = IF paused THEN "paused" ELSE "running"
    BY <1>2 DEF Told
  <1>4. CASE at["disp"] = "pending"
    <2>1. status \in {"STOP_PENDING", "PAUSE_PENDING", "CONTINUE_PENDING"}
          /\ scm \in Active \cup {status}
      BY <1>1, <1>4, BeforeIs DEF InOrder, Codes
    <2>2. CASE scm = status
      BY <1>3, <2>2 DEF Contract!vars
    <2>3. CASE scm \in Active
      BY <1>3, <2>1, <2>3 DEF Contract!Next, Contract!Report, Contract!Announce,
         Contract!Alive, Contract!Active, Contract!Pending, Active
    <2> QED
      BY <2>1, <2>2, <2>3
  <1>5. CASE at["disp"] = "reporting"
    <2>1. \/ /\ code["disp"] = "continue" /\ status = "RUNNING"
             /\ scm \in {"CONTINUE_PENDING", "RUNNING"}
          \/ /\ code["disp"] = "pause" /\ status = "PAUSED"
             /\ scm \in {"PAUSE_PENDING", "PAUSED"}
      BY <1>1, <1>5, BeforeIs, AfterIs DEF InOrder, Codes
    <2>2. (status = "PAUSED" => paused) /\ (status = "RUNNING" => ~paused)
      BY DEF IInv, PauseInv
    <2>3. CASE scm = status
      BY <1>3, <2>3 DEF Contract!vars
    <2>4. CASE scm # status
      BY <1>3, <2>1, <2>2, <2>4 DEF Contract!Next, Contract!Report, Contract!Conclude
    <2> QED
      BY <2>3, <2>4
  <1> QED
    BY <1>4, <1>5

\* A report that a late one makes meaningless.
LEMMA LateReport ==
    ASSUME IInv, late', started, scm # "STOPPED", scm' \in States,
           UNCHANGED <<started, quitting, paused>>
    PROVE  Contract!Next
  <1>1. Told' = Told /\ Told # "nothing"
    BY DEF Told
  <1> QED
    BY <1>1 DEF Contract!Next, Contract!Overtake, Contract!Shown, Contract!Active,
       Contract!Pending, States, IInv, TypeOK

LEMMA Stutters ==
    ASSUME UNCHANGED <<scm, started, quitting, paused, late>>
    PROVE  UNCHANGED Contract!vars
  BY DEF Contract!vars, Told

LEMMA CallerImplements ==
    ASSUME IInv, NEW c \in Callers, CallerStep(c)
    PROVE  [Contract!Next]_(Contract!vars)
  <1>1. CASE CtlStart(c)
    <2>1. /\ UNCHANGED <<started, quitting, paused, late>>
          /\ \/ scm = "STOPPED" /\ main = "none" /\ scm' = "START_PENDING"
             \/ scm' = scm
      BY <1>1 DEF CtlStart, isRunning, history
    <2>2. main = "none" => Told = "nothing"
      BY DEF IInv, ToldInv, Told
    <2>3. Told' = Told
      BY <2>1 DEF Told
    <2> QED
      BY <2>1, <2>2, <2>3, Stutters DEF Contract!Next, Contract!Launch
  <1> QED
    BY <1>1, Stutters DEF CallerStep, ManagerStep, Deliver, Refuse, Poll, TimeOut, Send,
       process, history

LEMMA SetStatusImplements ==
    ASSUME IInv, NEW t \in Threads, SetStatus(t)
    PROVE  [Contract!Next]_(Contract!vars)
  <1>1. /\ UNCHANGED <<started, quitting, paused, late>>
        /\ scm' = IF scm = "STOPPED" THEN scm ELSE status
        /\ at[t] \in {"pending", "reporting"}
    BY DEF SetStatus, Report, history
  <1>2. CASE scm = "STOPPED"
    BY <1>1, <1>2, Stutters
  <1>3. CASE late /\ scm # "STOPPED"
    BY <1>1, <1>3, LateReport DEF IInv, ToldInv, TypeOK
  <1>4. CASE ~late /\ scm # "STOPPED"
    <2>1. ~quitting
      BY <1>1, <1>4 DEF IInv, QuitInv, OrderInv, Signalled, Outstanding, Threads
    <2>2. CASE t = "svc"
      <3>1. scm = "START_PENDING" /\ status \in {"STOPPED", "START_PENDING", "RUNNING"}
        BY <1>1, <1>4, <2>2 DEF IInv, OrderInv, Signalled
      <3>2. main \in InLoop
        BY <1>1, <2>1, <2>2 DEF IInv, TypeOK, AliveInv, OrderInv, InLoop, Over
      <3>3. status # "STOPPED"
        BY <1>1, <2>2, <3>2 DEF IInv, AliveInv
      <3>4. status = "RUNNING" => at["svc"] = "reporting"
        BY <1>1, <2>2 DEF IInv, OrderInv, Signalled
      <3>5. at["svc"] = "reporting" => Told = "running"
        BY <1>4, <2>1 DEF IInv, StartInv, Starting, PauseInv, Signalled, Told
      <3>6. Told' = Told
        BY <1>1 DEF Told
      <3> QED
        BY <1>1, <1>4, <3>1, <3>3, <3>4, <3>5, <3>6, Stutters DEF Contract!Next,
           Contract!Report, Contract!Conclude
    <2>3. CASE t = "disp"
      <3>1. at["svc"] \in Signalled
        BY <1>1, <2>3 DEF IInv, OrderInv, InHandler, Handling
      <3> QED
        BY <1>1, <1>4, <2>1, <2>3, <3>1, ControlReport
    <2> QED
      BY <2>2, <2>3 DEF Threads
  <1> QED
    BY <1>2, <1>3, <1>4

LEMMA DeliverStatusImplements ==
    ASSUME IInv, NEW t \in Threads, DeliverStatus(t)
    PROVE  [Contract!Next]_(Contract!vars)
  <1>1. /\ UNCHANGED <<started, quitting, paused>> /\ at[t] = "delivering"
        /\ scm' = IF scm = "STOPPED" THEN scm ELSE saved[t]
        /\ late' = (late \/ (scm # "STOPPED" /\ saved[t] \notin {status, scm}))
    BY DEF DeliverStatus, Report
  <1>2. started
    BY <1>1 DEF IInv, StartInv, Starting, Threads
  <1>3. saved[t] \in States /\ saved[t] # "STOPPED" /\ late \in BOOLEAN
    BY <1>1 DEF IInv, TypeOK, AliveInv
  <1>4. CASE scm = "STOPPED"
    BY <1>1, <1>3, <1>4, Stutters
  <1>5. CASE scm # "STOPPED" /\ late'
    BY <1>1, <1>2, <1>3, <1>5, LateReport
  <1>6. CASE scm # "STOPPED" /\ ~late'
    <2>1. ~late /\ scm' \in {status, scm} /\ late' = late
      BY <1>1, <1>3, <1>6
    <2>0. CASE scm' = scm
      BY <1>1, <2>0, <2>1, Stutters
    <2>2. CASE scm' = status /\ quitting
      <3>1. main \notin Over /\ code["disp"] \in {"stop", "shutdown"}
        BY <1>1, <1>3, <1>6, <2>1, <2>2 DEF IInv, QuitInv
      <3>2. scm = status
        BY <1>6, <2>1, <2>2, <3>1 DEF IInv, QuitInv, ShownInv
      <3> QED
        BY <1>1, <2>1, <3>2, Stutters
    <2>3. CASE scm' = status /\ ~quitting
      <3>1. at["svc"] \in Signalled
        BY <1>1 DEF IInv, OrderInv, InHandler, Handling, Signalled, Threads
      <3>2. InOrder
        BY <2>1, <2>3, <3>1 DEF IInv, ShownInv
      <3>3. at["disp"] \in Handling \cup {"idle"}
        BY <3>1 DEF IInv, TypeOK, OrderInv, Signalled, Threads
      <3>4. CASE at["disp"] \in {"pending", "reporting"}
        BY <1>1, <2>1, <2>3, <3>1, <3>4, ControlReport
      <3>5. CASE at["disp"] \in {"posting", "posted", "waiting", "woken"}
        <4>1. scm = status
          BY <2>1, <2>3, <3>2, <3>5 DEF IInv, InOrder, PendingInv
        <4> QED
          BY <1>1, <2>1, <4>1, Stutters
      <3>6. CASE at["disp"] \in Settled
        BY <1>1, <2>1, <3>2, <3>6, Stutters DEF InOrder
      <3> QED
        BY <3>3, <3>4, <3>5, <3>6 DEF Handling, Settled
    <2> QED
      BY <2>0, <2>1, <2>2, <2>3
  <1> QED
    BY <1>4, <1>5, <1>6

LEMMA CallServiceImplements ==
    ASSUME IInv, CallService
    PROVE  [Contract!Next]_(Contract!vars)
  <1>1. /\ main = "handling" /\ UNCHANGED <<scm, late>>
        /\ started' = (started \/ event = "startup")
        /\ quitting' = (quitting \/ event = "stop")
        /\ paused' = (event = "pause" \/ (paused /\ event # "continue"))
    BY DEF CallService, ServiceRuns
  <1>2. Awaited(event) /\ event \in Codes
    BY <1>1 DEF IInv, EventInv, TypeOK
  <1>3. started \in BOOLEAN /\ quitting \in BOOLEAN /\ paused \in BOOLEAN
    BY DEF IInv, TypeOK
  <1>4. CASE ~started
    <2>1. event = "startup" /\ ~quitting /\ ~paused /\ scm = "START_PENDING"
      BY <1>1, <1>4 DEF IInv, StartInv, Starting, ToldInv, AliveInv, InLoop
    <2>2. Told = "nothing" /\ Told' = "running"
      BY <1>1, <1>4, <2>1 DEF Told
    <2> QED
      BY <1>1, <2>1, <2>2 DEF Contract!Next, Contract!Start
  <1>5. CASE started /\ quitting
    <2>1. Told' = Told
      BY <1>1, <1>5 DEF Told
    <2> QED
      BY <1>1, <2>1 DEF Contract!vars
  <1>6. CASE started /\ ~quitting
    <2>1. Told \in {"running", "paused"}
      BY <1>6 DEF Told
    <2>2. event \in {"stop", "pause", "continue"}
              => /\ Outstanding("disp") /\ at["svc"] \in Signalled
                 /\ event = EventOf("disp")
      BY <1>2 DEF Awaited, EventOf, Outstanding, IInv, OrderInv, InHandler, Handling,
         Threads
    <2>3. CASE event = "pause"
      <3>1. Told' = "paused"
        BY <1>1, <1>6, <2>3 DEF Told
      <3>2. code["disp"] = "pause"
        BY <2>2, <2>3 DEF EventOf
      <3>3. late \/ scm = "PAUSE_PENDING"
        BY <1>6, <2>2, <2>3, <3>2, BeforeIs DEF IInv, PendingInv, Outstanding
      <3> QED
        BY <1>1, <2>1, <3>1, <3>3 DEF Contract!Next, Contract!Pause, Contract!Alive
    <2>4. CASE event = "continue"
      <3>1. Told' = "running"
        BY <1>1, <1>6, <2>4 DEF Told
      <3>2. code["disp"] = "continue"
        BY <2>2, <2>4 DEF EventOf
      <3>3. late \/ scm = "CONTINUE_PENDING"
        BY <1>6, <2>2, <2>4, <3>2, BeforeIs DEF IInv, PendingInv, Outstanding
      <3> QED
        BY <1>1, <2>1, <3>1, <3>3 DEF Contract!Next, Contract!Resume, Contract!Alive
    <2>5. CASE event = "stop"
      <3>1. Told' = "stopped"
        BY <1>1, <1>6, <2>5 DEF Told
      <3>2. code["disp"] \in {"stop", "shutdown"}
        BY <2>2, <2>5 DEF EventOf
      <3>3. code["disp"] = "stop" => late \/ scm = "STOP_PENDING"
        BY <1>6, <2>2, <2>5, BeforeIs DEF IInv, PendingInv, Outstanding
      <3>4. code["disp"] = "shutdown" => late \/ scm \in Active
        BY <1>6, <2>2, <2>5, BeforeIs DEF IInv, ShownInv, InOrder, Outstanding
      <3> QED
        BY <1>1, <2>1, <3>1, <3>2, <3>3, <3>4 DEF Contract!Next, Contract!Stop,
           Contract!Alive, Contract!Active, Active
    <2>6. CASE event \notin {"stop", "pause", "continue"}
      <3>1. Told' = Told
        BY <1>1, <1>3, <1>6, <2>6 DEF Told
      <3> QED
        BY <1>1, <3>1 DEF Contract!vars
    <2> QED
      BY <2>3, <2>4, <2>5, <2>6
  <1> QED
    BY <1>3, <1>4, <1>5, <1>6

LEMMA ReportStoppedImplements ==
    ASSUME IInv, ReportStopped
    PROVE  [Contract!Next]_(Contract!vars)
  <1>1. /\ UNCHANGED <<started, quitting, paused, late>> /\ main = "left"
        /\ scm' = IF scm = "STOPPED" THEN scm ELSE status
    BY DEF ReportStopped, Report, history
  <1>2. CASE scm = "STOPPED"
    BY <1>1, <1>2, Stutters
  <1>3. CASE late /\ scm # "STOPPED"
    BY <1>1, <1>3, LateReport DEF IInv, ToldInv, TypeOK
  <1>4. CASE ~late /\ scm # "STOPPED"
    <2>1. quitting /\ started
      BY <1>1 DEF IInv, OrderInv, Over, StartInv, Starting
    <2>2. status = "STOPPED" /\ scm \in Active \cup {"STOP_PENDING"}
      BY <1>1, <1>4, <2>1 DEF IInv, QuitInv, ShownInv, Over
    <2>3. Told' = Told /\ Told = "stopped"
      BY <1>1, <2>1 DEF Told
    <2> QED
      BY <1>1, <1>4, <2>2, <2>3 DEF Contract!Next, Contract!Report, Contract!Conclude,
         Contract!Active, Active
  <1> QED
    BY <1>2, <1>3, <1>4

LEMMA NextImplements ==
    IInv /\ [Next]_vars => [Contract!Next]_(Contract!vars)
  <1> SUFFICES ASSUME IInv, [Next]_vars PROVE [Contract!Next]_(Contract!vars)
    OBVIOUS
  <1>1. ASSUME NEW t \in Threads, ThreadStep(t) PROVE [Contract!Next]_(Contract!vars)
    <2>1. CASE Lock(t) \/ Post(t) \/ Wait(t)
      BY <2>1, Stutters DEF Lock, Post, Wait, history
    <2>2. CASE Woken(t) \/ Unlock(t) \/ ReadStatus(t)
      BY <2>2, Stutters DEF Woken, Unlock, ReadStatus, history
    <2> QED
      BY <1>1, <2>1, <2>2, SetStatusImplements, DeliverStatusImplements DEF ThreadStep
  <1>2. CASE StartStep
    BY <1>2, Stutters DEF StartStep, Connect, ServiceMain, Acquire, history
  <1>3. CASE LiveMainStep
    <2>1. CASE SysInit \/ CreateApplication \/ TakeEvent \/ WakeAll
      BY <2>1, Stutters DEF SysInit, CreateApplication, TakeEvent, WakeAll, history
    <2>2. CASE LeaveLoop \/ Delete
      BY <2>2, Stutters DEF LeaveLoop, Delete, history
    <2> QED
      BY <1>3, <2>1, <2>2, CallServiceImplements, ReportStoppedImplements
         DEF LiveMainStep
  <1>4. CASE EndProcess
    BY <1>4 DEF EndProcess, Told, Contract!Next, Contract!End
  <1>5. CASE UNCHANGED vars
    BY <1>5, Stutters DEF vars
  <1> QED
    BY <1>1, <1>2, <1>3, <1>4, <1>5, CallerImplements, NextCases

\* Three threads, two semaphores, a mutex and a condition, whose reports and calls
\* interleave, implement the one state machine that the manager and the service see.
THEOREM SpecImplementsContract == Spec => ImplementsContract
  <1>1. Init => Contract!Init
    BY DEF Init, Told, Contract!Init
  <1> QED
    BY <1>1, NextImplements, SpecIInv, PTL DEF Spec, ImplementsContract, Contract!Spec

\* A thread that waits for the loop is the one whose event is posted or handled.
THEOREM SpecNoLostWakeUp == Spec => []NoLostWakeUp
  <1>1. IInv => NoLostWakeUp
    BY DEF IInv
  <1> QED
    BY <1>1, SpecIInv, PTL
===============================================================================
