-------------------------- MODULE QtServiceUnix_proof --------------------------
(***************************************************************************)
(* Proofs about QtServiceUnix, for any number of processes and callers and *)
(* every choice of flags.                                                  *)
(***************************************************************************)
EXTENDS QtServiceUnix, TLAPS

LEMMA ConstantTypes ==
    /\ NoOne \notin Instances
    /\ \A m \in Commands : m # "none" /\ m # "start" /\ m # "alive"
  BY ServiceAssumption

LEMMA TypeInit == Init => TypeOK
  <1> SUFFICES ASSUME Init PROVE TypeOK
    OBVIOUS
  <1>1. /\ settings \in {{}, {"path", "description", "automaticStartup"}}
        /\ path \in Instances \cup {NoOne}
        /\ proc \in [Instances -> ProcStates]
        /\ owns \in [Instances -> BOOLEAN]
        /\ \A i \in Instances : ~owns[i]
    BY DEF Init, ProcStates
  <1>2. /\ cpc \in [Callers -> {"idle", "runner", "waiting", "launching"}]
        /\ cmd \in [Callers -> Commands \cup {"none", "start", "alive"}]
        /\ peer \in [Callers -> Instances \cup {NoOne}]
        /\ reply \in [Callers -> {"none", "true", "false"}]
        /\ result \in [Callers -> {"none", "true", "false"}]
        /\ called \in [Callers -> BOOLEAN]
        /\ hasty \in BOOLEAN
        /\ \A c \in Callers : cpc[c] # "waiting"
    BY DEF Init
  <1> QED
    BY <1>1, <1>2 DEF TypeOK

LEMMA TypeCaller ==
    ASSUME TypeOK, NEW c \in Callers, Exec(c) \/ CtlStart(c) \/ CallerStep(c)
    PROVE  TypeOK'
  <1> USE DEF ProcStates, process, caller
  <1>1. CASE Install(c) \/ Uninstall(c)
    BY <1>1 DEF Install, Uninstall, TypeOK
  <1>2. ASSUME NEW m \in Commands, SendCmd(c, m) PROVE TypeOK'
    BY <1>2 DEF SendCmd, Connect, Reachable, Listening, TypeOK
  <1>3. CASE Run(c)
    BY <1>3 DEF Run, BeginRun, TypeOK
  <1>4. CASE CtlStart(c)
    <2>1. CASE BeginRun(c, "true")
      BY <2>1 DEF BeginRun, TypeOK
    <2>2. CASE ~BeginRun(c, "true")
      <3>1. /\ cmd' = [cmd EXCEPT ![c] = "start"]
            /\ result' = [result EXCEPT ![c] = "false"]
            /\ UNCHANGED <<settings, process, cpc, peer, reply, called, hasty>>
        BY <1>4, <2>2 DEF CtlStart
      <3> QED
        BY <3>1 DEF TypeOK
    <2> QED
      BY <2>1, <2>2
  <1>5. CASE AskAlive(c)
    BY <1>5 DEF AskAlive, Connect, Reachable, Listening, TypeOK
  <1>6. CASE Return(c)
    BY <1>6 DEF Return, TypeOK
  <1>7. CASE Launch(c)
    BY <1>7 DEF Launch, TypeOK
  <1> QED
    BY <1>1, <1>2, <1>3, <1>4, <1>5, <1>6, <1>7 DEF Exec, CallerStep

LEMMA TypeService ==
    ASSUME TypeOK, NEW i \in Instances, ServiceStep(i) \/ Crash(i)
    PROVE  TypeOK'
  <1> USE DEF ProcStates, caller
  <1>1. CASE SetPathUnlink(i)
    BY <1>1 DEF SetPathUnlink, TypeOK
  <1>2. CASE SetPathBind(i)
    BY <1>2 DEF SetPathBind, TypeOK
  <1>3. CASE StartService(i)
    BY <1>3 DEF StartService, TypeOK
  <1>4. CASE LoopExit(i)
    BY <1>4 DEF LoopExit, TypeOK
  <1>5. CASE CloseUnlink(i)
    BY <1>5 DEF CloseUnlink, TypeOK
  <1>6. CASE Crash(i)
    BY <1>6 DEF Crash, TypeOK
  <1>7. CASE SetPathListen(i)
    BY <1>7 DEF SetPathListen, TypeOK
  <1> QED
    BY <1>1, <1>2, <1>3, <1>4, <1>5, <1>6, <1>7 DEF ServiceStep

LEMMA TypeHandle ==
    ASSUME TypeOK, NEW i \in Instances, NEW c \in Callers, Handle(i, c)
    PROVE  TypeOK'
  <1> USE DEF ProcStates, Handle, Reads, Carry
  <1>1. CASE Refuse(i, c)
    BY <1>1 DEF Refuse, TypeOK
  <1>2. CASE Obey(i, c)
    BY <1>2 DEF Obey, TypeOK
  <1>3. CASE DieObeying(i, c)
    BY <1>3 DEF DieObeying, TypeOK
  <1> QED
    BY <1>1, <1>2, <1>3

LEMMA TypeStep == TypeOK /\ [Next]_vars => TypeOK'
  <1>1. TypeOK /\ UNCHANGED vars => TypeOK'
    BY DEF vars, TypeOK
  <1> QED
    BY <1>1, TypeCaller, TypeService, TypeHandle DEF Next

\* Type correctness.
THEOREM SpecTypeOK == Spec => []TypeOK
  BY TypeInit, TypeStep, PTL DEF Spec

-----------------------------------------------------------------------------
(***************************************************************************)
(* The answers.                                                            *)
(***************************************************************************)
Gone(i) == i \in Instances /\ proc[i] = "ended"
Quits(i) == i \in Instances /\ Leaving(i)

Honest(c) ==
    /\ cpc[c] = "waiting" =>
          /\ reply[c] = "true" => called[c]
          /\ reply[c] = "true" /\ cmd[c] = "terminate" => Quits(peer[c])
          /\ reply[c] = "false" => ~called[c]
          /\ reply[c] = "none" /\ called[c] => Gone(peer[c])
    /\ cpc[c] = "idle" /\ cmd[c] \in Commands =>
          /\ result[c] = "true" => called[c]
          /\ result[c] = "true" /\ cmd[c] = "terminate" => Quits(peer[c])
          /\ result[c] = "false" /\ called[c] => Gone(peer[c])
    /\ cpc[c] \in {"runner", "launching"} => cmd[c] \notin Commands

HonestInv == \A c \in Callers : Honest(c)

\* Nothing but its own call and the processes it talks to concerns a caller, and
\* a process that leaves, or has ended, does not come back.
LEMMA KeepHonest ==
    ASSUME HonestInv, NEW c \in Callers,
           cpc'[c] = cpc[c], cmd'[c] = cmd[c], reply'[c] = reply[c],
           result'[c] = result[c], called'[c] = called[c], peer'[c] = peer[c],
           Gone(peer[c]) => Gone(peer[c])', Quits(peer[c]) => Quits(peer[c])'
    PROVE  Honest(c)'
  BY DEF HonestInv, Honest

LEMMA EndedStays ==
    ASSUME TypeOK, [Next]_vars, NEW i \in Instances
    PROVE  /\ proc[i] = "ended" => proc'[i] = "ended"
           /\ Leaving(i) => Leaving(i)'
  <1> DEFINE Stays == /\ proc[i] = "ended" => proc'[i] = "ended"
                      /\ Leaving(i) => Leaving(i)'
  <1> USE DEF Leaving
  <1>1. CASE UNCHANGED vars
    BY <1>1 DEF vars
  <1>2. ASSUME NEW c \in Callers, Exec(c) \/ CtlStart(c) PROVE Stays
    BY <1>2 DEF Exec, Install, Uninstall, SendCmd, Run, CtlStart, BeginRun, process
  <1>3. ASSUME NEW c \in Callers, CallerStep(c) PROVE Stays
    BY <1>3 DEF CallerStep, AskAlive, Return, Launch, process, TypeOK
  <1>4. ASSUME NEW j \in Instances, ServiceStep(j) \/ Crash(j) PROVE Stays
    BY <1>4 DEF ServiceStep, SetPathUnlink, SetPathBind, SetPathListen, StartService,
       LoopExit, CloseUnlink, Crash, TypeOK
  <1>5. ASSUME NEW j \in Instances, NEW c \in Callers, Handle(j, c) PROVE Stays
    BY <1>5 DEF Handle, Reads, Refuse, Obey, DieObeying, TypeOK
  <1> QED
    BY <1>1, <1>2, <1>3, <1>4, <1>5 DEF Next

\* A step of a caller leaves the others alone.
LEMMA OthersAlone ==
    ASSUME TypeOK, NEW c \in Callers, NEW d \in Callers, d # c,
           \/ Exec(c) \/ CtlStart(c) \/ CallerStep(c)
           \/ \E i \in Instances : Handle(i, c)
    PROVE  /\ cpc'[d] = cpc[d] /\ cmd'[d] = cmd[d] /\ reply'[d] = reply[d]
           /\ result'[d] = result[d] /\ called'[d] = called[d] /\ peer'[d] = peer[d]
  <1> USE DEF TypeOK
  <1>1. CASE Install(c) \/ Uninstall(c)
    BY <1>1 DEF Install, Uninstall, caller
  <1>2. ASSUME NEW m, SendCmd(c, m)
        PROVE  /\ cpc'[d] = cpc[d] /\ cmd'[d] = cmd[d] /\ reply'[d] = reply[d]
               /\ result'[d] = result[d] /\ called'[d] = called[d] /\ peer'[d] = peer[d]
    BY <1>2 DEF SendCmd, Connect
  <1>3. CASE Run(c) \/ CtlStart(c)
    <2>1. ASSUME NEW answer, BeginRun(c, answer)
          PROVE  /\ cpc'[d] = cpc[d] /\ cmd'[d] = cmd[d] /\ result'[d] = result[d]
                 /\ UNCHANGED <<peer, reply, called>>
      BY <2>1 DEF BeginRun
    <2>2. CASE BeginRun(c, "none") \/ BeginRun(c, "true")
      BY <2>1, <2>2
    <2>3. CASE cmd' = [cmd EXCEPT ![c] = "start"]
               /\ result' = [result EXCEPT ![c] = "false"]
               /\ UNCHANGED <<cpc, peer, reply, called>>
      BY <2>3
    <2> QED
      BY <1>3, <2>2, <2>3 DEF Run, CtlStart
  <1>4. CASE AskAlive(c)
    BY <1>4 DEF AskAlive, Connect
  <1>5. CASE Return(c)
    BY <1>5 DEF Return
  <1>6. CASE Launch(c)
    BY <1>6 DEF Launch
  <1>7. ASSUME NEW i \in Instances, Handle(i, c)
        PROVE  /\ cpc'[d] = cpc[d] /\ cmd'[d] = cmd[d] /\ reply'[d] = reply[d]
               /\ result'[d] = result[d] /\ called'[d] = called[d] /\ peer'[d] = peer[d]
    BY <1>7 DEF Handle, Refuse, Obey, DieObeying, Carry
  <1> QED
    BY <1>1, <1>2, <1>3, <1>4, <1>5, <1>6, <1>7 DEF Exec, CallerStep

LEMMA OwnHonest ==
    ASSUME TypeOK, HonestInv, NEW c \in Callers,
           Exec(c) \/ CtlStart(c) \/ CallerStep(c), [Next]_vars
    PROVE  Honest(c)'
  <1>0. Honest(c) /\ \A i : (Gone(i) => Gone(i)') /\ (Quits(i) => Quits(i)')
    BY EndedStays DEF HonestInv, Gone, Quits
  <1>1. CASE Install(c) \/ Uninstall(c)
    BY <1>1, <1>0, KeepHonest DEF Install, Uninstall, caller
  <1>2. ASSUME NEW m \in Commands, SendCmd(c, m) PROVE Honest(c)'
    BY <1>2 DEF SendCmd, Connect, TypeOK, Honest
  <1>3. CASE Run(c) \/ CtlStart(c)
    <2>1. cmd'[c] = "start" /\ cpc'[c] \in {"idle", "runner"}
      BY <1>3 DEF Run, CtlStart, BeginRun, TypeOK
    <2> QED
      BY <2>1, ConstantTypes DEF Honest
  <1>4. CASE AskAlive(c)
    BY <1>4, ConstantTypes DEF AskAlive, Connect, TypeOK, Honest
  <1>5. CASE Return(c)
    <2>1. CASE cmd[c] = "alive"
      <3>1. cmd'[c] = "alive" /\ cpc'[c] \in {"idle", "launching"}
        BY <1>5, <2>1 DEF Return, TypeOK
      <3> QED
        BY <3>1, ConstantTypes DEF Honest
    <2>2. CASE cmd[c] # "alive"
      <3>1. /\ cpc[c] = "waiting" /\ cpc'[c] = "idle"
            /\ result'[c] = IF reply[c] = "true" THEN "true" ELSE "false"
            /\ reply[c] \in {"none", "true", "false"}
            /\ called'[c] = called[c] /\ peer'[c] = peer[c] /\ cmd'[c] = cmd[c]
            /\ UNCHANGED <<called, peer, proc>>
        BY <1>5, <2>2 DEF Return, TypeOK, process
      <3> QED
        BY <3>1, <1>0 DEF Honest
    <2> QED
      BY <2>1, <2>2
  <1>6. CASE Launch(c)
    <2>1. cpc[c] = "launching" /\ cpc'[c] = "idle" /\ UNCHANGED <<cmd, result, called, peer>>
      BY <1>6 DEF Launch, TypeOK
    <2> QED
      BY <2>1, <1>0 DEF Honest
  <1> QED
    BY <1>1, <1>2, <1>3, <1>4, <1>5, <1>6 DEF Exec, CallerStep

LEMMA HandleHonest ==
    ASSUME TypeOK, HonestInv, NEW i \in Instances, NEW c \in Callers,
           Handle(i, c)
    PROVE  Honest(c)'
  <1>1. /\ cpc[c] = "waiting" /\ cpc'[c] = "waiting" /\ peer[c] = i /\ peer'[c] = i
        /\ reply[c] = "none" /\ proc[i] # "ended"
    BY DEF Handle, Reads
  <1>2. ~called[c]
    BY <1>1 DEF HonestInv, Honest, Gone
  <1>3. CASE Refuse(i, c)
    BY <1>1, <1>2, <1>3 DEF Refuse, TypeOK, Honest
  <1>4. CASE Obey(i, c)
    <2>1. /\ reply'[c] = "true" /\ called'[c] /\ cmd'[c] = cmd[c]
          /\ cmd[c] = "terminate" => proc'[i] = "quitting"
      BY <1>4 DEF Obey, Carry, Handle, TypeOK
    <2> QED
      BY <1>1, <2>1 DEF Honest, Quits, Leaving
  <1>5. CASE DieObeying(i, c)
    <2>1. reply'[c] = "none" /\ proc'[i] = "ended"
      BY <1>5 DEF DieObeying, Carry, TypeOK
    <2> QED
      BY <1>1, <2>1 DEF Honest, Gone
  <1> QED
    BY <1>3, <1>4, <1>5 DEF Handle

LEMMA NextHonest == TypeOK /\ HonestInv /\ [Next]_vars => HonestInv'
  <1> SUFFICES ASSUME TypeOK, HonestInv, [Next]_vars, NEW d \in Callers
               PROVE  Honest(d)'
    BY DEF HonestInv
  <1>0. \A i : (Gone(i) => Gone(i)') /\ (Quits(i) => Quits(i)')
    BY EndedStays DEF Gone, Quits
  <1>1. CASE UNCHANGED vars
    BY <1>1, <1>0, KeepHonest DEF vars
  <1>2. ASSUME NEW c \in Callers, Exec(c) \/ CtlStart(c) \/ CallerStep(c)
        PROVE  Honest(d)'
    <2>1. CASE c = d
      BY <1>2, <2>1, OwnHonest
    <2>2. CASE c # d
      BY <1>2, <2>2, <1>0, OthersAlone, KeepHonest
    <2> QED
      BY <2>1, <2>2
  <1>3. ASSUME NEW i \in Instances, ServiceStep(i) \/ Crash(i) PROVE Honest(d)'
    <2>1. UNCHANGED caller
      BY <1>3 DEF ServiceStep, SetPathUnlink, SetPathBind, SetPathListen,
         StartService, LoopExit, CloseUnlink, Crash
    <2> QED
      BY <2>1, <1>0, KeepHonest DEF caller
  <1>4. ASSUME NEW i \in Instances, NEW c \in Callers, Handle(i, c)
        PROVE  Honest(d)'
    <2>1. CASE c = d
      BY <1>4, <2>1, HandleHonest
    <2>2. CASE c # d
      BY <1>4, <2>2, <1>0, OthersAlone, KeepHonest
    <2> QED
      BY <2>1, <2>2
  <1> QED
    BY <1>1, <1>2, <1>3, <1>4 DEF Next

\* "true" means the service's function was called and, for a stop, that the loop of
\* the process is left or will be; only the death of the process hides a call.
THEOREM SpecAnswersAreHonest == Spec => []AnswersAreHonest
  <1>1. Init => HonestInv
    BY ConstantTypes DEF Init, HonestInv, Honest
  <1>2. HonestInv => AnswersAreHonest
    BY DEF HonestInv, Honest, Gone, Quits, Told, AnswersAreHonest
  <1> QED
    BY <1>1, <1>2, NextHonest, SpecTypeOK, PTL DEF Spec

-----------------------------------------------------------------------------
(***************************************************************************)
(* Unhurried use.                                                          *)
(***************************************************************************)
\* A start waits for an answer of the one process there may be; once it knows
\* that there is none, there is none until it has launched its own.
Calm ==
    /\ \A i, j \in Instances : Live(i) /\ Live(j) => i = j
    /\ \A i \in Instances :
           /\ proc[i] \in {"starting", "serving", "quitting"} => path = i /\ owns[i]
           /\ proc[i] = "unlinked" => path = NoOne
           /\ proc[i] = "bound" => path = i
    /\ \A c, d \in Callers : Starting(c) /\ Starting(d) => c = d
    /\ \A c \in Callers : Starting(c) =>
           /\ \A i \in Instances : ~Moving(i)
           /\ \A d \in Callers : ~Stopping(d)
    /\ \A c \in Callers :
           /\ cpc[c] = "launching" => \A i \in Instances : ~Live(i)
           /\ cpc[c] = "waiting" /\ cmd[c] = "alive" =>
                 /\ reply[c] # "false"
                 /\ \A i \in Instances : Live(i) => i = peer[c]

CalmInv == ~hasty => Calm

\* A process that leaves, or moves while no start is under way.
LEMMA ServiceCalm ==
    ASSUME TypeOK, Calm, NEW i \in Instances, ServiceStep(i) \/ Crash(i)
    PROVE  Calm'
  <1>1. UNCHANGED caller
    BY DEF ServiceStep, SetPathUnlink, SetPathBind, SetPathListen,
       StartService, LoopExit, CloseUnlink, Crash
  <1>2. /\ Live(i)
        /\ \A j \in Instances : j # i => ~Live(j) /\ proc'[j] = proc[j]
    BY DEF ServiceStep, SetPathUnlink, SetPathBind, SetPathListen,
       StartService, LoopExit, CloseUnlink, Crash, TypeOK, Calm, Live
  <1>3. /\ proc'[i] \in {"starting", "serving", "quitting"} => path' = i /\ owns'[i]
        /\ proc'[i] = "unlinked" => path' = NoOne
        /\ proc'[i] = "bound" => path' = i
    <2>1. CASE SetPathUnlink(i) \/ LoopExit(i) \/ CloseUnlink(i) \/ Crash(i)
      BY <2>1 DEF SetPathUnlink, LoopExit, CloseUnlink, Crash, TypeOK
    <2>2. CASE SetPathBind(i)
      <3>1. path = NoOne
        BY <2>2 DEF SetPathBind, Calm
      <3>2. proc'[i] = "bound" /\ path' = i
        BY <2>2, <3>1 DEF SetPathBind, TypeOK
      <3> QED
        BY <3>2
    <2>3. CASE StartService(i)
      BY <2>3 DEF StartService, TypeOK, Calm
    <2>4. CASE SetPathListen(i)
      BY <2>4 DEF SetPathListen, TypeOK, Calm
    <2> QED
      BY <2>1, <2>2, <2>3, <2>4 DEF ServiceStep
  <1>4. Moving(i)' => Moving(i)
    BY DEF ServiceStep, SetPathUnlink, SetPathBind, SetPathListen,
       StartService, LoopExit, CloseUnlink, Crash, TypeOK, Moving
  <1>5. \A c \in Callers : Starting(c)' = Starting(c) /\ Stopping(c)' = Stopping(c)
    BY <1>1 DEF caller, Starting, Stopping
  <1>6. \A j \in Instances : (Live(j)' => Live(j)) /\ (Moving(j)' => Moving(j))
    BY <1>2, <1>4 DEF Live, Moving
  <1>7. \A j \in Instances :
           /\ proc'[j] \in {"starting", "serving", "quitting"} => path' = j /\ owns'[j]
           /\ proc'[j] = "unlinked" => path' = NoOne
           /\ proc'[j] = "bound" => path' = j
    BY <1>2, <1>3 DEF Live
  <1> QED
    BY <1>1, <1>5, <1>6, <1>7 DEF Calm, caller

\* Nothing about the processes, and no start that was not there before.
LEMMA CallerCalm ==
    ASSUME TypeOK, Calm, UNCHANGED process, NEW c \in Callers,
           \A d \in Callers : d # c => /\ cpc'[d] = cpc[d] /\ cmd'[d] = cmd[d]
                                      /\ reply'[d] = reply[d] /\ peer'[d] = peer[d],
           Starting(c)' => \/ Starting(c)
                           \/ /\ \A d \in Callers : ~Starting(d) /\ ~Stopping(d)
                              /\ \A i \in Instances : ~Moving(i),
           Stopping(c)' => Stopping(c) \/ \A d \in Callers : ~Starting(d),
           ~(Starting(c)' /\ Stopping(c)'),
           cpc'[c] = "launching" => \A i \in Instances : ~Live(i),
           cpc'[c] = "waiting" /\ cmd'[c] = "alive" =>
                 /\ reply'[c] # "false"
                 /\ \A i \in Instances : Live(i) => i = peer'[c]
    PROVE  Calm'
  <1>1. \A i \in Instances : Live(i)' = Live(i) /\ Moving(i)' = Moving(i)
    BY DEF process, Live, Moving
  <1>2. \A d \in Callers : d # c => Starting(d)' = Starting(d) /\ Stopping(d)' = Stopping(d)
    BY DEF Starting, Stopping
  <1>3. \A d, e \in Callers : Starting(d)' /\ Starting(e)' => d = e
    BY <1>2 DEF Calm
  <1>4. \A d \in Callers : Starting(d)' =>
           /\ \A i \in Instances : ~Moving(i)
           /\ \A e \in Callers : ~Stopping(e)'
    BY <1>2 DEF Calm
  <1>5. /\ \A i, j \in Instances : Live(i)' /\ Live(j)' => i = j
        /\ \A i \in Instances :
             /\ proc'[i] \in {"starting", "serving", "quitting"} => path' = i /\ owns'[i]
             /\ proc'[i] = "unlinked" => path' = NoOne
             /\ proc'[i] = "bound" => path' = i
    BY <1>1 DEF process, Calm
  <1>6. \A d \in Callers :
           /\ cpc'[d] = "launching" => \A i \in Instances : ~Live(i)
           /\ cpc'[d] = "waiting" /\ cmd'[d] = "alive" =>
                 /\ reply'[d] # "false"
                 /\ \A i \in Instances : Live(i) => i = peer'[d]
    BY DEF Calm
  <1> QED
    BY <1>1, <1>3, <1>4, <1>5, <1>6 DEF Calm

\* What a start finds when no process is on its way: the one there is, or none.
LEMMA FindsTheOne ==
    ASSUME TypeOK, Calm, \A i \in Instances : ~Moving(i)
    PROVE  /\ Reachable => \A i \in Instances : Live(i) => i = path
           /\ ~Reachable => \A i \in Instances : ~Live(i)
  BY ConstantTypes DEF TypeOK, ProcStates, Calm, Moving, Live, Reachable, Listening

LEMMA OtherRecords ==
    ASSUME TypeOK, NEW c \in Callers, Exec(c) \/ CtlStart(c) \/ CallerStep(c)
    PROVE  \A d \in Callers : d # c => /\ cpc'[d] = cpc[d] /\ cmd'[d] = cmd[d]
                                       /\ reply'[d] = reply[d] /\ peer'[d] = peer[d]
  BY OthersAlone

LEMMA ExecCalm ==
    ASSUME TypeOK, Calm, NEW c \in Callers, Exec(c) \/ CtlStart(c), ~hasty'
    PROVE  Calm'
  <1>1. CASE Install(c) \/ Uninstall(c)
    BY <1>1 DEF Install, Uninstall, process, caller, Calm, Live, Moving, Starting,
       Stopping
  <1>2. ASSUME NEW m \in Commands, SendCmd(c, m) PROVE Calm'
    <2>1. /\ cpc'[c] \in {"waiting", "idle"} /\ cmd'[c] = m /\ UNCHANGED process
          /\ m # "alive" /\ (m = "terminate" => \A d \in Callers : ~Starting(d))
      BY <1>2, ConstantTypes DEF SendCmd, Connect, TypeOK
    <2> QED
      BY <2>1, OtherRecords, CallerCalm DEF Starting, Stopping
  <1>3. CASE Run(c) \/ CtlStart(c)
    <2>1. /\ cmd'[c] = "start" /\ UNCHANGED process
          /\ \/ cpc'[c] = "idle"
             \/ /\ cpc'[c] = "runner"
                /\ \A d \in Callers : ~Starting(d) /\ ~Stopping(d)
                /\ \A i \in Instances : ~Moving(i)
      BY <1>3 DEF Run, CtlStart, BeginRun, TypeOK
    <2> QED
      BY <2>1, OtherRecords, CallerCalm DEF Starting, Stopping
  <1> QED
    BY <1>1, <1>2, <1>3 DEF Exec

LEMMA CallerStepCalm ==
    ASSUME TypeOK, Calm, NEW c \in Callers, CallerStep(c)
    PROVE  Calm'
  <1>1. CASE AskAlive(c)
    <2>1. /\ Starting(c) /\ UNCHANGED process
          /\ cmd'[c] = "alive" /\ reply'[c] = "none"
          /\ \/ Reachable /\ cpc'[c] = "waiting" /\ peer'[c] = path
             \/ ~Reachable /\ cpc'[c] = "launching"
      BY <1>1 DEF AskAlive, Connect, TypeOK, Starting
    <2>2. \A i \in Instances : ~Moving(i)
      BY <2>1 DEF Calm
    <2> QED
      BY <2>1, <2>2, FindsTheOne, OtherRecords, CallerCalm DEF Stopping
  <1>2. CASE Return(c)
    <2>1. UNCHANGED process /\ cpc[c] = "waiting" /\ cmd'[c] = cmd[c]
      BY <1>2 DEF Return
    <2>2. CASE cmd[c] = "alive" /\ reply[c] # "true"
      <3>1. Starting(c) /\ cpc'[c] = "launching"
        BY <1>2, <2>1, <2>2 DEF Return, TypeOK, Starting
      <3>2. HungUp(c)
        BY <1>2, <2>1, <2>2 DEF Return, Calm, TypeOK
      <3>3. \A i \in Instances : ~Live(i)
        BY <2>1, <2>2, <3>1, <3>2 DEF HungUp, Calm, Live, Moving, TypeOK
      <3> QED
        BY <2>1, <3>1, <3>3, OtherRecords, CallerCalm DEF Stopping
    <2>3. CASE ~(cmd[c] = "alive" /\ reply[c] # "true")
      <3>1. cpc'[c] = "idle"
        BY <1>2, <2>3 DEF Return, TypeOK
      <3> QED
        BY <2>1, <3>1, OtherRecords, CallerCalm DEF Starting, Stopping
    <2> QED
      BY <2>2, <2>3
  <1>3. CASE Launch(c)
    <2>1. /\ Starting(c) /\ cpc'[c] = "idle"
          /\ \A i \in Instances : ~Live(i)
          /\ UNCHANGED <<path, owns>>
      BY <1>3 DEF Launch, TypeOK, Starting, Calm
    <2>2. \A d \in Callers : ~Starting(d)' /\ cpc'[d] # "launching"
                              /\ (cpc'[d] = "waiting" => cmd'[d] # "alive")
      BY <1>3, <2>1 DEF Launch, TypeOK, Starting, Calm
    <2>3. CASE UNCHANGED proc
      BY <2>1, <2>2, <2>3 DEF Calm, Live
    <2>4. ASSUME NEW i \in Instances, proc' = [proc EXCEPT ![i] = "launched"]
          PROVE  Calm'
      <3>1. \A j \in Instances : j # i => proc'[j] = proc[j] /\ ~Live(j)'
        BY <2>1, <2>4 DEF TypeOK, Live
      <3>2. proc'[i] = "launched"
        BY <2>4 DEF TypeOK
      <3> QED
        BY <2>2, <3>1, <3>2 DEF Calm, Live
    <2> QED
      BY <1>3, <2>3, <2>4 DEF Launch
  <1> QED
    BY <1>1, <1>2, <1>3 DEF CallerStep

LEMMA HandleCalm ==
    ASSUME TypeOK, Calm, NEW i \in Instances, NEW c \in Callers, Handle(i, c)
    PROVE  Calm'
  <1>1. /\ cpc[c] = "waiting" /\ Live(i)
        /\ proc[i] \in {"serving", "quitting"}
        /\ UNCHANGED <<path, owns, cpc, cmd, peer>>
    BY DEF Handle, Reads, Live
  <1>2. \A d \in Callers : d # c => reply'[d] = reply[d]
    BY <1>1 DEF Handle, Refuse, Obey, DieObeying, Carry, TypeOK
  <1>3. \A d \in Callers : (Starting(d)' => Starting(d)) /\ (Stopping(d)' => Stopping(d))
    BY <1>1 DEF Starting, Stopping
  <1>4. \A j \in Instances : j # i => proc'[j] = proc[j]
    BY DEF Handle, Refuse, Obey, DieObeying, TypeOK
  <1>5. /\ proc'[i] \in {proc[i], "quitting", "ended"}
        /\ proc'[i] = "quitting" => Moving(i) \/ Stopping(c)
    BY <1>1 DEF Handle, Refuse, Obey, DieObeying, TypeOK, Moving, Stopping
  <1>6. cmd[c] = "alive" => reply'[c] # "false"
    BY DEF Handle, Refuse, Obey, DieObeying, Carry, Accepted, TypeOK
  <1>7. \A j \in Instances : Live(j)' => Live(j)
    BY <1>1, <1>4 DEF Live
  <1>8. \A d \in Callers : Starting(d) => \A j \in Instances : ~Moving(j)'
    BY <1>1, <1>4, <1>5 DEF Calm, Moving
  <1>9. \A j \in Instances :
           /\ proc'[j] \in {"starting", "serving", "quitting"} => path' = j /\ owns'[j]
           /\ proc'[j] = "unlinked" => path' = NoOne
           /\ proc'[j] = "bound" => path' = j
    BY <1>1, <1>4, <1>5 DEF Calm
  <1> QED
    <2>1. \A j, k \in Instances : Live(j)' /\ Live(k)' => j = k
      BY <1>7 DEF Calm
    <2>2. \A d, e \in Callers : Starting(d)' /\ Starting(e)' => d = e
      BY <1>3 DEF Calm
    <2>3. \A d \in Callers : Starting(d)' => \A e \in Callers : ~Stopping(e)'
      BY <1>3 DEF Calm
    <2>4. \A d \in Callers : cpc'[d] = "launching" => \A j \in Instances : ~Live(j)'
      BY <1>1, <1>7 DEF Calm
    <2>5. ASSUME NEW d \in Callers, cpc'[d] = "waiting", cmd'[d] = "alive"
          PROVE  /\ reply'[d] # "false"
                 /\ \A j \in Instances : Live(j)' => j = peer'[d]
      <3>1. cpc[d] = "waiting" /\ cmd[d] = "alive" /\ peer'[d] = peer[d]
        BY <1>1, <2>5
      <3>2. reply[d] # "false" /\ \A j \in Instances : Live(j) => j = peer[d]
        BY <3>1 DEF Calm
      <3>3. reply'[d] # "false"
        BY <1>2, <1>6, <3>1, <3>2
      <3> QED
        BY <1>7, <3>1, <3>2, <3>3
    <2>6. \A d \in Callers : Starting(d)' => \A j \in Instances : ~Moving(j)'
      BY <1>8, <1>3
    <2> QED
      BY <1>9, <2>1, <2>2, <2>3, <2>4, <2>5, <2>6 DEF Calm

LEMMA NextCalm == TypeOK /\ CalmInv /\ [Next]_vars => CalmInv'
  <1> SUFFICES ASSUME TypeOK, CalmInv, [Next]_vars, ~hasty' PROVE Calm'
    BY DEF CalmInv
  <1>1. Calm
    BY DEF CalmInv, Next, vars, Exec, Install, Uninstall, SendCmd, Run, CtlStart,
       BeginRun, CallerStep, AskAlive, Return, Launch, ServiceStep, SetPathUnlink,
       SetPathBind, SetPathListen, StartService, LoopExit, CloseUnlink, Crash, Handle
  <1>2. CASE UNCHANGED vars
    BY <1>1, <1>2 DEF vars, Calm, Live, Moving, Starting, Stopping
  <1> QED
    BY <1>1, <1>2, ExecCalm, CallerStepCalm, ServiceCalm, HandleCalm DEF Next

THEOREM SpecCalmInv == Spec => []CalmInv
  <1>1. Init => CalmInv
    BY DEF Init, CalmInv, Calm, Live, Moving, Starting, Stopping
  <1> QED
    BY <1>1, NextCalm, SpecTypeOK, PTL DEF Spec

\* With starts and stops one at a time there is one process at most.
THEOREM SpecUnhurriedIsSingle == Spec => []UnhurriedIsSingle
  <1>1. CalmInv => UnhurriedIsSingle
    BY DEF CalmInv, Calm, UnhurriedIsSingle
  <1> QED
    BY <1>1, SpecCalmInv, PTL

\* With starts and stops one at a time the socket file leads to it.
THEOREM SpecUnhurriedIsReachable == Spec => []UnhurriedIsReachable
  <1>1. CalmInv => UnhurriedIsReachable
    BY DEF CalmInv, Calm, UnhurriedIsReachable, Listening
  <1> QED
    BY <1>1, SpecCalmInv, PTL

===============================================================================
