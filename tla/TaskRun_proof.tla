---------------------------- MODULE TaskRun_proof ----------------------------
(***************************************************************************)
(* Proofs about TaskRun: for every set of jobs, every period and any       *)
(* number of outside changes.                                              *)
(***************************************************************************)
EXTENDS TaskRun, DataInterval_proof

LEMMA ConstantTypes ==
    /\ JobInterval \in Intervals
    /\ JobInterval.freq \in SubDaily
    /\ JobInterval.freq \in Repeating
    /\ NoJob \notin Jobs
    /\ StartDate \in Time
    /\ MinClock \in Time
    /\ MaxEdits \in Nat
  BY RunAssumption DEF Time, Repeating

\* The job of main is none only where no job is handled.
MainJob == main.pc \in Updating \cup {"state", "setState"} => main.job \in Jobs

TInv == TypeOK /\ MainJob

LEMMA InitTInv == Init => TInv
  BY ConstantTypes DEF Init, TInv, TypeOK, MainJob, Main, At, MainPCs, ThreadPCs,
     Updating, Time, NoTime

LEMMA CaughtUpType == now \in Time => CaughtUp \in Time
  <1> SUFFICES ASSUME now \in Time, ~(now <= StartDate) PROVE CaughtUp \in Time
    BY ConstantTypes DEF CaughtUp
  <1> DEFINE p == Period(JobInterval)
  <1>1. p \in Nat \ {0}
    BY ConstantTypes, PeriodNat, RunAssumption DEF Progressive
  <1>2. now - StartDate + p - 1 \in Nat
    BY <1>1, ConstantTypes DEF Time
  <1> HIDE DEF p
  <1>3. (now - StartDate + p - 1) \div p \in Nat
    BY <1>1, <1>2, DivNat
  <1>4. p * ((now - StartDate + p - 1) \div p) \in Nat
    BY <1>1, <1>3, ProductNat
  <1> QED
    BY <1>4, ConstantTypes DEF CaughtUp, Time, p

LEMMA WorldTInv ==
    ASSUME TInv, Tick \/ Disconnect \/ Kill \/ Boot \/ StartTasks
                     \/ \E j \in Jobs : Edit(j) \/ LoadTask(j)
    PROVE  TInv'
  <1> USE DEF TInv, TypeOK, MainJob, row, linkVars, mem, histVars
  <1>1. CASE Tick
    BY <1>1 DEF Tick, Time
  <1>2. CASE Disconnect
    BY <1>2 DEF Disconnect
  <1>3. CASE Kill
    BY <1>3 DEF Kill, Main, At, MainPCs, ThreadPCs, Updating, Time, NoTime
  <1>4. CASE Boot
    BY <1>4 DEF Boot, At, Main, MainPCs, Updating, Time, NoTime
  <1>5. CASE StartTasks
    BY <1>5 DEF StartTasks, Idle, At, Main, MainPCs, ThreadPCs, Updating,
       Time, NoTime
  <1>6. ASSUME NEW j \in Jobs, Edit(j) PROVE TInv'
    <2>1. PICK e \in BOOLEAN, k \in {"UPDATE", "STATE"} :
              /\ dbEnabled' = [dbEnabled EXCEPT ![j] = e]
              /\ notes' = IF conn = "listening"
                          THEN Append(notes, [kind |-> k, job |-> j]) ELSE notes
      BY <1>6 DEF Edit
    <2>2. dbEnabled' \in [Jobs -> BOOLEAN]
      BY <2>1
    <2>3. notes' \in Seq(Note)
      <3>1. [kind |-> k, job |-> j] \in Note
        BY DEF Note
      <3> QED
        BY <2>1, <3>1
    <2>4. edits' \in 0 .. MaxEdits
      BY <1>6, ConstantTypes DEF Edit
    <2> QED
      BY <1>6, <2>2, <2>3, <2>4 DEF Edit
  <1>7. ASSUME NEW j \in Jobs, LoadTask(j) PROVE TInv'
    <2>1. NextStart(JobInterval, dbLastRun[j], now) \in Time /\ CaughtUp \in Time
      BY NextStartType, CaughtUpType, ConstantTypes
    <2> QED
      BY <1>7, <2>1 DEF LoadTask, ThreadPCs, Time, NoTime
  <1> QED
    BY <1>1, <1>2, <1>3, <1>4, <1>5, <1>6, <1>7

LEMMA OwnUpdateType ==
    ASSUME notes \in Seq(Note), edits \in 0 .. MaxEdits, NEW j \in Jobs, OwnUpdate(j)
    PROVE  UNCHANGED conn /\ notes' \in Seq(Note) /\ edits' \in 0 .. MaxEdits
  <1>1. [kind |-> "UPDATE", job |-> j] \in Note
    BY DEF Note
  <1>2. notes' \in Seq(Note)
    BY <1>1 DEF OwnUpdate
  <1>3. edits' \in 0 .. MaxEdits
    BY ConstantTypes DEF OwnUpdate
  <1> QED
    BY <1>2, <1>3 DEF OwnUpdate

LEMMA ThreadTInv ==
    ASSUME TInv, NEW j \in Jobs, Run(j)
    PROVE  TInv'
  <1> USE DEF TInv, TypeOK, MainJob, Goto, ThreadPCs, Recording, row, linkVars, mem,
          histVars
  <1>1. CASE TestEnabled(j)
    BY <1>1 DEF TestEnabled
  <1>2. CASE Poll(j)
    BY <1>2 DEF Poll
  <1>3. ASSUME NEW from, NEW to \in ThreadPCs, SetLast(j, from, to) PROVE TInv'
    BY <1>3 DEF SetLast, UpdateInProgress
  <1>4. ASSUME NEW from, NEW to \in ThreadPCs, SetNext(j, from, to) PROVE TInv'
    <2>1. NextStart(JobInterval, stamp[j], now) \in Time
      BY NextStartType, ConstantTypes
    <2> QED
      BY <1>4, <2>1 DEF SetNext
  <1>5. ASSUME NEW from, NEW to \in ThreadPCs, EmitLast(j, from, to) PROVE TInv'
    <2>1. [job |-> j, time |-> lastRun[j]] \in Event
      BY DEF Event
    <2>2. posted' \in Seq(Event)
      BY <1>5, <2>1 DEF EmitLast
    <2>3. lost' \in [Jobs -> BOOLEAN]
      BY <1>5 DEF EmitLast
    <2> QED
      BY <1>5, <2>2, <2>3 DEF EmitLast
  <1>6. CASE Reopen(j)
    BY <1>6 DEF Reopen
  <1>7. CASE SetPid(j)
    BY <1>7, OwnUpdateType DEF SetPid
  <1>8. CASE Exec(j)
    <2>1. sinceOff' \in [Jobs -> 0 .. 2]
      <3>1. CASE enabled[j] \/ sinceOff[j] = 2
        BY <1>8, <3>1 DEF Exec
      <3>2. CASE ~(enabled[j] \/ sinceOff[j] = 2)
        <4>1. sinceOff[j] + 1 \in 0 .. 2
          BY <3>2
        <4> QED
          BY <1>8, <3>2, <4>1 DEF Exec
      <3> QED
        BY <3>1, <3>2
    <2>2. outcome' \in [Jobs -> {"none", "running", "ok", "error", "killed"}]
      BY <1>8 DEF Exec
    <2> QED
      BY <1>8, <2>1, <2>2 DEF Exec
  <1>9. CASE ClearPid(j)
    BY <1>9, OwnUpdateType DEF ClearPid
  <1> QED
    BY <1>1, <1>2, <1>3, <1>4, <1>5, <1>6, <1>7, <1>8, <1>9 DEF Run, Record

LEMMA MainTInv ==
    ASSUME TInv, MainLoop
    PROVE  TInv'
  <1> USE DEF TInv, TypeOK, MainJob, MainPCs, Updating, row, linkVars, mem, histVars
  <1>1. CASE UpdateLastRunTask
    <2>1. posted[1] \in Event /\ posted' \in Seq(Event)
      BY <1>1 DEF UpdateLastRunTask
    <2>2. posted[1].job \in Jobs /\ posted[1].time \in Time
      BY <2>1 DEF Event
    <2>3. CASE /\ dbLastRun' = [dbLastRun EXCEPT ![posted[1].job] = posted[1].time]
               /\ OwnUpdate(posted[1].job) /\ UNCHANGED <<main, lost>>
      <3>1. UNCHANGED conn /\ notes' \in Seq(Note) /\ edits' \in 0 .. MaxEdits
        BY <2>2, <2>3, OwnUpdateType
      <3> QED
        BY <1>1, <2>1, <2>2, <2>3, <3>1 DEF UpdateLastRunTask
    <2>4. CASE /\ main' = At("reconnect")
               /\ lost' = [lost EXCEPT ![posted[1].job] = @ \/ IsLast(posted[1])]
               /\ UNCHANGED <<dbLastRun, linkVars>>
      <3>1. lost' \in [Jobs -> BOOLEAN]
        BY <2>2, <2>4 DEF IsLast
      <3> QED
        BY <1>1, <2>1, <2>4, <3>1 DEF UpdateLastRunTask, At, Main, Time, NoTime
    <2> QED
      BY <1>1, <2>3, <2>4 DEF UpdateLastRunTask
  <1>2. CASE SystemEventHandler
    BY <1>2 DEF SystemEventHandler, Idle, At, Main, Time, NoTime
  <1>3. CASE TakeNote
    <2>1. notes[1] \in Note /\ notes' \in Seq(Note)
      BY <1>3 DEF TakeNote
    <2>2. notes[1].job \in Jobs
      BY <2>1 DEF Note
    <2> QED
      BY <1>3, <2>1, <2>2 DEF TakeNote, Main, Time, NoTime
  <1>4. CASE SelectState
    BY <1>4 DEF SelectState, MainGoto, Idle, At, Main, Time, NoTime
  <1>5. CASE SetState
    BY <1>5 DEF SetState, AssignEnabled, MainGoto, Idle, At, Main, Time, NoTime
  <1>6. CASE SelectRow
    BY <1>6 DEF SelectRow, MainGoto, Idle, At, Main, Time, NoTime
  <1>7. CASE UpdateEnabled
    <2>1. main.job \in Jobs /\ main.flag \in BOOLEAN /\ main.time \in Time
      BY <1>7 DEF UpdateEnabled, MainGoto
    <2>2. main' \in [pc : MainPCs, job : Jobs \cup {NoJob}, flag : BOOLEAN,
                     time : Time] /\ main'.job \in Jobs
      BY <1>7, <2>1 DEF UpdateEnabled, MainGoto, Main
    <2>3. enabled' \in [Jobs -> BOOLEAN] /\ sinceOff' \in [Jobs -> 0 .. 2]
      BY <1>7, <2>1 DEF UpdateEnabled, AssignEnabled
    <2>4. /\ UNCHANGED <<now, row, linkVars, pc, stamp, posted, lost, outcome>>
          /\ UNCHANGED <<lastRun, nextRun, dirty>>
      BY <1>7 DEF UpdateEnabled, AssignEnabled, MainGoto
    <2> QED
      BY <2>2, <2>3, <2>4
  <1>8. CASE UpdateTimes
    <2> USE DEF MainGoto, Main
    <2>1. NextOfLast \in Time /\ main.time \in Time /\ main.job \in Jobs
      <3>1. main.job \in Jobs
        BY <1>8 DEF UpdateTimes, AssignLast, AssignNext, Read
      <3> QED
        BY <3>1, NextStartType, ConstantTypes DEF NextOfLast, LastNow
    <2>2. ASSUME NEW from, NEW to \in Updating, NEW v \in Time, AssignLast(from, to, v)
          PROVE  TInv'
      BY <2>1, <2>2 DEF AssignLast, Time, NoTime
    <2>3. ASSUME NEW from, NEW to \in Updating, NEW v \in Time,
                 Read(from, Main(to, main.job, FALSE, v))
          PROVE  TInv'
      BY <2>1, <2>3 DEF Read
    <2>4. ASSUME NEW from, Read(from, Idle)
          PROVE  TInv'
      BY <2>4 DEF Read, Idle, At, Time, NoTime
    <2>5. ASSUME AssignNext("storeNext", main.time)
          PROVE  TInv'
      BY <2>1, <2>5 DEF AssignNext, Idle, At, Time, NoTime
    <2>6. CASE Read("branch", Main(IF LastNow = NoTime THEN "first" ELSE "next",
                                   main.job, FALSE, NoTime))
      BY <2>3, <2>6 DEF Time, NoTime
    <2>7. CASE Read("loop", IF LastNow < now
                            THEN Main("store", main.job, FALSE, NextOfLast)
                            ELSE Idle)
      BY <2>1, <2>3, <2>4, <2>7
    <2> QED
      BY <1>8, <2>1, <2>2, <2>3, <2>5, <2>6, <2>7, ConstantTypes DEF UpdateTimes
  <1> QED
    BY <1>1, <1>2, <1>3, <1>4, <1>5, <1>6, <1>7, <1>8 DEF MainLoop

LEMMA NextTInv == TInv /\ [Next]_vars => TInv'
  <1> SUFFICES ASSUME TInv, [Next]_vars PROVE TInv'
    OBVIOUS
  <1>1. CASE UNCHANGED vars
    BY <1>1 DEF TInv, TypeOK, MainJob, vars, row, linkVars, mem, histVars
  <1> QED
    BY <1>1, WorldTInv, ThreadTInv, MainTInv DEF Next

\* Type correctness.
THEOREM SpecTypeOK == Spec => []TypeOK
  <1>1. TInv => TypeOK
    BY DEF TInv
  <1> QED
    BY <1>1, InitTInv, NextTInv, PTL DEF Spec

-----------------------------------------------------------------------------
(***************************************************************************)
(* Disabling a job.                                                        *)
(***************************************************************************)
\* The thread of a disabled Task that has executed the action since is on its
\* way to the head of the loop, or there.
OffInv ==
    \A j \in Jobs :
        /\ enabled[j] => sinceOff[j] = 0
        /\ sinceOff[j] <= 1
        /\ sinceOff[j] # 0 => pc[j] \in {"off", "loaded", "head", "hoisted", "unpid"}

LEMMA NextOffInv == TInv /\ OffInv /\ [Next]_vars => OffInv'
  <1> SUFFICES ASSUME TInv, OffInv, [Next]_vars PROVE OffInv'
    OBVIOUS
  <1> USE DEF TInv, TypeOK, OffInv
  <1>1. CASE UNCHANGED <<enabled, sinceOff, pc>>
    BY <1>1
  <1>2. CASE Kill
    BY <1>2 DEF Kill
  <1>3. CASE StartTasks
    BY <1>3 DEF StartTasks, mem, histVars
  <1>4. ASSUME NEW k \in Jobs, LoadTask(k) PROVE OffInv'
    BY <1>4 DEF LoadTask
  <1>5. ASSUME NEW k \in Jobs, Exec(k) PROVE OffInv'
    <2>1. pc[k] = "exec" /\ sinceOff[k] = 0 /\ UNCHANGED enabled
      BY <1>5 DEF Exec, Goto, mem
    <2>2. pc' \in {[pc EXCEPT ![k] = "unpid"], [pc EXCEPT ![k] = "head"]}
      BY <1>5 DEF Exec, Goto
    <2>3. sinceOff' = IF enabled[k] THEN sinceOff ELSE [sinceOff EXCEPT ![k] = 1]
      BY <1>5, <2>1 DEF Exec
    <2> QED
      BY <2>1, <2>2, <2>3
  <1>6. ASSUME NEW k \in Jobs, Run(k), ~Exec(k) PROVE OffInv'
    <2>1. UNCHANGED <<enabled, sinceOff>>
      BY <1>6 DEF Run, TestEnabled, Poll, Record, SetLast, SetNext, EmitLast, Reopen,
                  SetPid, ClearPid, mem, histVars
    <2>2. \E to \in ThreadPCs :
             /\ pc' = [pc EXCEPT ![k] = to]
             /\ sinceOff[k] # 0 => to \in {"head", "hoisted"}
      BY <1>6 DEF Run, TestEnabled, Poll, Record, SetLast, SetNext, EmitLast, Reopen,
                  SetPid, ClearPid, Goto, ThreadPCs, Recording
    <2> QED
      BY <2>1, <2>2
  <1>7. ASSUME AssignEnabled(main.job, main.flag), UNCHANGED pc, main.job \in Jobs
        PROVE  OffInv'
    BY <1>7 DEF AssignEnabled
  <1>8. CASE SetState \/ UpdateEnabled
    <2>1. AssignEnabled(main.job, main.flag) /\ UNCHANGED pc /\ main.job \in Jobs
      BY <1>8 DEF SetState, UpdateEnabled, MainGoto, MainJob, Updating
    <2> QED
      BY <1>7, <2>1
  <1>9. CASE MainLoop /\ ~SetState /\ ~UpdateEnabled
    <2>1. UNCHANGED <<enabled, sinceOff, pc>>
      BY <1>9 DEF MainLoop, UpdateLastRunTask, SystemEventHandler, TakeNote, SelectState,
         SelectRow, UpdateTimes, AssignLast, AssignNext, Read, MainGoto, mem, histVars
    <2> QED
      BY <2>1, <1>1
  <1>10. CASE Tick \/ Disconnect \/ Boot \/ \E j \in Jobs : Edit(j)
    <2>1. UNCHANGED <<enabled, sinceOff, pc>>
      BY <1>10 DEF Tick, Disconnect, Boot, Edit, mem, histVars
    <2> QED
      BY <2>1, <1>1
  <1>11. CASE UNCHANGED vars
    BY <1>11, <1>1 DEF vars, mem, histVars
  <1> QED
    BY <1>2, <1>3, <1>4, <1>5, <1>6, <1>8, <1>9, <1>10, <1>11 DEF Next

\* After a Task is disabled its action is executed at most once more.
THEOREM SpecAtMostOneRunAfterDisable == Spec => []AtMostOneRunAfterDisable
  <1>1. Init => OffInv
    BY DEF Init, OffInv
  <1>2. OffInv => AtMostOneRunAfterDisable
    BY DEF OffInv, AtMostOneRunAfterDisable
  <1> QED
    BY <1>1, <1>2, InitTInv, NextTInv, NextOffInv, PTL DEF Spec

-----------------------------------------------------------------------------
(***************************************************************************)
(* The pid in the row.                                                     *)
(***************************************************************************)
LEMMA NextPid == TInv /\ PidLeftByFailure /\ [Next]_vars => PidLeftByFailure'
  <1> SUFFICES ASSUME TInv, PidLeftByFailure, [Next]_vars PROVE PidLeftByFailure'
    OBVIOUS
  <1> USE DEF TInv, TypeOK, PidLeftByFailure
  <1>1. CASE UNCHANGED <<dbPid, outcome, pc>>
    BY <1>1
  <1>2. CASE Kill
    BY <1>2 DEF Kill, row
  <1>3. CASE StartTasks
    BY <1>3 DEF StartTasks, row, histVars
  <1>4. ASSUME NEW k \in Jobs, LoadTask(k) PROVE PidLeftByFailure'
    BY <1>4 DEF LoadTask, row
  <1>5. ASSUME NEW k \in Jobs, SetPid(k) \/ Exec(k) \/ ClearPid(k)
        PROVE  PidLeftByFailure'
    <2>1. CASE SetPid(k)
      BY <2>1 DEF SetPid, Goto
    <2>2. CASE Exec(k)
      BY <2>2 DEF Exec, Goto, row
    <2>3. CASE ClearPid(k)
      BY <2>3 DEF ClearPid, Goto
    <2> QED
      BY <1>5, <2>1, <2>2, <2>3
  <1>6. ASSUME NEW k \in Jobs, Run(k), ~(SetPid(k) \/ Exec(k) \/ ClearPid(k))
        PROVE  PidLeftByFailure'
    <2>1. UNCHANGED <<dbPid, outcome>>
      BY <1>6 DEF Run, TestEnabled, Poll, Record, SetLast, SetNext, EmitLast, Reopen,
                  row, histVars
    <2>2. pc[k] \notin {"exec", "unpid"} /\ \E to : pc' = [pc EXCEPT ![k] = to]
      BY <1>6 DEF Run, TestEnabled, Poll, Record, SetLast, SetNext, EmitLast, Reopen,
                  Goto
    <2> QED
      BY <2>1, <2>2
  <1>7. CASE MainLoop
    <2>1. UNCHANGED <<dbPid, outcome, pc>>
      BY <1>7 DEF MainLoop, UpdateLastRunTask, SystemEventHandler, TakeNote, SelectState,
         SetState, AssignEnabled, SelectRow, UpdateEnabled, UpdateTimes, AssignLast,
         AssignNext, Read, MainGoto, row, histVars
    <2> QED
      BY <2>1, <1>1
  <1>8. CASE Tick \/ Disconnect \/ Boot \/ \E j \in Jobs : Edit(j)
    <2>1. UNCHANGED <<dbPid, outcome, pc>>
      BY <1>8 DEF Tick, Disconnect, Boot, Edit, row, histVars
    <2> QED
      BY <2>1, <1>1
  <1>9. CASE UNCHANGED vars
    BY <1>9, <1>1 DEF vars, row, histVars
  <1> QED
    BY <1>2, <1>3, <1>4, <1>5, <1>6, <1>7, <1>8, <1>9 DEF Next

\* A pid that stands in the row of an idle job was left by a failure.
THEOREM SpecPidLeftByFailure == Spec => []PidLeftByFailure
  <1>1. Init => PidLeftByFailure
    BY DEF Init, PidLeftByFailure
  <1> QED
    BY <1>1, InitTInv, NextTInv, NextPid, PTL DEF Spec

-----------------------------------------------------------------------------
(***************************************************************************)
(* Enabled in memory and in the row.                                       *)
(***************************************************************************)
NoNote(j) == \A i \in 1 .. Len(notes) : notes[i].job # j

\* Main handles a notification of j and has not stored the flag yet.
Handling(j) == main.pc \in {"state", "select", "setState", "enabled"} /\ main.job = j

\* A difference between the row and the Task has a notification to its name,
\* waiting or in the hands of the main thread; once main has read the flag of the
\* row, a newer value of it has a notification too.
AgreeInv ==
    /\ main.pc = "dead" => \A j \in Jobs : pc[j] = "off"
    /\ main.pc \notin {"dead", "boot"} => \A j \in Jobs : pc[j] # "off"
    /\ \A j \in Jobs :
          pc[j] # "off" /\ conn = "listening" /\ NoNote(j) =>
              /\ main.pc \in {"setState", "enabled"} /\ main.job = j
                     => main.flag = dbEnabled[j]
              /\ ~Handling(j) => enabled[j] = dbEnabled[j]

\* What OwnUpdate adds to the notifications only weakens AgreeInv.
LEMMA OwnUpdateNote ==
    ASSUME TInv, NEW k \in Jobs, OwnUpdate(k) \/ UNCHANGED linkVars, NEW j \in Jobs,
           NoNote(j)'
    PROVE  NoNote(j)
  <1> USE DEF TInv, TypeOK, NoNote
  <1>1. CASE UNCHANGED notes
    BY <1>1
  <1>2. CASE notes' = Append(notes, [kind |-> "UPDATE", job |-> k])
    <2> DEFINE n == [kind |-> "UPDATE", job |-> k]
    <2>1. n \in Note
      BY DEF Note
    <2> HIDE DEF n
    <2>2. Len(notes') = Len(notes) + 1 /\ Len(notes) \in Nat
              /\ \A i \in 1 .. Len(notes) : notes'[i] = notes[i]
      BY <1>2, <2>1 DEF n
    <2> QED
      BY <2>2
  <1> QED
    BY <1>1, <1>2 DEF OwnUpdate, linkVars

LEMMA EditAgree ==
    ASSUME TInv, AgreeInv, NEW k \in Jobs, Edit(k)
    PROVE  AgreeInv'
  <1> USE DEF TInv, TypeOK, AgreeInv, NoNote
  <1>1. UNCHANGED <<conn, enabled, pc, main>>
    BY DEF Edit, mem
  <1>2. \A j \in Jobs : j # k => dbEnabled'[j] = dbEnabled[j]
    BY DEF Edit
  <1>3. CASE conn # "listening"
    BY <1>1, <1>3 DEF Handling
  <1>4. CASE conn = "listening"
    <2>1. PICK n \in Note : n.job = k /\ notes' = Append(notes, n)
      <3>1. PICK x \in {"UPDATE", "STATE"} : notes' = Append(notes, [kind |-> x, job |-> k])
        BY <1>4 DEF Edit
      <3>2. [kind |-> x, job |-> k] \in Note
        BY DEF Note
      <3> QED
        BY <3>1, <3>2
    <2>2. /\ Len(notes') = Len(notes) + 1
          /\ notes'[Len(notes) + 1] = n
          /\ \A i \in 1 .. Len(notes) : notes'[i] = notes[i]
      BY <2>1
    <2>3. Len(notes) \in Nat
      OBVIOUS
    <2>4. ~NoNote(k)' /\ \A j \in Jobs : NoNote(j)' => NoNote(j)
      BY <2>1, <2>2, <2>3
    <2> HIDE DEF NoNote
    <2> QED
      BY <1>1, <1>2, <2>4 DEF Handling
  <1> QED
    BY <1>3, <1>4

LEMMA TakeNoteAgree ==
    ASSUME TInv, AgreeInv, TakeNote
    PROVE  AgreeInv'
  <1> USE DEF TInv, TypeOK, AgreeInv
  <1>1. /\ UNCHANGED <<conn, enabled, dbEnabled, pc>>
        /\ main.pc = "idle" /\ notes # <<>> /\ notes' = Tail(notes)
        /\ main'.pc \in {"state", "select"} /\ main'.job = notes[1].job
    BY DEF TakeNote, Main, mem, row
  <1>2. ASSUME NEW j \in Jobs, NoNote(j)', notes[1].job # j PROVE NoNote(j)
    <2>1. /\ Len(notes') = Len(notes) - 1 /\ Len(notes) \in Nat \ {0}
          /\ \A i \in 1 .. Len(notes') : notes'[i] = notes[i + 1]
      BY <1>1
    <2> SUFFICES ASSUME NEW i \in 1 .. Len(notes) PROVE notes[i].job # j
      BY DEF NoNote
    <2>2. CASE i = 1
      BY <1>2, <2>2
    <2>3. CASE i # 1
      <3>1. i - 1 \in 1 .. Len(notes') /\ notes'[i - 1] = notes[i]
        BY <2>1, <2>3
      <3> QED
        BY <1>2, <3>1 DEF NoNote
    <2> QED
      BY <2>2, <2>3
  <1> QED
    BY <1>1, <1>2 DEF Handling

LEMMA NextAgree == TInv /\ AgreeInv /\ [Next]_vars => AgreeInv'
  <1> SUFFICES ASSUME TInv, AgreeInv, [Next]_vars PROVE AgreeInv'
    OBVIOUS
  <1> USE DEF TInv, TypeOK, AgreeInv, Handling, NoNote
  <1>1. CASE Tick
    BY <1>1 DEF Tick, row, linkVars, mem
  <1>2. CASE Disconnect
    BY <1>2 DEF Disconnect
  <1>3. CASE Kill
    BY <1>3 DEF Kill, At, Main
  <1>4. CASE Boot
    BY <1>4 DEF Boot, At, Main
  <1>5. CASE StartTasks
    BY <1>5 DEF StartTasks, Idle, At, Main, row, linkVars, mem
  <1>6. ASSUME NEW k \in Jobs, LoadTask(k) PROVE AgreeInv'
    BY <1>6 DEF LoadTask, row, linkVars
  <1>7. ASSUME NEW k \in Jobs, Run(k) PROVE AgreeInv'
    <2>1. UNCHANGED <<main, conn, dbEnabled, enabled>>
      BY <1>7 DEF Run, TestEnabled, Poll, Record, SetLast, SetNext, EmitLast, Reopen,
                  SetPid, Exec, ClearPid, OwnUpdate, mem, row, linkVars
    <2>2. pc[k] # "off" /\ \E to : to # "off" /\ pc' = [pc EXCEPT ![k] = to]
      BY <1>7 DEF Run, TestEnabled, Poll, Record, SetLast, SetNext, EmitLast, Reopen,
                  SetPid, Exec, ClearPid, Goto
    <2>3. OwnUpdate(k) \/ UNCHANGED linkVars
      BY <1>7 DEF Run, TestEnabled, Poll, Record, SetLast, SetNext, EmitLast, Reopen,
                  SetPid, Exec, ClearPid
    <2>4. \A j \in Jobs : NoNote(j)' => NoNote(j)
      BY <2>3, OwnUpdateNote
    <2> HIDE DEF NoNote
    <2> QED
      BY <2>1, <2>2, <2>4
  <1>8. CASE UpdateLastRunTask
    <2>1. UNCHANGED <<conn, dbEnabled, enabled, pc>>
      BY <1>8 DEF UpdateLastRunTask, OwnUpdate, mem, linkVars
    <2>2. posted[1].job \in Jobs
      <3>1. posted[1] \in Event
        BY <1>8 DEF UpdateLastRunTask
      <3> QED
        BY <3>1 DEF Event
    <2>3. OwnUpdate(posted[1].job) \/ UNCHANGED linkVars
      BY <1>8 DEF UpdateLastRunTask
    <2>4. \A j \in Jobs : NoNote(j)' => NoNote(j)
      BY <2>2, <2>3, OwnUpdateNote
    <2>5. main.pc = "idle" /\ (main' = main \/ main'.pc = "reconnect")
      BY <1>8 DEF UpdateLastRunTask, At, Main
    <2> HIDE DEF NoNote
    <2> QED
      BY <2>1, <2>4, <2>5
  <1>9. CASE SystemEventHandler
    BY <1>9 DEF SystemEventHandler, Idle, At, Main
  <1>10. CASE SelectState
    BY <1>10 DEF SelectState, MainGoto, Idle, At, Main, mem, row, linkVars
  <1>11. CASE SelectRow
    BY <1>11 DEF SelectRow, MainGoto, Idle, At, Main, mem, row, linkVars
  <1>12. CASE SetState \/ UpdateEnabled
    <2>1. /\ main.pc \in {"setState", "enabled"} /\ main.job \in Jobs
          /\ main'.pc \in {"idle", "last"}
          /\ UNCHANGED <<conn, notes, dbEnabled, pc>>
          /\ enabled' = [enabled EXCEPT ![main.job] = main.flag]
      BY <1>12 DEF SetState, UpdateEnabled, AssignEnabled, MainGoto, Idle, At, Main,
                   row, linkVars, MainJob, Updating
    <2> QED
      BY <2>1
  <1>13. CASE UpdateTimes
    <2>1. UNCHANGED <<conn, notes, dbEnabled, enabled, pc>>
      BY <1>13 DEF UpdateTimes, AssignLast, AssignNext, Read, MainGoto, row, linkVars, mem
    <2>2. main.pc \in Updating \ {"select", "enabled"}
      BY <1>13 DEF UpdateTimes, AssignLast, AssignNext, Read, MainGoto, Updating
    <2>3. main'.pc \in {"idle"} \cup (Updating \ {"select", "enabled"})
      BY <1>13 DEF UpdateTimes, AssignLast, AssignNext, Read, MainGoto, Idle, At, Main,
                   Updating
    <2> QED
      BY <2>1, <2>2, <2>3 DEF Updating
  <1>14. CASE UNCHANGED vars
    BY <1>14 DEF vars, row, linkVars, mem
  <1> QED
    BY <1>1, <1>2, <1>3, <1>4, <1>5, <1>6, <1>7, <1>8, <1>9, <1>10, <1>11, <1>12,
       <1>13, <1>14, EditAgree, TakeNoteAgree DEF Next, MainLoop

\* With no notification waiting, a Task is enabled exactly if its row is.
THEOREM SpecQuiescentEnabledAgrees == Spec => []QuiescentEnabledAgrees
  <1>1. Init => AgreeInv
    BY DEF Init, AgreeInv, At, Main
  <1>2. TInv /\ AgreeInv => QuiescentEnabledAgrees
    <2>1. ASSUME TInv PROVE DOMAIN notes = 1 .. Len(notes)
      BY <2>1 DEF TInv, TypeOK
    <2> QED
      BY <2>1 DEF AgreeInv, QuiescentEnabledAgrees, NoNote, Handling
  <1> QED
    BY <1>1, <1>2, InitTInv, NextTInv, NextAgree, PTL DEF Spec

-----------------------------------------------------------------------------
(***************************************************************************)
(* The way of last_run to the row.                                         *)
(***************************************************************************)
NonePosted(j) == \A i \in 1 .. Len(posted) : posted[i].job # j

\* The i-th event is the last one of its job.
LastOf(j, i) ==
    posted[i].job = j /\ \A k \in i + 1 .. Len(posted) : posted[k].job # j

\* While its record is not lost, the latest start of a job is the time of its
\* last event, or the row has it already.
DurableInv ==
    \A j \in Jobs :
        ~lost[j] /\ pc[j] \notin Recording =>
            /\ \A i \in 1 .. Len(posted) : LastOf(j, i) => posted[i].time = stamp[j]
            /\ NonePosted(j) => dbLastRun[j] = stamp[j]

LEMMA EmitDurable ==
    ASSUME TInv, DurableInv, NEW k \in Jobs, NEW from, NEW to \in ThreadPCs,
           from \in Recording, EmitLast(k, from, to)
    PROVE  DurableInv'
  <1> USE DEF TInv, TypeOK
  <1> DEFINE n == [job |-> k, time |-> lastRun[k]]
  <1>1. n \in Event /\ n.job = k /\ n.time = lastRun[k]
    BY DEF Event
  <1>2. posted' = Append(posted, n)
    BY DEF EmitLast
  <1> HIDE DEF n
  <1>3. /\ Len(posted) \in Nat /\ Len(posted') = Len(posted) + 1
        /\ posted'[Len(posted) + 1] = n
        /\ \A i \in 1 .. Len(posted) : posted'[i] = posted[i]
    BY <1>1, <1>2
  <1>4. /\ UNCHANGED <<dbLastRun, stamp>>
        /\ pc' = [pc EXCEPT ![k] = to] /\ pc[k] \in Recording
        /\ lost' = [lost EXCEPT ![k] = lastRun[k] # stamp[k]]
    BY DEF EmitLast, Goto, row
  <1>5. ASSUME ~lost'[k], NEW i \in 1 .. Len(posted'), LastOf(k, i)'
        PROVE  posted'[i].time = stamp'[k]
    <2>1. i = Len(posted) + 1
      BY <1>1, <1>3, <1>5 DEF LastOf
    <2> QED
      BY <2>1, <1>1, <1>3, <1>4, <1>5
  <1>6. ~NonePosted(k)'
    BY <1>1, <1>3 DEF NonePosted
  <1>7. ASSUME NEW j \in Jobs, j # k, ~lost'[j], pc'[j] \notin Recording
        PROVE  /\ \A i \in 1 .. Len(posted') : LastOf(j, i)' => posted'[i].time = stamp'[j]
               /\ NonePosted(j)' => dbLastRun'[j] = stamp'[j]
    <2>1. ~lost[j] /\ pc[j] \notin Recording
      BY <1>4, <1>7
    <2>2. ASSUME NEW i \in 1 .. Len(posted'), LastOf(j, i)'
          PROVE  i \in 1 .. Len(posted) /\ LastOf(j, i) /\ posted'[i] = posted[i]
      BY <1>1, <1>3, <1>7, <2>2 DEF LastOf
    <2>3. ASSUME NonePosted(j)', NEW i \in 1 .. Len(posted) PROVE posted[i].job # j
      <3>1. i \in 1 .. Len(posted') /\ posted'[i] = posted[i]
        BY <1>3
      <3> QED
        BY <2>3, <3>1 DEF NonePosted
    <2>4. NonePosted(j)' => NonePosted(j)
      BY <2>3 DEF NonePosted
    <2> QED
      BY <2>1, <2>2, <2>4, <1>4 DEF DurableInv
  <1> QED
    BY <1>5, <1>6, <1>7 DEF DurableInv

\* Taking the first event leaves the others, one place earlier.
LEMMA TailPosted ==
    ASSUME TInv, posted # <<>>, posted' = Tail(posted), NEW j \in Jobs
    PROVE  /\ posted[1] \in Event /\ Len(posted) \in Nat \ {0}
           /\ Len(posted') = Len(posted) - 1
           /\ \A i \in 1 .. Len(posted') : posted'[i] = posted[i + 1]
           /\ \A i \in 1 .. Len(posted') : LastOf(j, i)' => LastOf(j, i + 1)
           /\ NonePosted(j)' /\ posted[1].job # j => NonePosted(j)
           /\ NonePosted(j)' /\ posted[1].job = j => LastOf(j, 1) /\ IsLast(posted[1])
  <1> USE DEF TInv, TypeOK
  <1>1. /\ posted[1] \in Event /\ Len(posted) \in Nat \ {0}
        /\ Len(posted') = Len(posted) - 1
        /\ \A i \in 1 .. Len(posted') : posted'[i] = posted[i + 1]
    OBVIOUS
  <1>2. ASSUME NEW m \in 2 .. Len(posted)
        PROVE  m - 1 \in 1 .. Len(posted') /\ posted'[m - 1] = posted[m]
    BY <1>1
  <1>3. ASSUME NEW i \in 1 .. Len(posted'), LastOf(j, i)' PROVE LastOf(j, i + 1)
    <2>1. posted[i + 1].job = j
      BY <1>1, <1>3 DEF LastOf
    <2>2. ASSUME NEW m \in i + 2 .. Len(posted) PROVE posted[m].job # j
      <3>1. m - 1 \in i + 1 .. Len(posted') /\ posted'[m - 1] = posted[m]
        BY <1>1, <1>2
      <3> QED
        BY <1>3, <3>1 DEF LastOf
    <2> QED
      BY <2>1, <2>2, <1>1 DEF LastOf
  <1>4. ASSUME NonePosted(j)', NEW m \in 2 .. Len(posted) PROVE posted[m].job # j
    BY <1>2, <1>4 DEF NonePosted
  <1>5. ASSUME NonePosted(j)', posted[1].job # j PROVE NonePosted(j)
    <2>1. ASSUME NEW m \in 1 .. Len(posted) PROVE posted[m].job # j
      <3>1. m = 1 \/ m \in 2 .. Len(posted)
        BY <1>1
      <3> QED
        BY <1>4, <1>5, <3>1
    <2> QED
      BY <2>1 DEF NonePosted
  <1>6. ASSUME NonePosted(j)', posted[1].job = j
        PROVE  LastOf(j, 1) /\ IsLast(posted[1])
    BY <1>4, <1>6 DEF LastOf, IsLast
  <1> QED
    BY <1>1, <1>3, <1>5, <1>6

LEMMA UpdateLastRunDurable ==
    ASSUME TInv, DurableInv, UpdateLastRunTask
    PROVE  DurableInv'
  <1> USE DEF TInv, TypeOK
  <1> DEFINE e == posted[1]
  <1>1. posted # <<>> /\ posted' = Tail(posted) /\ UNCHANGED <<stamp, pc>>
    BY DEF UpdateLastRunTask
  <1>2. e.job \in Jobs
    <2>1. e \in Event
      BY <1>1
    <2> QED
      BY <2>1 DEF Event
  <1>3. \/ dbLastRun' = [dbLastRun EXCEPT ![e.job] = e.time] /\ lost' = lost
        \/ dbLastRun' = dbLastRun /\ lost' = [lost EXCEPT ![e.job] = @ \/ IsLast(e)]
    BY DEF UpdateLastRunTask
  <1> SUFFICES ASSUME NEW j \in Jobs, ~lost'[j], pc'[j] \notin Recording
               PROVE  /\ \A i \in 1 .. Len(posted') :
                            LastOf(j, i)' => posted'[i].time = stamp'[j]
                      /\ NonePosted(j)' => dbLastRun'[j] = stamp'[j]
    BY DEF DurableInv
  <1>4. ~lost[j] /\ pc[j] \notin Recording
    BY <1>1, <1>2, <1>3
  <1>5. \A i \in 1 .. Len(posted') : LastOf(j, i)' => posted'[i].time = stamp'[j]
    <2> SUFFICES ASSUME NEW i \in 1 .. Len(posted'), LastOf(j, i)'
                 PROVE  posted'[i].time = stamp'[j]
      OBVIOUS
    <2>1. i + 1 \in 1 .. Len(posted) /\ LastOf(j, i + 1) /\ posted'[i] = posted[i + 1]
      BY <1>1, TailPosted
    <2> QED
      BY <2>1, <1>1, <1>4 DEF DurableInv
  <1>6. ASSUME NonePosted(j)' PROVE dbLastRun'[j] = stamp'[j]
    <2>1. CASE e.job = j
      <3>1. LastOf(j, 1) /\ IsLast(e) /\ 1 \in 1 .. Len(posted)
        BY <1>1, <1>6, <2>1, TailPosted
      <3>2. e.time = stamp[j]
        BY <3>1, <1>4 DEF DurableInv
      <3>3. dbLastRun' = [dbLastRun EXCEPT ![e.job] = e.time]
        BY <3>1, <1>2, <1>3, <2>1
      <3> QED
        BY <3>2, <3>3, <2>1, <1>1
    <2>2. CASE e.job # j
      <3>1. NonePosted(j)
        BY <1>1, <1>6, <2>2, TailPosted
      <3> QED
        BY <3>1, <1>1, <1>2, <1>3, <1>4, <2>2 DEF DurableInv
    <2> QED
      BY <2>1, <2>2
  <1> QED
    BY <1>5, <1>6

\* A step that touches neither the queue nor the row, and enters the recording
\* of a job whenever it changes what was recorded of it.
LEMMA KeepDurable ==
    ASSUME TInv, DurableInv, UNCHANGED <<posted, dbLastRun>>,
           \A j \in Jobs : pc'[j] \notin Recording =>
               pc[j] \notin Recording /\ lost'[j] = lost[j] /\ stamp'[j] = stamp[j]
    PROVE  DurableInv'
  <1> SUFFICES ASSUME NEW j \in Jobs, ~lost'[j], pc'[j] \notin Recording
               PROVE  /\ \A i \in 1 .. Len(posted') :
                            LastOf(j, i)' => posted'[i].time = stamp'[j]
                      /\ NonePosted(j)' => dbLastRun'[j] = stamp'[j]
    BY DEF DurableInv
  <1>1. ~lost[j] /\ pc[j] \notin Recording /\ stamp'[j] = stamp[j]
    OBVIOUS
  <1>2. \A i \in 1 .. Len(posted) : LastOf(j, i)' => LastOf(j, i)
    BY DEF LastOf
  <1>3. NonePosted(j)' => NonePosted(j)
    BY DEF NonePosted
  <1> QED
    BY <1>1, <1>2, <1>3 DEF DurableInv

LEMMA NextDurable == TInv /\ DurableInv /\ [Next]_vars => DurableInv'
  <1> SUFFICES ASSUME TInv, DurableInv, [Next]_vars PROVE DurableInv'
    OBVIOUS
  <1> USE DEF TInv, TypeOK
  <1>1. CASE UNCHANGED <<posted, lost, dbLastRun, stamp, pc>>
    BY <1>1, KeepDurable
  <1>2. CASE Kill
    <2>1. /\ posted' = <<>> /\ UNCHANGED <<dbLastRun, stamp>>
          /\ \A j \in Jobs : lost'[j] = (dbLastRun[j] # stamp[j])
      BY <1>2 DEF Kill, row
    <2>2. 1 .. Len(posted') = {}
      BY <2>1
    <2> QED
      BY <2>1, <2>2 DEF DurableInv
  <1>3. CASE StartTasks
    <2>1. UNCHANGED <<posted, lost, dbLastRun, stamp>>
      BY <1>3 DEF StartTasks, row, histVars
    <2>2. \A j \in Jobs : pc[j] = "loaded"
      BY <1>3 DEF StartTasks
    <2> QED
      BY <2>1, <2>2, KeepDurable DEF Recording
  <1>4. ASSUME NEW k \in Jobs, LoadTask(k) PROVE DurableInv'
    <2>1. UNCHANGED <<posted, lost, dbLastRun, stamp>>
      BY <1>4 DEF LoadTask, row
    <2>2. pc[k] = "off" /\ pc' = [pc EXCEPT ![k] = "loaded"]
      BY <1>4 DEF LoadTask
    <2> QED
      BY <2>1, <2>2, KeepDurable DEF Recording
  <1>5. ASSUME NEW k \in Jobs, Record(k) PROVE DurableInv'
    <2>1. ASSUME NEW from \in ThreadPCs, NEW to \in Recording,
                 SetLast(k, from, to) \/ SetNext(k, from, to)
          PROVE  DurableInv'
      <3>1. UNCHANGED <<posted, dbLastRun, lost>>
        BY <2>1 DEF SetLast, SetNext, row, histVars
      <3>2. /\ pc' = [pc EXCEPT ![k] = to]
            /\ \/ stamp' = [stamp EXCEPT ![k] = now]
               \/ stamp' = stamp
        BY <2>1 DEF SetLast, SetNext, Goto
      <3> QED
        BY <3>1, <3>2, KeepDurable
    <2>2. ASSUME NEW from \in Recording, NEW to \in ThreadPCs, EmitLast(k, from, to)
          PROVE  DurableInv'
      BY <2>2, EmitDurable
    <2> QED
      BY <1>5, <2>1, <2>2 DEF Record, Recording, ThreadPCs
  <1>6. ASSUME NEW k \in Jobs, Run(k), ~Record(k) PROVE DurableInv'
    <2>1. UNCHANGED <<posted, lost, dbLastRun, stamp>>
      BY <1>6 DEF Run, TestEnabled, Poll, Reopen, SetPid, Exec, ClearPid, row, histVars
    <2>2. pc[k] \notin Recording /\ \E to : pc' = [pc EXCEPT ![k] = to]
      BY <1>6 DEF Run, TestEnabled, Poll, Reopen, SetPid, Exec, ClearPid, Goto, Recording
    <2> QED
      BY <2>1, <2>2, KeepDurable
  <1>7. CASE MainLoop /\ ~UpdateLastRunTask
    <2>1. UNCHANGED <<posted, lost, dbLastRun, stamp, pc>>
      BY <1>7 DEF MainLoop, SystemEventHandler, TakeNote, SelectState, SetState,
         SelectRow, UpdateEnabled, UpdateTimes, AssignLast, AssignNext, Read, MainGoto,
         row, histVars
    <2> QED
      BY <2>1, <1>1
  <1>8. CASE Tick \/ Disconnect \/ Boot \/ \E j \in Jobs : Edit(j)
    <2>1. UNCHANGED <<posted, lost, dbLastRun, stamp, pc>>
      BY <1>8 DEF Tick, Disconnect, Boot, Edit, row, histVars
    <2> QED
      BY <2>1, <1>1
  <1>9. CASE UNCHANGED vars
    BY <1>9, <1>1 DEF vars, row, histVars
  <1> QED
    BY <1>2, <1>3, <1>4, <1>5, <1>6, <1>7, <1>8, <1>9, UpdateLastRunDurable DEF Next

\* The latest start of a job is in its row once its events are served, unless
\* the record was lost.
THEOREM SpecLastRunIsDurable == Spec => []LastRunIsDurable
  <1>1. Init => DurableInv
    BY DEF Init, DurableInv
  <1>2. TInv /\ DurableInv => LastRunIsDurable
    <2>1. ASSUME TInv PROVE DOMAIN posted = 1 .. Len(posted)
      BY <2>1 DEF TInv, TypeOK
    <2> QED
      BY <2>1 DEF DurableInv, LastRunIsDurable, NonePosted
  <1> QED
    BY <1>1, <1>2, InitTInv, NextTInv, NextDurable, PTL DEF Spec

-----------------------------------------------------------------------------
(***************************************************************************)
(* No early rerun.                                                         *)
(***************************************************************************)
\* The latest start of j is known to every later computation of nextRun.
Clean(j) == stamp[j] # NoTime /\ ~dirty[j]

NextRunOf(j) == stamp[j] + Period(JobInterval)

\* What the thread of j computed, or is about to compute, from its stamp.
ThreadClean(j) ==
    /\ pc[j] \notin {"off", "next1", "next2"} => nextRun[j] = NextRunOf(j)
    /\ pc[j] = "last1" => NextRunOf(j) < now

\* What an update() of j in progress read, and is about to store: never a time
\* caught up from the start date.
UpdateClean(j) ==
    main.job = j =>
        /\ main.pc \notin {"first", "loop", "store"}
        /\ main.pc \in {"enabled", "last"} => main.time = stamp[j]
        /\ main.pc \in {"branch", "next"} => lastRun[j] = stamp[j]
        /\ main.pc = "storeNext" => main.time = NextRunOf(j)

CleanInv ==
    \A j \in Jobs :
        /\ stamp[j] <= now
        /\ Clean(j) => ThreadClean(j) /\ UpdateClean(j)

LEMMA PeriodInt == Period(JobInterval) \in Nat
  BY PeriodNat, ConstantTypes

LEMMA KnownNextStart ==
    ASSUME TInv, NEW t \in Time, t # NoTime, t <= now
    PROVE  NextStart(JobInterval, t, now) = t + Period(JobInterval)
  <1>1. now \in Time
    BY DEF TInv, TypeOK
  <1>2. Settled(JobInterval, t)
    BY ConstantTypes DEF Settled, Aligned, Time
  <1> QED
    BY <1>1, <1>2, ConstantTypes, SettledNextStart

LEMMA StampPast ==
    ASSUME TInv, CleanInv, [Next]_vars, NEW j \in Jobs
    PROVE  stamp'[j] <= now'
  <1> USE DEF TInv, TypeOK, CleanInv, Time
  <1>1. CASE Tick
    BY <1>1 DEF Tick
  <1>2. CASE UNCHANGED <<now, stamp>>
    BY <1>2
  <1>3. ASSUME NEW k \in Jobs, NEW from, NEW to, SetLast(k, from, to)
        PROVE  stamp'[j] <= now'
    BY <1>3 DEF SetLast
  <1>4. ASSUME NEW k \in Jobs, Run(k) PROVE stamp'[j] <= now'
    BY <1>2, <1>3, <1>4 DEF Run, TestEnabled, Poll, Record, SetNext, EmitLast, Reopen,
       SetPid, Exec, ClearPid
  <1>5. CASE MainLoop
    BY <1>2, <1>5 DEF MainLoop, UpdateLastRunTask, SystemEventHandler, TakeNote,
       SelectState, SetState, SelectRow, UpdateEnabled, UpdateTimes, AssignLast,
       AssignNext, Read, MainGoto
  <1>6. CASE UNCHANGED vars
    BY <1>2, <1>6 DEF vars
  <1> QED
    BY <1>1, <1>2, <1>4, <1>5, <1>6 DEF Next, Disconnect, Kill, Boot, StartTasks, Edit,
       LoadTask

\* What is clean stays so in a step that changes nothing ThreadClean and
\* UpdateClean speak of but the clock, which only moves forward.
LEMMA KeepClean ==
    ASSUME TInv, CleanInv, NEW j \in Jobs,
           now' \in Time, now <= now', UNCHANGED <<stamp, dirty, lastRun, nextRun, pc, main>>,
           Clean(j)'
    PROVE  ThreadClean(j)' /\ UpdateClean(j)'
  <1>1. ThreadClean(j) /\ UpdateClean(j)
    BY DEF CleanInv, Clean
  <1>2. NextRunOf(j)' = NextRunOf(j) /\ NextRunOf(j) \in Nat
    BY PeriodInt DEF NextRunOf, TInv, TypeOK, Time
  <1> QED
    BY <1>1, <1>2 DEF ThreadClean, UpdateClean, TInv, TypeOK, Time

\* A step of the thread of k.
LEMMA RunClean ==
    ASSUME TInv, CleanInv, NEW k \in Jobs, Run(k), NEW j \in Jobs, Clean(j)'
    PROVE  ThreadClean(j)' /\ UpdateClean(j)'
  <1> USE DEF TInv, TypeOK
  <1>1. UNCHANGED <<now, main>>
    BY DEF Run, TestEnabled, Poll, Record, SetLast, SetNext, EmitLast, Reopen, SetPid,
       Exec, ClearPid
  <1>2. stamp[j] \in Time /\ stamp[j] <= now /\ now \in Time
    BY DEF CleanInv
  <1>3. ASSUME NEW from \in ThreadPCs, NEW to \in {"next1", "next2"}, SetLast(k, from, to)
        PROVE  ThreadClean(j)' /\ UpdateClean(j)'
    <2>1. /\ stamp' = [stamp EXCEPT ![k] = now]
          /\ lastRun' = [lastRun EXCEPT ![k] = now]
          /\ dirty' = [dirty EXCEPT ![k] = UpdateInProgress(k)]
          /\ pc' = [pc EXCEPT ![k] = to]
          /\ nextRun' = nextRun
      BY <1>3 DEF SetLast, Goto
    <2>2. CASE j = k
      <3>1. ~UpdateInProgress(k)
        BY <2>1, <2>2 DEF Clean
      <3> QED
        BY <1>1, <2>1, <2>2, <3>1 DEF ThreadClean, UpdateClean, UpdateInProgress, Updating
    <2>3. CASE j # k
      <3>1. ThreadClean(j) /\ UpdateClean(j)
        BY <2>1, <2>3 DEF CleanInv, Clean
      <3>2. NextRunOf(j)' = NextRunOf(j)
        BY <2>1, <2>3 DEF NextRunOf
      <3> QED
        BY <1>1, <2>1, <2>3, <3>1, <3>2 DEF ThreadClean, UpdateClean
    <2> QED
      BY <2>2, <2>3
  <1>4. ASSUME UNCHANGED <<stamp, dirty, lastRun>>
        PROVE  /\ ThreadClean(j) /\ UpdateClean(j) /\ UpdateClean(j)'
               /\ NextRunOf(j)' = NextRunOf(j)
    <2>1. ThreadClean(j) /\ UpdateClean(j) /\ NextRunOf(j)' = NextRunOf(j)
      BY <1>4 DEF CleanInv, Clean, NextRunOf
    <2> QED
      BY <1>1, <1>4, <2>1 DEF UpdateClean
  <1>5. ASSUME NEW from \in {"next1", "next2"}, NEW to \in {"emit1", "emit2"},
               SetNext(k, from, to)
        PROVE  ThreadClean(j)' /\ UpdateClean(j)'
    <2>1. /\ UNCHANGED <<stamp, dirty, lastRun>>
          /\ pc' = [pc EXCEPT ![k] = to]
          /\ nextRun' = [nextRun EXCEPT ![k] = NextStart(JobInterval, stamp[k], now)]
      BY <1>5 DEF SetNext, Goto, histVars
    <2>2. CASE j = k
      <3>1. NextStart(JobInterval, stamp[k], now) = NextRunOf(k)
        BY <1>2, <2>1, <2>2, KnownNextStart DEF Clean, NextRunOf
      <3> QED
        BY <1>4, <2>1, <2>2, <3>1 DEF ThreadClean
    <2>3. CASE j # k
      BY <1>1, <1>4, <2>1, <2>3 DEF ThreadClean
    <2> QED
      BY <2>2, <2>3
  <1>6. ASSUME UNCHANGED <<stamp, dirty, lastRun, nextRun>>,
               NEW to, pc' = [pc EXCEPT ![k] = to],
               pc[k] \notin {"off", "next1", "next2"},
               to = "last1" => nextRun[k] < now
        PROVE  ThreadClean(j)' /\ UpdateClean(j)'
    BY <1>1, <1>4, <1>6 DEF ThreadClean
  <1>7. CASE TestEnabled(k)
    BY <1>6, <1>7 DEF TestEnabled, Goto, mem, histVars
  <1>8. CASE Poll(k)
    BY <1>6, <1>8 DEF Poll, IsDue, Goto, mem, histVars
  <1>9. CASE Record(k)
    <2>1. ASSUME NEW from \in {"emit1", "emit2"}, NEW to \in {"reopen", "pid"},
                 EmitLast(k, from, to)
          PROVE  ThreadClean(j)' /\ UpdateClean(j)'
      BY <1>6, <2>1 DEF EmitLast, Goto, mem
    <2> QED
      BY <1>3, <1>5, <1>9, <2>1 DEF Record, ThreadPCs
  <1>10. CASE Reopen(k)
    BY <1>6, <1>10 DEF Reopen, Goto, mem, histVars
  <1>11. CASE SetPid(k) \/ Exec(k) \/ ClearPid(k)
    BY <1>6, <1>11 DEF SetPid, Exec, ClearPid, Goto, mem
  <1> QED
    BY <1>7, <1>8, <1>9, <1>10, <1>11 DEF Run

\* A step of the main thread.
LEMMA MainClean ==
    ASSUME TInv, CleanInv, MainLoop, NEW j \in Jobs, Clean(j)'
    PROVE  ThreadClean(j)' /\ UpdateClean(j)'
  <1> USE DEF TInv, TypeOK, MainJob
  <1>1. UNCHANGED <<now, stamp, pc>>
    BY DEF MainLoop, UpdateLastRunTask, SystemEventHandler, TakeNote, SelectState,
       SetState, SelectRow, UpdateEnabled, UpdateTimes, AssignLast, AssignNext, Read,
       MainGoto
  <1>2. dirty[j] => dirty'[j]
    BY DEF MainLoop, UpdateLastRunTask, SystemEventHandler, TakeNote, SelectState,
       SetState, AssignEnabled, SelectRow, UpdateEnabled, UpdateTimes, AssignLast,
       AssignNext, Read, MainGoto, mem, histVars
  <1>3. Clean(j) /\ ThreadClean(j) /\ UpdateClean(j) /\ NextRunOf(j)' = NextRunOf(j)
    BY <1>1, <1>2 DEF CleanInv, Clean, NextRunOf
  <1>4. stamp[j] # NoTime /\ stamp[j] \in Time /\ stamp[j] <= now
    BY <1>3 DEF Clean, CleanInv
  <1>5. ASSUME nextRun' = nextRun, main'.job = j => main'.pc \in {"state", "setState", "select"}
        PROVE  ThreadClean(j)' /\ UpdateClean(j)'
    BY <1>1, <1>3, <1>5 DEF ThreadClean, UpdateClean
  <1>6. ASSUME nextRun' = nextRun, main' = Idle
        PROVE  ThreadClean(j)' /\ UpdateClean(j)'
    BY <1>5, <1>6, ConstantTypes DEF Idle, At, Main
  <1>7. CASE UpdateLastRunTask
    <2>1. /\ nextRun' = nextRun
          /\ main.pc = "idle"
          /\ main' = main \/ main' = At("reconnect")
      BY <1>7 DEF UpdateLastRunTask, mem
    <2>2. CASE main' = At("reconnect")
      BY <1>5, <2>1, <2>2, ConstantTypes DEF At, Main
    <2>3. lastRun' = lastRun
      BY <1>7 DEF UpdateLastRunTask, mem
    <2>4. CASE main' = main
      BY <1>1, <1>3, <2>1, <2>3, <2>4 DEF ThreadClean, UpdateClean
    <2> QED
      BY <2>1, <2>2, <2>4
  <1>8. CASE SystemEventHandler
    BY <1>6, <1>8 DEF SystemEventHandler, mem
  <1>9. CASE TakeNote
    BY <1>5, <1>9 DEF TakeNote, Main, mem
  <1>10. CASE SelectState
    BY <1>5, <1>6, <1>10 DEF SelectState, MainGoto, Main, mem
  <1>11. CASE SetState
    BY <1>6, <1>11 DEF SetState, MainGoto, AssignEnabled
  <1>12. CASE SelectRow
    <2>1. CASE main' = Idle
      BY <1>6, <1>12, <2>1 DEF SelectRow, mem
    <2>2. CASE main' # Idle
      <3>1. /\ conn # "down" /\ UNCHANGED <<lastRun, nextRun>>
            /\ main' = Main("enabled", main.job, dbEnabled[main.job], dbLastRun[main.job])
            /\ dirty' = [dirty EXCEPT ![main.job] =
                            @ \/ (conn # "down" /\ dbLastRun[main.job] # stamp[main.job])]
        BY <1>12, <2>2 DEF SelectRow, MainGoto, mem
      <3>2. main.job = j => dbLastRun[j] = stamp[j]
        BY <3>1 DEF Clean
      <3> QED
        BY <1>1, <1>3, <3>1, <3>2 DEF ThreadClean, UpdateClean, Main
    <2> QED
      BY <2>1, <2>2
  <1>13. CASE UpdateEnabled
    <2>1. /\ UNCHANGED <<lastRun, nextRun>> /\ main.pc = "enabled"
          /\ main' = Main("last", main.job, FALSE, main.time)
      BY <1>13 DEF UpdateEnabled, MainGoto, AssignEnabled
    <2> QED
      BY <1>1, <1>3, <2>1 DEF ThreadClean, UpdateClean, Main
  <1>14. CASE UpdateTimes
    <2>1. CASE main.job # j
      <3>1. main'.job # j /\ nextRun'[j] = nextRun[j]
        BY <1>14, <2>1, ConstantTypes DEF UpdateTimes, AssignLast, AssignNext, Read,
           MainGoto, Main, Idle, At, mem
      <3> QED
        BY <1>1, <1>3, <3>1 DEF ThreadClean, UpdateClean
    <2>2. CASE main.job = j
      <3>1. CASE AssignLast("last", "branch", main.time)
        BY <1>1, <1>3, <2>2, <3>1
           DEF AssignLast, MainGoto, ThreadClean, UpdateClean, Main
      <3>2. CASE Read("branch", Main(IF LastNow = NoTime THEN "first" ELSE "next",
                                     main.job, FALSE, NoTime))
        BY <1>1, <1>3, <1>4, <2>2, <3>2
           DEF Read, MainGoto, ThreadClean, UpdateClean, Main, LastNow, mem
      <3>3. CASE Read("next", Main("storeNext", main.job, FALSE, NextOfLast))
        <4>1. NextOfLast = NextRunOf(j)
          BY <1>3, <1>4, <2>2, <3>3, KnownNextStart
             DEF Read, MainGoto, UpdateClean, NextOfLast, LastNow, NextRunOf
        <4> QED
          BY <1>1, <1>3, <2>2, <3>3, <4>1
             DEF Read, MainGoto, ThreadClean, UpdateClean, Main, mem
      <3>4. CASE AssignNext("storeNext", main.time)
        <4>1. nextRun'[j] = NextRunOf(j) /\ main' = Idle
          BY <1>3, <2>2, <3>4 DEF AssignNext, MainGoto, UpdateClean
        <4>2. pc[j] = "last1" => NextRunOf(j) < now
          BY <1>3 DEF ThreadClean
        <4> QED
          BY <1>1, <1>3, <4>1, <4>2, ConstantTypes
             DEF ThreadClean, UpdateClean, Idle, At, Main
      <3>5. main.pc \notin {"first", "loop", "store"}
        BY <1>3, <2>2 DEF UpdateClean
      <3> QED
        BY <1>14, <3>1, <3>2, <3>3, <3>4, <3>5
           DEF UpdateTimes, AssignLast, Read, MainGoto
    <2> QED
      BY <2>1, <2>2
  <1> QED
    BY <1>7, <1>8, <1>9, <1>10, <1>11, <1>12, <1>13, <1>14 DEF MainLoop

\* A step of the world, or of the start of the process.
LEMMA WorldClean ==
    ASSUME TInv, CleanInv, NEW j \in Jobs, Clean(j)',
           Tick \/ Disconnect \/ Kill \/ Boot \/ StartTasks
               \/ \E k \in Jobs : Edit(k) \/ LoadTask(k)
    PROVE  ThreadClean(j)' /\ UpdateClean(j)'
  <1> USE DEF TInv, TypeOK
  <1>1. CASE Tick
    BY <1>1, KeepClean DEF Tick, Time, mem, histVars
  <1>2. CASE Disconnect
    BY <1>2, KeepClean DEF Disconnect, Time, mem, histVars
  <1>3. CASE \E k \in Jobs : Edit(k)
    BY <1>3, KeepClean DEF Edit, Time, mem, histVars
  <1>4. CASE Kill
    <2>1. main'.job # j /\ pc'[j] = "off"
      BY <1>4, ConstantTypes DEF Kill, At, Main
    <2> QED
      BY <2>1 DEF ThreadClean, UpdateClean
  <1>5. CASE Boot \/ StartTasks
    <2>1. UNCHANGED <<now, stamp, dirty, nextRun>>
      BY <1>5 DEF Boot, StartTasks, mem, histVars
    <2>2. ThreadClean(j) /\ NextRunOf(j)' = NextRunOf(j)
      BY <2>1 DEF CleanInv, Clean, NextRunOf
    <2>3. main'.job # j
      BY <1>5, ConstantTypes DEF Boot, StartTasks, Idle, At, Main
    <2>4. pc'[j] = pc[j] \/ (pc[j] = "loaded" /\ pc'[j] = "head")
      BY <1>5 DEF Boot, StartTasks
    <2> QED
      BY <2>1, <2>2, <2>3, <2>4 DEF ThreadClean, UpdateClean
  <1>6. ASSUME NEW k \in Jobs, LoadTask(k) PROVE ThreadClean(j)' /\ UpdateClean(j)'
    <2>1. /\ UNCHANGED <<now, stamp, main>> /\ main.pc = "boot"
          /\ pc' = [pc EXCEPT ![k] = "loaded"]
          /\ dirty' = [dirty EXCEPT ![k] = dbLastRun[k] # stamp[k]]
          /\ nextRun' = [nextRun EXCEPT ![k] =
                 IF dbLastRun[k] = NoTime THEN NoTime
                 ELSE NextStart(JobInterval, dbLastRun[k], now)]
      BY <1>6 DEF LoadTask
    <2>2. CASE j = k
      <3>1. dbLastRun[k] = stamp[k] /\ stamp[k] # NoTime
        BY <2>1, <2>2 DEF Clean
      <3>2. nextRun'[j] = NextRunOf(j)'
        BY <2>1, <2>2, <3>1, KnownNextStart DEF CleanInv, NextRunOf
      <3> QED
        BY <2>1, <2>2, <3>2 DEF ThreadClean, UpdateClean
    <2>3. CASE j # k
      <3>1. ThreadClean(j) /\ NextRunOf(j)' = NextRunOf(j)
        BY <2>1, <2>3 DEF CleanInv, Clean, NextRunOf
      <3>2. main'.pc = "boot"
        BY <2>1
      <3> QED
        BY <2>1, <2>3, <3>1, <3>2 DEF ThreadClean, UpdateClean
    <2> QED
      BY <2>2, <2>3
  <1> QED
    BY <1>1, <1>2, <1>3, <1>4, <1>5, <1>6

LEMMA NextClean == TInv /\ CleanInv /\ [Next]_vars => CleanInv'
  <1> SUFFICES ASSUME TInv, CleanInv, [Next]_vars, NEW j \in Jobs
               PROVE  stamp'[j] <= now' /\ (Clean(j)' => ThreadClean(j)' /\ UpdateClean(j)')
    BY DEF CleanInv
  <1>1. CASE UNCHANGED vars
    <2>1. now' \in Time /\ now <= now'
      BY <1>1 DEF vars, TInv, TypeOK, Time
    <2> QED
      BY <1>1, <2>1, StampPast, KeepClean DEF vars, mem, histVars
  <1> QED
    BY <1>1, StampPast, WorldClean, RunClean, MainClean DEF Next

\* A job whose latest start every later refresh knew of waits its whole period,
\* however its thread, update() and kills interleave.
THEOREM SpecNoEarlyRerun == Spec => NoEarlyRerun
  <1>1. Init => CleanInv
    BY ConstantTypes DEF Init, CleanInv, Clean, NoTime, Time
  <1>2. TInv /\ CleanInv /\ [Next]_vars =>
            [\A j \in Jobs :
                pc[j] = "last1" /\ pc'[j] = "next1" /\ stamp[j] # NoTime /\ ~dirty[j]
                    => now > stamp[j] + Period(JobInterval)]_vars
    BY PeriodInt DEF CleanInv, Clean, ThreadClean, NextRunOf, TInv, TypeOK, Time
  <1> QED
    BY <1>1, <1>2, InitTInv, NextTInv, NextClean, PTL DEF Spec, NoEarlyRerun

-----------------------------------------------------------------------------
(***************************************************************************)
(* The refinement: every job keeps the contract that TaskSchedule keeps.   *)
(***************************************************************************)
\* Until the clock has passed the start date nothing has run, and no time later
\* than the start date is in memory, in the row, or on its way to either.
BeforeStart ==
    now <= StartDate =>
        /\ posted = <<>>
        /\ \A j \in Jobs :
               /\ dbLastRun[j] = NoTime /\ stamp[j] = NoTime /\ lastRun[j] <= StartDate
               /\ pc[j] \in {"off", "loaded", "head", "hoisted", "poll"}
        /\ main.pc \in {"enabled", "last"} => main.time = NoTime
        /\ main.pc = "loop" => lastRun[main.job] = StartDate
        /\ main.pc # "store"

\* A step of the world, or of the start of the process.
LEMMA WorldBeforeStart ==
    ASSUME TInv, BeforeStart,
           Tick \/ Disconnect \/ Kill \/ Boot \/ StartTasks
               \/ \E k \in Jobs : Edit(k) \/ LoadTask(k)
    PROVE  BeforeStart'
  <1> SUFFICES ASSUME now' <= StartDate PROVE BeforeStart'
    BY DEF BeforeStart
  <1> USE DEF TInv, TypeOK, BeforeStart
  <1>1. now <= StartDate
    <2>1. now' = now \/ now' = now + 1
      BY DEF Tick, Disconnect, Kill, Boot, StartTasks, Edit, LoadTask
    <2> QED
      BY <2>1, ConstantTypes DEF Time
  <1>2. CASE Tick \/ Disconnect \/ \E k \in Jobs : Edit(k)
    BY <1>1, <1>2 DEF Tick, Disconnect, Edit, row, mem
  <1>3. CASE Kill
    BY <1>1, <1>3, ConstantTypes DEF Kill, row, At, Main, NoTime, Time
  <1>4. CASE Boot \/ StartTasks
    BY <1>1, <1>4 DEF Boot, StartTasks, row, mem, Idle, At, Main
  <1>5. ASSUME NEW k \in Jobs, LoadTask(k) PROVE BeforeStart'
    <2>1. CaughtUp = StartDate /\ dbLastRun[k] = NoTime
      BY <1>1 DEF CaughtUp
    <2>2. /\ main.pc = "boot" /\ pc' = [pc EXCEPT ![k] = "loaded"]
          /\ lastRun' = [lastRun EXCEPT ![k] = StartDate]
          /\ UNCHANGED <<now, row, stamp, main, posted>>
      BY <1>5, <2>1 DEF LoadTask
    <2> QED
      BY <1>1, <2>2, ConstantTypes DEF row, Time
  <1> QED
    BY <1>2, <1>3, <1>4, <1>5

\* A step of the thread of k: none is due.
LEMMA ThreadBeforeStart ==
    ASSUME TInv, BeforeStart, NEW k \in Jobs, Run(k)
    PROVE  BeforeStart'
  <1> SUFFICES ASSUME now' <= StartDate PROVE BeforeStart'
    BY DEF BeforeStart
  <1> USE DEF TInv, TypeOK, BeforeStart
  <1>1. now <= StartDate
    BY DEF Run, TestEnabled, Poll, Record, SetLast, SetNext, EmitLast, Reopen, SetPid,
       Exec, ClearPid
  <1>2. pc[k] \in {"off", "loaded", "head", "hoisted", "poll"} /\ ~IsDue(k)
    BY <1>1, ConstantTypes DEF IsDue, Time
  <1>3. TestEnabled(k) \/ Poll(k)
    BY <1>2 DEF Run, Record, SetLast, SetNext, EmitLast, Reopen, SetPid, Exec, ClearPid,
       Goto
  <1>4. /\ pc' = [pc EXCEPT ![k] = pc'[k]]
        /\ pc'[k] \in {"head", "hoisted", "poll"}
        /\ UNCHANGED <<now, row, lastRun, stamp, main, posted>>
    BY <1>2, <1>3 DEF TestEnabled, Poll, Goto, mem
  <1> QED
    BY <1>1, <1>4 DEF row

\* A step of the main thread.
LEMMA MainBeforeStart ==
    ASSUME TInv, BeforeStart, MainLoop
    PROVE  BeforeStart'
  <1> SUFFICES ASSUME now' <= StartDate PROVE BeforeStart'
    BY DEF BeforeStart
  <1> USE DEF TInv, TypeOK, BeforeStart
  <1>1. UNCHANGED <<now, stamp, pc>>
    BY DEF MainLoop, UpdateLastRunTask, SystemEventHandler, TakeNote, SelectState,
       SetState, SelectRow, UpdateEnabled, UpdateTimes, AssignLast, AssignNext, Read,
       MainGoto
  <1>2. now <= StartDate
    BY <1>1
  <1>3. posted = <<>> /\ ~UpdateLastRunTask
    BY <1>2 DEF UpdateLastRunTask
  <1>4. UNCHANGED <<dbLastRun, posted>>
    BY <1>3 DEF MainLoop, SystemEventHandler, TakeNote, SelectState, SetState, SelectRow,
       UpdateEnabled, UpdateTimes, AssignLast, AssignNext, Read, MainGoto, row
  <1>5. ASSUME lastRun' = lastRun, main' = Idle PROVE BeforeStart'
    BY <1>1, <1>2, <1>4, <1>5 DEF Idle, At, Main
  <1>6. CASE SystemEventHandler
    BY <1>5, <1>6 DEF SystemEventHandler, mem
  <1>7. CASE TakeNote
    BY <1>1, <1>2, <1>4, <1>7 DEF TakeNote, Main, mem
  <1>8. CASE SelectState \/ SetState
    BY <1>1, <1>2, <1>4, <1>5, <1>8 DEF SelectState, SetState, MainGoto, AssignEnabled,
       Main, mem
  <1>9. CASE SelectRow
    <2>1. conn # "down" => dbLastRun[main.job] = NoTime
      BY <1>2, <1>9, ConstantTypes DEF SelectRow, MainGoto, MainJob, Updating
    <2> QED
      BY <1>1, <1>2, <1>4, <1>5, <1>9, <2>1 DEF SelectRow, MainGoto, Main, mem
  <1>10. CASE UpdateEnabled
    BY <1>1, <1>2, <1>4, <1>10 DEF UpdateEnabled, MainGoto, AssignEnabled, Main
  <1>11. CASE UpdateTimes
    <2>1. main.job \in Jobs
      BY <1>11 DEF UpdateTimes, AssignLast, AssignNext, Read, MainGoto, MainJob, Updating
    <2>2. CASE AssignLast("last", "branch", main.time)
      BY <1>1, <1>2, <1>4, <2>1, <2>2, ConstantTypes
         DEF AssignLast, MainGoto, Main, NoTime, Time
    <2>3. CASE Read("branch", Main(IF LastNow = NoTime THEN "first" ELSE "next",
                                   main.job, FALSE, NoTime))
      BY <1>1, <1>2, <1>4, <2>3 DEF Read, MainGoto, Main, mem
    <2>4. CASE AssignLast("first", "loop", StartDate)
      BY <1>1, <1>2, <1>4, <2>1, <2>4, ConstantTypes DEF AssignLast, MainGoto, Main, Time
    <2>5. CASE Read("loop", IF LastNow < now
                            THEN Main("store", main.job, FALSE, NextOfLast)
                            ELSE Idle)
      <3>1. ~(LastNow < now)
        BY <1>2, <2>5, ConstantTypes DEF Read, MainGoto, LastNow, Time
      <3> QED
        BY <1>5, <2>5, <3>1 DEF Read, MainGoto, mem
    <2>6. CASE Read("next", Main("storeNext", main.job, FALSE, NextOfLast))
      BY <1>1, <1>2, <1>4, <2>6 DEF Read, MainGoto, Main, mem
    <2>7. CASE AssignNext("storeNext", main.time)
      BY <1>5, <2>7 DEF AssignNext, MainGoto
    <2> QED
      BY <1>2, <1>11, <2>2, <2>3, <2>4, <2>5, <2>6, <2>7
         DEF UpdateTimes, AssignLast, MainGoto
  <1> QED
    BY <1>3, <1>6, <1>7, <1>8, <1>9, <1>10, <1>11 DEF MainLoop

LEMMA NextBeforeStart == TInv /\ BeforeStart /\ [Next]_vars => BeforeStart'
  <1> SUFFICES ASSUME TInv, BeforeStart, [Next]_vars PROVE BeforeStart'
    OBVIOUS
  <1>1. CASE UNCHANGED vars
    BY <1>1 DEF vars, row, mem, BeforeStart
  <1> QED
    BY <1>1, WorldBeforeStart, ThreadBeforeStart, MainBeforeStart DEF Next

\* No start is recorded before the start date has passed.
StampInv == \A j \in Jobs : stamp[j] # NoTime => StartDate < stamp[j]

LEMMA NextStampInv == TInv /\ BeforeStart /\ StampInv /\ [Next]_vars => StampInv'
  <1> SUFFICES ASSUME TInv, BeforeStart, StampInv, [Next]_vars PROVE StampInv'
    OBVIOUS
  <1> USE DEF StampInv
  <1>1. CASE UNCHANGED stamp
    BY <1>1
  <1>2. ASSUME NEW k \in Jobs, NEW from \in {"last1", "last2"}, NEW to, SetLast(k, from, to)
        PROVE  StampInv'
    <2>1. pc[k] \in {"last1", "last2"}
      BY <1>2 DEF SetLast, Goto
    <2>2. ~(now <= StartDate)
      BY <2>1 DEF BeforeStart
    <2>3. StartDate < now
      BY <2>2, ConstantTypes DEF TInv, TypeOK, Time
    <2> QED
      BY <1>2, <2>3 DEF SetLast, TInv, TypeOK
  <1>3. ASSUME NEW k \in Jobs, Run(k) PROVE StampInv'
    BY <1>1, <1>2, <1>3 DEF Run, TestEnabled, Poll, Record, SetNext, EmitLast, Reopen,
       SetPid, Exec, ClearPid
  <1>4. CASE MainLoop
    BY <1>1, <1>4 DEF MainLoop, UpdateLastRunTask, SystemEventHandler, TakeNote,
       SelectState, SetState, SelectRow, UpdateEnabled, UpdateTimes, AssignLast,
       AssignNext, Read, MainGoto
  <1>5. CASE UNCHANGED vars
    BY <1>1, <1>5 DEF vars
  <1> QED
    BY <1>1, <1>3, <1>4, <1>5 DEF Next, Tick, Disconnect, Kill, Boot, StartTasks, Edit,
       LoadTask

-----------------------------------------------------------------------------
\* What the contract of j sees of a step that records no run of it: a second
\* recording that will not come, a refresh, or nothing.
LEMMA UnrecordedStep ==
    ASSUME TypeOK, TypeOK', NEW j \in Jobs, UNCHANGED <<now, stamp>>,
           \/ UNCHANGED <<pc, dirty>>
           \/ UNCHANGED pc
           \/ UNCHANGED dirty /\ pc'[j] \notin {"next1", "emit1", "reopen", "last2"}
    PROVE  [Contract(j)!Next]_(Contract(j)!vars)
  <1> DEFINE B == {"next1", "emit1", "reopen", "last2"}
  <1>1. stamp'[j] = stamp[j] /\ dirty'[j] \in BOOLEAN
    BY DEF TypeOK
  <1>2. CASE UNCHANGED pc
    BY <1>1, <1>2 DEF Contract!Next, Contract!Refresh
  <1>3. CASE UNCHANGED dirty /\ pc'[j] \notin B
    <2>1. CASE pc[j] \in B
      BY <1>1, <1>3, <2>1 DEF Contract!Next, Contract!LeaveOut
    <2>2. CASE pc[j] \notin B
      BY <1>1, <1>3, <2>2 DEF Contract!vars
    <2> QED
      BY <2>1, <2>2
  <1> QED
    BY <1>2, <1>3

\* The thread of j records a start that is due.
LEMMA RecordedStep ==
    ASSUME TInv, TypeOK', CleanInv, BeforeStart, StampInv, NEW j \in Jobs,
           SetLast(j, "last1", "next1")
    PROVE  Contract(j)!RunJob
  <1>1. /\ pc[j] = "last1" /\ stamp'[j] = now /\ now' = now
        /\ now \in Nat /\ stamp[j] \in Nat /\ dirty'[j] \in BOOLEAN
    BY DEF SetLast, Goto, TInv, TypeOK, Time
  <1>2. ~(now <= StartDate)
    BY <1>1 DEF BeforeStart
  <1>3. Contract(j)!Started
    BY <1>1, <1>2, ConstantTypes DEF Contract!Started, Contract!NoTime, NoTime, StampInv,
       Time
  <1>4. Contract(j)!PeriodOver
    <2>1. Clean(j) => NextRunOf(j) < now
      BY <1>1 DEF CleanInv, ThreadClean
    <2>2. Clean(j) => now > stamp[j] + Period(JobInterval)
      BY <1>1, <2>1, PeriodInt DEF NextRunOf
    <2> QED
      BY <2>2 DEF Contract!PeriodOver, Contract!Known, Clean, Contract!NoTime, NoTime,
         Period, Contract!Period, UnitOf, Contract!UnitOf, WeekT, Contract!WeekT, DayT,
         Contract!DayT, HourT, Contract!HourT, MinuteT, Contract!MinuteT
  <1>5. Contract(j)!DayIsFree
    BY ConstantTypes DEF Contract!DayIsFree, Contract!FullHour, SubDaily
  <1>6. Contract(j)!RecordRun
    BY <1>1 DEF Contract!RecordRun
  <1> QED
    BY <1>3, <1>4, <1>5, <1>6 DEF Contract!RunJob, Contract!MayRun

\* ... and once more before the action.
LEMMA RecordedAgainStep ==
    ASSUME TypeOK, TypeOK', NEW j \in Jobs, SetLast(j, "last2", "next2")
    PROVE  Contract(j)!RunAgain
  BY DEF SetLast, Goto, TypeOK, Contract!RunAgain, Contract!RecordRun

\* A step of the thread of k, seen by the contract of j.
LEMMA ThreadImplements ==
    ASSUME TInv, TypeOK', CleanInv, BeforeStart, StampInv,
           NEW j \in Jobs, NEW k \in Jobs, Run(k)
    PROVE  [Contract(j)!Next]_(Contract(j)!vars)
  <1> DEFINE B == {"next1", "emit1", "reopen", "last2"}
  <1> USE DEF TInv
  <1>1. now' = now /\ (k # j => UNCHANGED <<stamp[j], dirty[j], pc[j]>>)
    BY DEF Run, TestEnabled, Poll, Record, SetLast, SetNext, EmitLast, Reopen, SetPid,
       Exec, ClearPid, Goto, histVars, TypeOK
  <1>2. CASE k # j
    BY <1>1, <1>2 DEF Contract!vars
  <1>3. CASE k = j
    <2>1. CASE SetLast(k, "last1", "next1")
      BY <1>3, <2>1, RecordedStep DEF Contract!Next
    <2>2. CASE SetLast(k, "last2", "next2")
      BY <1>3, <2>2, RecordedAgainStep DEF Contract!Next
    <2>3. ASSUME UNCHANGED <<now, stamp, dirty>>, pc'[j] \notin B \/ pc[j] \in B
          PROVE  [Contract(j)!Next]_(Contract(j)!vars)
      <3>1. CASE pc'[j] \notin B
        BY <2>3, <3>1, UnrecordedStep
      <3>2. CASE pc'[j] \in B
        BY <2>3, <3>2 DEF Contract!vars
      <3> QED
        BY <3>1, <3>2
    <2>4. CASE TestEnabled(k) \/ Poll(k) \/ Reopen(k)
      BY <1>3, <2>3, <2>4 DEF TestEnabled, Poll, Reopen, Goto, histVars, TypeOK
    <2>5. CASE SetNext(k, "next1", "emit1") \/ SetNext(k, "next2", "emit2")
      BY <1>3, <2>3, <2>5 DEF SetNext, Goto, histVars, TypeOK
    <2>6. CASE EmitLast(k, "emit1", "reopen") \/ EmitLast(k, "emit2", "pid")
      BY <1>3, <2>3, <2>6 DEF EmitLast, Goto, TypeOK
    <2>7. CASE SetPid(k) \/ Exec(k) \/ ClearPid(k)
      BY <1>3, <2>3, <2>7 DEF SetPid, Exec, ClearPid, Goto, TypeOK
    <2> QED
      BY <2>1, <2>2, <2>4, <2>5, <2>6, <2>7 DEF Run, Record
  <1> QED
    BY <1>2, <1>3

LEMMA NextImplements ==
    ASSUME TInv, TypeOK', CleanInv, BeforeStart, StampInv, [Next]_vars, NEW j \in Jobs
    PROVE  [Contract(j)!Next]_(Contract(j)!vars)
  <1> USE DEF TInv
  <1>1. CASE Tick
    BY <1>1 DEF Tick, histVars, Contract!Next, Contract!Tick
  <1>2. CASE Disconnect \/ Boot \/ \E k \in Jobs : Edit(k)
    BY <1>2, UnrecordedStep DEF Disconnect, Boot, Edit, histVars
  <1>3. CASE Kill
    BY <1>3, UnrecordedStep DEF Kill
  <1>4. CASE StartTasks
    BY <1>4, UnrecordedStep DEF StartTasks, histVars
  <1>5. ASSUME NEW k \in Jobs, LoadTask(k)
        PROVE  [Contract(j)!Next]_(Contract(j)!vars)
    <2>1. /\ UNCHANGED <<now, stamp>> /\ dirty'[j] \in BOOLEAN
          /\ pc[k] = "off" /\ pc' = [pc EXCEPT ![k] = "loaded"]
      BY <1>5 DEF LoadTask, TypeOK
    <2> QED
      BY <2>1 DEF TypeOK, Contract!Next, Contract!Refresh
  <1>6. ASSUME NEW k \in Jobs, Run(k)
        PROVE  [Contract(j)!Next]_(Contract(j)!vars)
    BY <1>6, ThreadImplements
  <1>7. CASE MainLoop
    <2>1. UNCHANGED <<now, stamp, pc>>
      BY <1>7 DEF MainLoop, UpdateLastRunTask, SystemEventHandler, TakeNote, SelectState,
         SetState, SelectRow, UpdateEnabled, UpdateTimes, AssignLast, AssignNext, Read,
         MainGoto
    <2> QED
      BY <2>1, UnrecordedStep
  <1>8. CASE UNCHANGED vars
    BY <1>8 DEF vars, histVars, Contract!vars
  <1> QED
    BY <1>1, <1>2, <1>3, <1>4, <1>5, <1>6, <1>7, <1>8 DEF Next

LEMMA InitImplements == ASSUME Init, NEW j \in Jobs PROVE Contract(j)!Init
  BY DEF Init, Contract!Init, Contract!NoTime, NoTime

\* What the refinement rests on.
LEMMA SpecStartInv == Spec => [](TInv /\ CleanInv /\ BeforeStart /\ StampInv)
  <1>1. Init => CleanInv /\ BeforeStart /\ StampInv
    BY ConstantTypes DEF Init, CleanInv, Clean, BeforeStart, StampInv, NoTime, Time, At,
       Main
  <1> QED
    BY <1>1, InitTInv, NextTInv, NextClean, NextBeforeStart, NextStampInv, PTL DEF Spec

\* Whatever the threads do, every job keeps the contract.
THEOREM SpecImplementsContract == Spec => ImplementsContract
  <1> DEFINE Steps == \A j \in Jobs : [Contract(j)!Next]_(Contract(j)!vars)
  <1>1. Init => \A j \in Jobs : Contract(j)!Init
    BY InitImplements
  <1>2. TInv /\ TInv' /\ CleanInv /\ BeforeStart /\ StampInv /\ [Next]_vars => [Steps]_vars
    BY NextImplements DEF TInv
  <1> QED
    BY <1>1, <1>2, SpecStartInv, PTL DEF Spec, ImplementsContract

\* The same, job by job: what TaskRun does to one job is a behaviour of JobContract.
THEOREM SpecKeepsContracts == Spec => \A j \in Jobs : Contract(j)!Spec
  <1> SUFFICES ASSUME NEW j \in Jobs PROVE Spec => Contract(j)!Spec
    OBVIOUS
  <1>1. Init => Contract(j)!Init
    BY InitImplements
  <1>2. TInv /\ TInv' /\ CleanInv /\ BeforeStart /\ StampInv /\ [Next]_vars
            => [Contract(j)!Next]_(Contract(j)!vars)
    BY NextImplements DEF TInv
  <1> QED
    BY <1>1, <1>2, SpecStartInv, PTL DEF Spec, Contract!Spec

=============================================================================
