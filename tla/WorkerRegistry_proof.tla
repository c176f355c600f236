------------------------ MODULE WorkerRegistry_proof ------------------------
(***************************************************************************)
(* Proofs about WorkerRegistry: for every set of jobs and any number of    *)
(* notifications.                                                          *)
(***************************************************************************)
EXTENDS WorkerRegistry, TLAPS

\* The insertion of j is announced and its worker is not made yet.
AddOf(j) == [kind |-> "ADD", job |-> j]
Waiting(j) == \E i \in DOMAIN notes : notes[i] = AddOf(j)
Pending(j) == Waiting(j) \/ (main.pc = "add" /\ main.job = j)

Known == rows \cup gone

\* Whatever is listed, announced or in the list of workers was inserted once.
KnownInv ==
    /\ \A i \in DOMAIN workers : workers[i].job \in Known
    /\ \A j \in Jobs : j \in listed \cup window \/ Pending(j) => j \in Known
    /\ main.pc \in {"add", "update"} => main.job \in Jobs

\* What is empty in which part of init(), and without a subscription.
PhaseInv ==
    /\ main.pc \in {"dead", "open"} => conn # "listening" /\ window = {}
    /\ main.pc \in {"dead", "open", "subscribed"} => workers = <<>>
    /\ main.pc # "list" => listed = {}
    /\ conn # "listening" => notes = <<>>
    /\ main.pc = "list" =>
           \A i \in DOMAIN workers : workers[i].links = 0 /\ ~workers[i].started

\* An insertion is announced once.
OnceInv ==
    \A j \in Jobs :
        /\ \A a, b \in DOMAIN notes : notes[a] = AddOf(j) /\ notes[b] = AddOf(j) => a = b
        /\ main.pc = "add" /\ main.job = j => ~Waiting(j)

\* A row that is announced and has a worker, or will have one from the list,
\* was inserted in the window.
WindowInv ==
    \A j \in Jobs :
        /\ main.pc = "subscribed" /\ Pending(j) => j \in window
        /\ j \in listed => WorkersOf(j) = {}
        /\ Pending(j) => \A a, b \in WorkersOf(j) : a = b
        /\ Pending(j) /\ j \notin window => j \notin listed /\ WorkersOf(j) = {}

\* On its way from the table to a Task that runs, no row gets lost.
WayInv ==
    \A j \in rows :
        /\ conn = "listening" /\ main.pc = "list" =>
               \/ j \in listed \/ Pending(j)
               \/ \E i \in WorkersOf(j) : workers[i].found
        /\ conn = "listening" /\ main.pc \in {"idle", "add", "update", "reconnect"} =>
               Pending(j) \/ Served(j)

RInv == /\ TypeOK /\ KnownInv /\ PhaseInv /\ OnceInv /\ WindowInv /\ WayInv
        /\ DuplicatesFromWindow /\ ConnectedOnce

-----------------------------------------------------------------------------
(***************************************************************************)
(* The two sequences.                                                      *)
(***************************************************************************)
LEMMA SeqDomains ==
    ASSUME TypeOK
    PROVE  /\ DOMAIN notes = 1 .. Len(notes) /\ Len(notes) \in Nat
           /\ DOMAIN workers = 1 .. Len(workers) /\ Len(workers) \in Nat
           /\ \A i \in DOMAIN notes : notes[i] \in Note
           /\ \A i \in DOMAIN workers : workers[i] \in WorkerType
  BY DEF TypeOK

LEMMA SameWorkers ==
    ASSUME UNCHANGED workers
    PROVE  \A j : WorkersOf(j)' = WorkersOf(j) /\ Served(j)' = Served(j)
  BY DEF WorkersOf, Served

LEMMA SameNotes ==
    ASSUME UNCHANGED notes
    PROVE  \A j : Waiting(j)' = Waiting(j)
  BY DEF Waiting

LEMMA NoNotes ==
    ASSUME notes' = <<>>
    PROVE  /\ DOMAIN notes' = {} /\ notes' \in Seq(Note)
           /\ \A j : ~Waiting(j)'
  BY DEF Waiting

LEMMA NotifyNotes ==
    ASSUME TypeOK, NEW j \in Jobs, NEW k \in Kinds, Notify(k, j)
    PROVE  /\ notes' \in Seq(Note)
           /\ conn # "listening" => notes' = notes
           /\ conn = "listening" =>
                 /\ DOMAIN notes' = DOMAIN notes \cup {Len(notes) + 1}
                 /\ Len(notes) + 1 \notin DOMAIN notes
                 /\ \A i \in DOMAIN notes : notes'[i] = notes[i]
                 /\ notes'[Len(notes) + 1] = [kind |-> k, job |-> j]
  <1> DEFINE n == [kind |-> k, job |-> j]
  <1>1. n \in Note
    BY DEF Note
  <1> HIDE DEF n
  <1>2. CASE conn # "listening"
    BY <1>2 DEF Notify, TypeOK
  <1>3. CASE conn = "listening"
    <2>1. notes' = Append(notes, n) /\ notes \in Seq(Note)
      BY <1>3 DEF Notify, TypeOK, n
    <2>2. /\ notes' \in Seq(Note) /\ DOMAIN notes' = 1 .. (Len(notes) + 1)
          /\ DOMAIN notes = 1 .. Len(notes) /\ Len(notes) \in Nat
          /\ \A i \in DOMAIN notes : notes'[i] = notes[i]
          /\ notes'[Len(notes) + 1] = n
      BY <1>1, <2>1
    <2> QED
      BY <1>3, <2>2 DEF n
  <1> QED
    BY <1>2, <1>3

LEMMA TailNotes ==
    ASSUME TypeOK, notes # <<>>, notes' = Tail(notes)
    PROVE  /\ notes' \in Seq(Note)
           /\ 1 \in DOMAIN notes /\ notes[1] \in Note
           /\ \A i \in DOMAIN notes' : i + 1 \in DOMAIN notes /\ notes'[i] = notes[i + 1]
           /\ DOMAIN notes' \subseteq Nat \ {0}
  <1>1. /\ notes' \in Seq(Note) /\ Len(notes') = Len(notes) - 1 /\ Len(notes) \in Nat \ {0}
        /\ notes[1] \in Note /\ DOMAIN notes = 1 .. Len(notes)
        /\ DOMAIN notes' = 1 .. Len(notes')
        /\ \A i \in 1 .. Len(notes') : notes'[i] = notes[i + 1]
    BY DEF TypeOK
  <1> QED
    BY <1>1

LEMMA AppendWorkers ==
    ASSUME TypeOK, NEW w \in WorkerType, NEW ws, ws = Append(workers, w)
    PROVE  /\ ws \in Seq(WorkerType)
           /\ DOMAIN ws = DOMAIN workers \cup {Len(workers) + 1}
           /\ Len(workers) + 1 \notin DOMAIN workers
           /\ \A i \in DOMAIN workers : ws[i] = workers[i]
           /\ ws[Len(workers) + 1] = w
  <1>1. workers \in Seq(WorkerType)
    BY DEF TypeOK
  <1>2. /\ ws \in Seq(WorkerType) /\ DOMAIN ws = 1 .. (Len(workers) + 1)
        /\ DOMAIN workers = 1 .. Len(workers) /\ Len(workers) \in Nat
        /\ \A i \in DOMAIN workers : ws[i] = workers[i]
        /\ ws[Len(workers) + 1] = w
    BY <1>1
  <1> QED
    BY <1>2

LEMMA NewWorker ==
    ASSUME NEW j \in Jobs
    PROVE  Worker(j, Found(j), FALSE, 0) \in WorkerType
  BY DEF Found, Worker, WorkerType

LEMMA StartedWorker ==
    ASSUME NEW w \in WorkerType
    PROVE  /\ Started(w) \in WorkerType
           /\ Started(w).job = w.job /\ Started(w).found = w.found
           /\ Started(w).started /\ Started(w).links = w.links + 1
  BY DEF Started, Worker, WorkerType

LEMMA MapWorkers ==
    ASSUME NEW ws \in Seq(WorkerType), NEW f \in [DOMAIN ws -> WorkerType]
    PROVE  f \in Seq(WorkerType) /\ DOMAIN f = DOMAIN ws
  <1>1. DOMAIN ws = 1 .. Len(ws) /\ Len(ws) \in Nat
    OBVIOUS
  <1>2. f \in [1 .. Len(ws) -> WorkerType]
    BY <1>1
  <1> QED
    BY <1>1, <1>2

LEMMA StartsWorkers ==
    ASSUME NEW ws \in Seq(WorkerType), NEW j
    PROVE  /\ StartTask(ws, j) \in Seq(WorkerType)
           /\ DOMAIN StartTask(ws, j) = DOMAIN ws
           /\ \A i \in DOMAIN ws :
                 StartTask(ws, j)[i] = IF ws[i].job = j THEN Started(ws[i]) ELSE ws[i]
  <1> DEFINE f == StartTask(ws, j)
  <1>1. \A i \in DOMAIN ws : ws[i] \in WorkerType
    OBVIOUS
  <1>2. \A i \in DOMAIN ws :
          (IF ws[i].job = j THEN Started(ws[i]) ELSE ws[i]) \in WorkerType
    BY <1>1, StartedWorker
  <1>3. f \in [DOMAIN ws -> WorkerType]
    BY <1>2 DEF StartTask
  <1>4. \A i \in DOMAIN ws : f[i] = IF ws[i].job = j THEN Started(ws[i]) ELSE ws[i]
    BY DEF StartTask
  <1> HIDE DEF f
  <1>5. f \in Seq(WorkerType) /\ DOMAIN f = DOMAIN ws
    BY <1>3, MapWorkers
  <1> QED
    BY <1>4, <1>5 DEF f

LEMMA StartTasksWorkers ==
    ASSUME TypeOK, StartTasks
    PROVE  /\ workers' \in Seq(WorkerType) /\ DOMAIN workers' = DOMAIN workers
           /\ \A i \in DOMAIN workers : workers'[i] = Started(workers[i])
  <1>1. \A i \in DOMAIN workers : Started(workers[i]) \in WorkerType
    BY SeqDomains, StartedWorker
  <1>2. workers' \in [DOMAIN workers -> WorkerType]
    BY <1>1 DEF StartTasks
  <1>3. \A i \in DOMAIN workers : workers'[i] = Started(workers[i])
    BY DEF StartTasks
  <1>4. workers \in Seq(WorkerType)
    BY DEF TypeOK
  <1>5. workers' \in Seq(WorkerType) /\ DOMAIN workers' = DOMAIN workers
    BY <1>2, <1>4, MapWorkers
  <1> QED
    BY <1>3, <1>5

\* The list of workers after an ADD: those of the job are started, the new one
\* at the end among them.
LEMMA AddTaskWorkers ==
    ASSUME TypeOK, AddTask, main.job \in Jobs
    PROVE  /\ workers' \in Seq(WorkerType)
           /\ DOMAIN workers' = DOMAIN workers \cup {Len(workers) + 1}
           /\ Len(workers) + 1 \notin DOMAIN workers
           /\ \A i \in DOMAIN workers :
                 workers'[i] = IF workers[i].job = main.job THEN Started(workers[i])
                               ELSE workers[i]
           /\ workers'[Len(workers) + 1] = Worker(main.job, Found(main.job), TRUE, 1)
  <1> DEFINE w  == Worker(main.job, Found(main.job), FALSE, 0)
             ws == Append(workers, w)
  <1>1. /\ ws \in Seq(WorkerType)
        /\ DOMAIN ws = DOMAIN workers \cup {Len(workers) + 1}
        /\ Len(workers) + 1 \notin DOMAIN workers
        /\ \A i \in DOMAIN workers : ws[i] = workers[i]
        /\ ws[Len(workers) + 1] = w
    <2>1. w \in WorkerType
      BY NewWorker
    <2> HIDE DEF w
    <2> QED
      BY <2>1, AppendWorkers
  <1>2. workers' = StartTask(ws, main.job)
    BY DEF AddTask
  <1>3. w.job = main.job /\ Started(w) = Worker(main.job, Found(main.job), TRUE, 1)
    BY DEF Started, Worker
  <1> HIDE DEF ws, w
  <1>4. /\ StartTask(ws, main.job) \in Seq(WorkerType)
        /\ DOMAIN StartTask(ws, main.job) = DOMAIN ws
        /\ \A i \in DOMAIN ws : StartTask(ws, main.job)[i] =
              IF ws[i].job = main.job THEN Started(ws[i]) ELSE ws[i]
    BY <1>1, StartsWorkers
  <1>5. /\ workers' \in Seq(WorkerType) /\ DOMAIN workers' = DOMAIN ws
        /\ \A i \in DOMAIN ws :
              workers'[i] = IF ws[i].job = main.job THEN Started(ws[i]) ELSE ws[i]
    BY <1>2, <1>4
  <1>6. Len(workers) + 1 \in DOMAIN ws /\ \A i \in DOMAIN workers : i \in DOMAIN ws
    BY <1>1
  <1>7. workers'[Len(workers) + 1] = Started(w)
    BY <1>1, <1>3, <1>5, <1>6
  <1>8. \A i \in DOMAIN workers :
          workers'[i] = IF workers[i].job = main.job THEN Started(workers[i])
                        ELSE workers[i]
    BY <1>1, <1>5, <1>6
  <1> QED
    BY <1>1, <1>3, <1>5, <1>7, <1>8

\* The list after an UPDATE: nothing but "found" changes, and only to TRUE.
LEMMA UpdateTaskWorkers ==
    ASSUME TypeOK, UpdateTask
    PROVE  /\ workers' \in Seq(WorkerType) /\ DOMAIN workers' = DOMAIN workers
           /\ \A i \in DOMAIN workers :
                 /\ workers'[i].job = workers[i].job
                 /\ workers'[i].started = workers[i].started
                 /\ workers'[i].links = workers[i].links
                 /\ workers[i].found => workers'[i].found
  <1> DEFINE g(w) == IF w.job = main.job
                     THEN Worker(w.job, w.found \/ Found(w.job), w.started, w.links)
                     ELSE w
  <1>1. \A w \in WorkerType :
          /\ g(w) \in WorkerType /\ g(w).job = w.job /\ g(w).started = w.started
          /\ g(w).links = w.links /\ (w.found => g(w).found)
    BY DEF Worker, WorkerType
  <1>2. workers' = [i \in DOMAIN workers |-> g(workers[i])]
    BY DEF UpdateTask
  <1> HIDE DEF g
  <1>3. \A i \in DOMAIN workers : workers[i] \in WorkerType
    BY SeqDomains
  <1>4. workers' \in [DOMAIN workers -> WorkerType]
    BY <1>1, <1>2, <1>3
  <1>5. workers \in Seq(WorkerType)
    BY DEF TypeOK
  <1>6. workers' \in Seq(WorkerType) /\ DOMAIN workers' = DOMAIN workers
    BY <1>4, <1>5, MapWorkers
  <1> QED
    BY <1>1, <1>2, <1>3, <1>6

-----------------------------------------------------------------------------
(***************************************************************************)
(* Type correctness.                                                       *)
(***************************************************************************)
LEMMA InitR == Init => RInv
  <1> SUFFICES ASSUME Init PROVE RInv
    OBVIOUS
  <1>1. TypeOK
    BY RegistryAssumption DEF Init, TypeOK, At, MainPCs
  <1>2. DOMAIN notes = {} /\ DOMAIN workers = {}
    BY DEF Init
  <1> QED
    BY <1>1, <1>2 DEF Init, RInv, KnownInv, PhaseInv, OnceInv, WindowInv, WayInv,
       Pending, Waiting, At, DuplicatesFromWindow, ConnectedOnce, WorkersOf

LEMMA TypeStep == TypeOK /\ KnownInv /\ [Next]_vars => TypeOK'
  <1> SUFFICES ASSUME TypeOK, KnownInv, [Next]_vars PROVE TypeOK'
    OBVIOUS
  <1>1. ASSUME NEW j \in Jobs, Insert(j) PROVE TypeOK'
    <2>1. notes' \in Seq(Note)
      BY <1>1, NotifyNotes DEF Insert, Kinds
    <2> QED
      BY <1>1, <2>1 DEF Insert, TypeOK
  <1>2. ASSUME NEW j \in Jobs, Delete(j) \/ Edit(j) PROVE TypeOK'
    <2>1. notes' \in Seq(Note)
      BY <1>2, NotifyNotes DEF Delete, Edit, Kinds
    <2> QED
      BY <1>2, <2>1, RegistryAssumption DEF Delete, Edit, TypeOK
  <1>3. CASE Disconnect \/ SystemEventHandler \/ Kill
    <2>1. notes' \in Seq(Note)
      BY <1>3, NoNotes DEF Disconnect, SystemEventHandler, Kill
    <2>2. workers' = workers \/ workers' = <<>>
      BY <1>3 DEF Disconnect, SystemEventHandler, Kill, tableVars
    <2>3. workers \in Seq(WorkerType) /\ <<>> \in Seq(WorkerType)
      BY DEF TypeOK
    <2> QED
      BY <1>3, <2>1, <2>2, <2>3
      DEF Disconnect, SystemEventHandler, Kill, TypeOK, At, MainPCs, tableVars
  <1>4. CASE Open \/ Subscribe \/ SelectIds \/ UpdateLastRunTask
    BY <1>4 DEF Open, Subscribe, SelectIds, UpdateLastRunTask, TypeOK, At, MainPCs,
       tableVars, linkVars
  <1>5. ASSUME NEW j \in Jobs, LoadTask(j) PROVE TypeOK'
    <2>1. workers' \in Seq(WorkerType)
      BY <1>5, NewWorker, AppendWorkers DEF LoadTask
    <2> QED
      BY <1>5, <2>1 DEF LoadTask, TypeOK, tableVars, linkVars
  <1>6. CASE StartTasks
    <2>1. workers' \in Seq(WorkerType)
      BY <1>6, StartTasksWorkers
    <2> QED
      BY <1>6, <2>1 DEF StartTasks, TypeOK, At, MainPCs, tableVars, linkVars
  <1>7. CASE TakeNote
    <2>1. notes' \in Seq(Note) /\ notes[1] \in Note
      BY <1>7, TailNotes DEF TakeNote
    <2>2. main' \in [pc : MainPCs, job : Jobs \cup {NoJob}]
      BY <1>7, <2>1 DEF TakeNote, Note, TypeOK, MainPCs
    <2> QED
      BY <1>7, <2>1, <2>2 DEF TakeNote, TypeOK, tableVars
  <1>8. ASSUME AddTask, main.job \in Jobs PROVE TypeOK'
    BY <1>8, AddTaskWorkers DEF AddTask, TypeOK, At, MainPCs, tableVars, linkVars
  <1>9. CASE UpdateTask
    <2>1. workers' \in Seq(WorkerType)
      BY <1>9, UpdateTaskWorkers
    <2> QED
      BY <1>9, <2>1 DEF UpdateTask, TypeOK, At, MainPCs, tableVars, linkVars
  <1>10. ASSUME NEW j \in Jobs, Hang(j) PROVE TypeOK'
    BY <1>10 DEF Hang, TypeOK, At, MainPCs, tableVars, linkVars
  <1>11. CASE UNCHANGED vars
    BY <1>11 DEF TypeOK, vars
  <1> QED
    BY <1>1, <1>2, <1>3, <1>4, <1>5, <1>6, <1>7, <1>8, <1>9, <1>10, <1>11
       DEF Next, Main, AddTask, KnownInv

-----------------------------------------------------------------------------
(***************************************************************************)
(* The rest of the invariant, by groups of actions.                        *)
(***************************************************************************)
Rest == /\ KnownInv /\ PhaseInv /\ OnceInv /\ WindowInv /\ WayInv
        /\ DuplicatesFromWindow /\ ConnectedOnce

LEMMA InsertStep ==
    ASSUME RInv, TypeOK', NEW j0 \in Jobs, Insert(j0)
    PROVE  Rest'
  <1>0. TypeOK
    BY DEF RInv
  <1>1. /\ UNCHANGED <<gone, conn, others, main, listed, workers>>
        /\ rows' = rows \cup {j0} /\ Known' = Known \cup {j0} /\ j0 \notin Known
        /\ window' = IF main.pc = "subscribed" /\ conn = "listening"
                     THEN window \cup {j0} ELSE window
    BY DEF Insert, Known
  <1>2. \A j : WorkersOf(j)' = WorkersOf(j) /\ Served(j)' = Served(j)
    BY <1>1, SameWorkers
  <1>3. /\ conn # "listening" => notes' = notes
        /\ conn = "listening" =>
              /\ DOMAIN notes' = DOMAIN notes \cup {Len(notes) + 1}
              /\ Len(notes) + 1 \notin DOMAIN notes
              /\ \A i \in DOMAIN notes : notes'[i] = notes[i]
              /\ notes'[Len(notes) + 1] = AddOf(j0)
    BY <1>0, NotifyNotes DEF Insert, Kinds, AddOf
  <1>4. \A j \in Jobs : AddOf(j) = AddOf(j0) <=> j = j0
    BY DEF AddOf
  <1>5. \A j \in Jobs : Waiting(j)' <=> Waiting(j) \/ (conn = "listening" /\ j = j0)
    BY <1>3, <1>4 DEF Waiting
  <1>6. \A j \in Jobs : Pending(j)' <=> Pending(j) \/ (conn = "listening" /\ j = j0)
    BY <1>1, <1>5 DEF Pending
  <1>7. ~Pending(j0) /\ ~Waiting(j0) /\ j0 \notin listed \cup window /\ WorkersOf(j0) = {}
    BY <1>1 DEF RInv, KnownInv, Pending, WorkersOf
  <1>8. KnownInv'
    BY <1>1, <1>6 DEF RInv, KnownInv
  <1>9. PhaseInv'
    BY <1>1, <1>3 DEF RInv, PhaseInv
  <1>10. OnceInv'
    <2> SUFFICES ASSUME NEW j \in Jobs
                 PROVE  /\ \A a, b \in DOMAIN notes' :
                              notes'[a] = AddOf(j) /\ notes'[b] = AddOf(j) => a = b
                        /\ main.pc = "add" /\ main.job = j => ~Waiting(j)'
      BY <1>1 DEF OnceInv, AddOf
    <2>1. \A a, b \in DOMAIN notes' :
            notes'[a] = AddOf(j) /\ notes'[b] = AddOf(j) => a = b
      BY <1>3, <1>4, <1>7 DEF RInv, OnceInv, Waiting
    <2>2. main.pc = "add" /\ main.job = j => ~Waiting(j)'
      BY <1>5, <1>7 DEF RInv, OnceInv, Pending
    <2> QED
      BY <2>1, <2>2
  <1>11. WindowInv'
    BY <1>1, <1>2, <1>6, <1>7 DEF RInv, WindowInv, PhaseInv
  <1>12. WayInv'
    <2> SUFFICES ASSUME NEW j \in rows \cup {j0}
                 PROVE  /\ conn = "listening" /\ main.pc = "list" =>
                              \/ j \in listed \/ Pending(j)'
                              \/ \E i \in WorkersOf(j) : workers[i].found
                        /\ /\ conn = "listening"
                           /\ main.pc \in {"idle", "add", "update", "reconnect"}
                           => Pending(j)' \/ Served(j)
      BY <1>1, <1>2 DEF WayInv
    <2>1. CASE j = j0
      BY <2>1, <1>6
    <2>2. CASE j \in rows
      <3>1. j \in Jobs
        BY <2>2, <1>0 DEF TypeOK
      <3>2. Pending(j) => Pending(j)'
        BY <3>1, <1>6
      <3> QED
        BY <2>2, <3>2 DEF RInv, WayInv
    <2> QED
      BY <2>1, <2>2
  <1>13. DuplicatesFromWindow' /\ ConnectedOnce'
    BY <1>1, <1>2, <1>7 DEF RInv, DuplicatesFromWindow, ConnectedOnce, WorkersOf
  <1> QED
    BY <1>8, <1>9, <1>10, <1>11, <1>12, <1>13 DEF Rest

\* A notification that is no insertion.
LEMMA EditStep ==
    ASSUME RInv, TypeOK', NEW j0 \in Jobs, Delete(j0) \/ Edit(j0)
    PROVE  Rest'
  <1>0. TypeOK
    BY DEF RInv
  <1>1. /\ UNCHANGED <<conn, main, listed, workers, window>>
        /\ rows' \subseteq rows /\ Known' = Known
    BY DEF Delete, Edit, Known
  <1>2. \A j : WorkersOf(j)' = WorkersOf(j) /\ Served(j)' = Served(j)
    BY <1>1, SameWorkers
  <1>3. PICK k \in {"UPDATE", "OTHER"} : Notify(k, j0)
    BY DEF Delete, Edit
  <1>4. /\ conn # "listening" => notes' = notes
        /\ conn = "listening" =>
              /\ DOMAIN notes' = DOMAIN notes \cup {Len(notes) + 1}
              /\ \A i \in DOMAIN notes : notes'[i] = notes[i]
              /\ notes'[Len(notes) + 1] = [kind |-> k, job |-> j0]
    BY <1>0, <1>3, NotifyNotes DEF Kinds
  <1>5. \A j : AddOf(j) # [kind |-> k, job |-> j0]
    BY <1>3 DEF AddOf
  <1>6. \A j : Waiting(j)' <=> Waiting(j)
    BY <1>4, <1>5 DEF Waiting, AddOf
  <1>7. \A j : Pending(j)' <=> Pending(j)
    BY <1>1, <1>6 DEF Pending
  <1>8. KnownInv'
    BY <1>1, <1>7 DEF RInv, KnownInv
  <1>9. PhaseInv'
    BY <1>1, <1>4 DEF RInv, PhaseInv
  <1>10. OnceInv'
    BY <1>1, <1>4, <1>5, <1>6 DEF RInv, OnceInv, AddOf
  <1>11. WindowInv'
    BY <1>1, <1>2, <1>7 DEF RInv, WindowInv
  <1>12. WayInv'
    BY <1>1, <1>2, <1>7 DEF RInv, WayInv
  <1>13. DuplicatesFromWindow' /\ ConnectedOnce'
    BY <1>1, <1>2 DEF RInv, DuplicatesFromWindow, ConnectedOnce
  <1> QED
    BY <1>8, <1>9, <1>10, <1>11, <1>12, <1>13 DEF Rest

\* The connection, and with it every notification, is lost or made anew.
LEMMA DropStep ==
    ASSUME RInv, TypeOK', Disconnect \/ SystemEventHandler \/ Kill
    PROVE  Rest'
  <1>1. /\ UNCHANGED <<rows, gone>> /\ conn' # "listening" /\ notes' = <<>>
        /\ main'.pc \notin {"add", "update"} \/ main' = main
        /\ main'.pc = "list" => main' = main
        /\ \/ Kill
           \/ Disconnect /\ main' = main
           \/ SystemEventHandler /\ main'.pc = "idle"
    BY DEF Disconnect, SystemEventHandler, Kill, At, tableVars
  <1>2. /\ Known' = Known
        /\ (workers' = workers /\ window' = window /\ listed' = listed)
              \/ (workers' = <<>> /\ window' = {} /\ listed' = {})
    BY DEF Known, Disconnect, SystemEventHandler, Kill, tableVars
  <1>3. \A j : ~Waiting(j)' /\ (Pending(j)' => Pending(j))
    BY <1>1, NoNotes DEF Pending
  <1>4. DOMAIN notes' = {}
    BY <1>1
  <1>5. PhaseInv'
    BY <1>1 DEF RInv, PhaseInv, Disconnect, SystemEventHandler, Kill, At, tableVars
  <1>6. OnceInv'
    BY <1>3, <1>4 DEF OnceInv
  <1>7. WayInv'
    BY <1>1 DEF WayInv
  <1>8. CASE workers' = workers /\ window' = window /\ listed' = listed
    <2>1. \A j : WorkersOf(j)' = WorkersOf(j)
      BY <1>8, SameWorkers
    <2>2. KnownInv'
      BY <1>1, <1>2, <1>3, <1>8 DEF RInv, KnownInv
    <2>3. WindowInv'
      BY <1>1, <1>3, <1>8, <2>1 DEF RInv, WindowInv, Kill, At
    <2>4. DuplicatesFromWindow' /\ ConnectedOnce'
      BY <1>8, <2>1 DEF RInv, DuplicatesFromWindow, ConnectedOnce
    <2> QED
      BY <1>5, <1>6, <1>7, <2>2, <2>3, <2>4 DEF Rest
  <1>9. CASE workers' = <<>> /\ window' = {} /\ listed' = {}
    <2>1. DOMAIN workers' = {} /\ \A j : WorkersOf(j)' = {}
      BY <1>9 DEF WorkersOf
    <2>2. KnownInv'
      BY <1>1, <1>2, <1>3, <1>9, <2>1 DEF RInv, KnownInv
    <2>3. WindowInv'
      BY <1>3, <1>9, <2>1 DEF WindowInv, Pending
    <2>4. DuplicatesFromWindow' /\ ConnectedOnce'
      BY <2>1 DEF DuplicatesFromWindow, ConnectedOnce
    <2> QED
      BY <1>5, <1>6, <1>7, <2>2, <2>3, <2>4 DEF Rest
  <1> QED
    BY <1>2, <1>8, <1>9

\* Steps that leave the notifications and the list of workers alone.
LEMMA PlainStep ==
    ASSUME RInv, TypeOK', Open \/ Subscribe \/ SelectIds \/ UpdateLastRunTask
    PROVE  Rest'
  <1>0. TypeOK
    BY DEF RInv
  <1>1. UNCHANGED <<rows, gone, window, notes, workers>> /\ Known' = Known
    BY DEF Open, Subscribe, SelectIds, UpdateLastRunTask, tableVars, linkVars, Known
  <1>2. /\ \A j : WorkersOf(j)' = WorkersOf(j) /\ Served(j)' = Served(j)
        /\ \A j : Waiting(j)' <=> Waiting(j)
    BY <1>1, SameWorkers, SameNotes
  <1>3. /\ main.pc \in {"dead", "open", "subscribed", "idle"}
        /\ main'.pc \notin {"add", "update", "dead"}
    BY DEF Open, Subscribe, SelectIds, UpdateLastRunTask, At
  <1>4. \A j : (Pending(j)' <=> Waiting(j)) /\ (Pending(j) <=> Waiting(j))
    BY <1>2, <1>3 DEF Pending
  <1>5. \/ listed' = listed
        \/ /\ listed' \subseteq rows /\ main.pc = "subscribed" /\ main'.pc = "list"
           /\ conn' = conn /\ (conn = "listening" => listed' = rows)
    BY DEF Open, Subscribe, SelectIds, UpdateLastRunTask, At, linkVars
  <1>6. KnownInv'
    BY <1>0, <1>1, <1>3, <1>4, <1>5 DEF RInv, KnownInv, Known
  <1>7. PhaseInv'
    <2>1. CASE Open
      BY <2>1, <1>1 DEF Open, RInv, PhaseInv, At
    <2>2. CASE Subscribe
      BY <2>2, <1>1 DEF Subscribe, RInv, PhaseInv, At
    <2>3. CASE SelectIds
      <3>1. DOMAIN workers = {}
        BY <2>3 DEF SelectIds, RInv, PhaseInv
      <3> QED
        BY <2>3, <3>1, <1>1 DEF SelectIds, RInv, PhaseInv, At, linkVars
    <2>4. CASE UpdateLastRunTask
      BY <2>4, <1>1 DEF UpdateLastRunTask, RInv, PhaseInv, At, linkVars
    <2> QED
      BY <2>1, <2>2, <2>3, <2>4
  <1>8. OnceInv'
    BY <1>1, <1>2, <1>3 DEF RInv, OnceInv, AddOf
  <1>9. WindowInv'
    <2> SUFFICES ASSUME NEW j \in Jobs
                 PROVE  /\ main'.pc = "subscribed" /\ Waiting(j) => j \in window
                        /\ j \in listed' => WorkersOf(j) = {}
                        /\ Waiting(j) => \A a, b \in WorkersOf(j) : a = b
                        /\ Waiting(j) /\ j \notin window =>
                              j \notin listed' /\ WorkersOf(j) = {}
      BY <1>1, <1>2, <1>4 DEF WindowInv
    <2>1. main'.pc = "subscribed" => ~Waiting(j)
      <3>1. main'.pc = "subscribed" => notes = <<>>
        BY DEF RInv, PhaseInv, Open, Subscribe, SelectIds, UpdateLastRunTask, At
      <3> QED
        BY <3>1 DEF Waiting
    <2>2. CASE listed' = listed
      BY <2>1, <2>2, <1>4 DEF RInv, WindowInv
    <2>3. CASE main.pc = "subscribed"
      <3>1. WorkersOf(j) = {}
        BY <2>3 DEF RInv, PhaseInv, WorkersOf
      <3> QED
        BY <2>1, <2>3, <3>1, <1>4 DEF RInv, WindowInv
    <2> QED
      BY <2>2, <2>3, <1>5
  <1>10. WayInv'
    <2>1. CASE SelectIds
      BY <2>1, <1>1 DEF SelectIds, WayInv, At, linkVars
    <2>2. CASE UpdateLastRunTask
      BY <2>2, <1>1, <1>2, <1>4 DEF UpdateLastRunTask, WayInv, RInv, At, linkVars
    <2>3. CASE Open \/ Subscribe
      BY <2>3 DEF Open, Subscribe, WayInv, At
    <2> QED
      BY <2>1, <2>2, <2>3
  <1>11. DuplicatesFromWindow' /\ ConnectedOnce'
    BY <1>1, <1>2 DEF RInv, DuplicatesFromWindow, ConnectedOnce
  <1> QED
    BY <1>6, <1>7, <1>8, <1>9, <1>10, <1>11 DEF Rest

\* An insertion that waits becomes one that is handled.
LEMMA TakeStep ==
    ASSUME RInv, TypeOK', TakeNote
    PROVE  Rest'
  <1>0. TypeOK
    BY DEF RInv
  <1> DEFINE n == notes[1]
  <1>1. /\ UNCHANGED <<rows, gone, window, conn, listed, workers>> /\ Known' = Known
        /\ main.pc = "idle" /\ notes # <<>> /\ notes' = Tail(notes)
        /\ main' = IF n.kind = "OTHER" THEN main
                   ELSE [pc |-> IF n.kind = "ADD" THEN "add" ELSE "update", job |-> n.job]
    BY DEF TakeNote, tableVars, Known
  <1>2. \A j : WorkersOf(j)' = WorkersOf(j) /\ Served(j)' = Served(j)
    BY <1>1, SameWorkers
  <1>3. /\ 1 \in DOMAIN notes /\ n \in Note
        /\ \A i \in DOMAIN notes' : i + 1 \in DOMAIN notes /\ notes'[i] = notes[i + 1]
        /\ DOMAIN notes' \subseteq Nat \ {0}
    BY <1>0, <1>1, TailNotes
  <1>4. \A i \in DOMAIN notes : i = 1 \/ (i - 1 \in DOMAIN notes' /\ notes'[i - 1] = notes[i])
    BY <1>0, <1>1, TailNotes
  <1> HIDE DEF n
  <1>5. \A j : Waiting(j) <=> Waiting(j)' \/ n = AddOf(j)
    BY <1>3, <1>4 DEF Waiting, n, AddOf
  <1>6. \A j \in Jobs : n = AddOf(j) <=> main'.pc = "add" /\ main'.job = j
    BY <1>1, <1>3 DEF Note, AddOf
  <1>7. \A j \in Jobs : Pending(j)' <=> Pending(j)
    BY <1>1, <1>5, <1>6 DEF Pending
  <1>8. KnownInv'
    BY <1>1, <1>3, <1>7 DEF RInv, KnownInv, Note
  <1>9. PhaseInv'
    BY <1>1, <1>0 DEF RInv, PhaseInv
  <1>10. OnceInv'
    <2> SUFFICES ASSUME NEW j \in Jobs
                 PROVE  /\ \A a, b \in DOMAIN notes' :
                              notes'[a] = AddOf(j) /\ notes'[b] = AddOf(j) => a = b
                        /\ main'.pc = "add" /\ main'.job = j => ~Waiting(j)'
      BY DEF OnceInv, AddOf
    <2>1. \A a, b \in DOMAIN notes : notes[a] = AddOf(j) /\ notes[b] = AddOf(j) => a = b
      BY DEF RInv, OnceInv
    <2>2. \A a, b \in DOMAIN notes' : notes'[a] = AddOf(j) /\ notes'[b] = AddOf(j) => a = b
      BY <2>1, <1>3
    <2>3. n = AddOf(j) => ~Waiting(j)'
      BY <2>1, <1>3 DEF Waiting, n, AddOf
    <2> QED
      BY <2>2, <2>3, <1>6
  <1>11. WindowInv'
    BY <1>1, <1>2, <1>7 DEF RInv, WindowInv
  <1>12. WayInv'
    BY <1>0, <1>1, <1>2, <1>7 DEF RInv, WayInv, TypeOK
  <1>13. DuplicatesFromWindow' /\ ConnectedOnce'
    BY <1>1, <1>2 DEF RInv, DuplicatesFromWindow, ConnectedOnce
  <1> QED
    BY <1>8, <1>9, <1>10, <1>11, <1>12, <1>13 DEF Rest

LEMMA LoadStep ==
    ASSUME RInv, TypeOK', NEW j0 \in Jobs, LoadTask(j0)
    PROVE  Rest'
  <1>0. TypeOK
    BY DEF RInv
  <1> DEFINE new == Len(workers) + 1
  <1>1. /\ UNCHANGED <<rows, gone, window, conn, notes, main>> /\ Known' = Known
        /\ main.pc = "list" /\ j0 \in listed /\ listed' = listed \ {j0}
    BY DEF LoadTask, tableVars, linkVars, Known
  <1>2. /\ DOMAIN workers' = DOMAIN workers \cup {new} /\ new \notin DOMAIN workers
        /\ \A i \in DOMAIN workers : workers'[i] = workers[i]
        /\ workers'[new] = Worker(j0, Found(j0), FALSE, 0)
    <2> DEFINE w == Worker(j0, Found(j0), FALSE, 0)
    <2>1. w \in WorkerType /\ workers' = Append(workers, w)
      BY NewWorker DEF LoadTask
    <2> HIDE DEF w
    <2>2. /\ DOMAIN workers' = DOMAIN workers \cup {new} /\ new \notin DOMAIN workers
          /\ \A i \in DOMAIN workers : workers'[i] = workers[i]
          /\ workers'[new] = w
      BY <1>0, <2>1, AppendWorkers
    <2> QED
      BY <2>2 DEF w
  <1>3. /\ workers'[new].job = j0 /\ workers'[new].links = 0 /\ ~workers'[new].started
        /\ Found(j0) => workers'[new].found
    BY <1>2 DEF Worker
  <1> HIDE DEF new
  <1>4. /\ \A j : j # j0 => WorkersOf(j)' = WorkersOf(j)
        /\ WorkersOf(j0)' = WorkersOf(j0) \cup {new}
    BY <1>2, <1>3 DEF WorkersOf
  <1>5. WorkersOf(j0) = {}
    BY <1>1 DEF RInv, WindowInv
  <1>6. \A j : (Waiting(j)' <=> Waiting(j)) /\ (Pending(j)' <=> Pending(j))
    BY <1>1, SameNotes DEF Pending
  <1>7. KnownInv'
    BY <1>1, <1>2, <1>3, <1>6 DEF RInv, KnownInv
  <1>8. PhaseInv'
    BY <1>1, <1>2, <1>3 DEF RInv, PhaseInv
  <1>9. OnceInv'
    BY <1>1, <1>6 DEF RInv, OnceInv, AddOf
  <1>10. WindowInv'
    BY <1>1, <1>4, <1>5, <1>6 DEF RInv, WindowInv
  <1>11. WayInv'
    <2> SUFFICES ASSUME NEW j \in rows, conn = "listening"
                 PROVE  \/ j \in listed' \/ Pending(j)
                        \/ \E i \in WorkersOf(j)' : workers'[i].found
      BY <1>1, <1>6 DEF WayInv
    <2>1. CASE j = j0
      BY <2>1, <1>3, <1>4 DEF Found
    <2>2. CASE j # j0
      <3>1. WorkersOf(j)' = WorkersOf(j)
        BY <2>2, <1>4
      <3>2. \A i \in WorkersOf(j) : workers'[i] = workers[i]
        BY <1>2 DEF WorkersOf
      <3>3. j \in listed \/ Pending(j) \/ \E i \in WorkersOf(j) : workers[i].found
        BY <1>1 DEF RInv, WayInv
      <3> QED
        BY <2>2, <3>1, <3>2, <3>3, <1>1
    <2> QED
      BY <2>1, <2>2
  <1>12. DuplicatesFromWindow'
    BY <1>1, <1>4, <1>5 DEF RInv, DuplicatesFromWindow
  <1>13. ConnectedOnce'
    <2> SUFFICES ASSUME NEW i \in DOMAIN workers', workers'[i].job \notin window
                 PROVE  workers'[i].links = IF workers'[i].started THEN 1 ELSE 0
      BY <1>1 DEF ConnectedOnce
    <2>1. CASE i = new
      BY <2>1, <1>3
    <2>2. CASE i \in DOMAIN workers
      BY <2>2, <1>2 DEF RInv, ConnectedOnce
    <2> QED
      BY <2>1, <2>2, <1>2
  <1> QED
    BY <1>7, <1>8, <1>9, <1>10, <1>11, <1>12, <1>13 DEF Rest

LEMMA StartStep ==
    ASSUME RInv, TypeOK', StartTasks
    PROVE  Rest'
  <1>0. TypeOK
    BY DEF RInv
  <1>1. /\ UNCHANGED <<rows, gone, window, conn, notes, listed>> /\ Known' = Known
        /\ main.pc = "list" /\ listed = {} /\ main'.pc = "idle"
    BY DEF StartTasks, tableVars, linkVars, Known, At
  <1>2. /\ DOMAIN workers' = DOMAIN workers
        /\ \A i \in DOMAIN workers :
              /\ workers'[i].job = workers[i].job /\ workers'[i].found = workers[i].found
              /\ workers'[i].started /\ workers'[i].links = workers[i].links + 1
    BY <1>0, SeqDomains, StartTasksWorkers, StartedWorker
  <1>3. \A j : WorkersOf(j)' = WorkersOf(j)
    BY <1>2 DEF WorkersOf
  <1>4. \A j : (Waiting(j)' <=> Waiting(j)) /\ (Pending(j)' <=> Pending(j))
    BY <1>1, SameNotes DEF Pending
  <1>5. KnownInv'
    BY <1>1, <1>2, <1>4 DEF RInv, KnownInv
  <1>6. PhaseInv'
    BY <1>1 DEF RInv, PhaseInv
  <1>7. OnceInv'
    BY <1>1, <1>4 DEF RInv, OnceInv, AddOf
  <1>8. WindowInv'
    BY <1>1, <1>3, <1>4 DEF RInv, WindowInv
  <1>9. WayInv'
    <2> SUFFICES ASSUME NEW j \in rows, conn = "listening", ~Pending(j)
                 PROVE  Served(j)'
      BY <1>1, <1>4 DEF WayInv
    <2>1. PICK i \in WorkersOf(j) : workers[i].found
      BY <1>1 DEF RInv, WayInv
    <2>2. i \in WorkersOf(j)' /\ workers'[i].found /\ workers'[i].started
      BY <2>1, <1>2, <1>3 DEF WorkersOf
    <2> QED
      BY <2>2 DEF Served
  <1>10. DuplicatesFromWindow'
    BY <1>1, <1>3 DEF RInv, DuplicatesFromWindow
  <1>11. ConnectedOnce'
    BY <1>1, <1>2 DEF RInv, ConnectedOnce, PhaseInv
  <1> QED
    BY <1>5, <1>6, <1>7, <1>8, <1>9, <1>10, <1>11 DEF Rest

LEMMA AddStep ==
    ASSUME RInv, TypeOK', NEW j0 \in Jobs, AddTask, main.job = j0
    PROVE  Rest'
  <1>0. TypeOK
    BY DEF RInv
  <1> DEFINE new == Len(workers) + 1
  <1>1. /\ UNCHANGED <<rows, gone, window, conn, notes, listed>> /\ Known' = Known
        /\ main.pc = "add" /\ main'.pc = "idle"
    BY DEF AddTask, tableVars, linkVars, Known, At
  <1>2. /\ DOMAIN workers' = DOMAIN workers \cup {new} /\ new \notin DOMAIN workers
        /\ \A i \in DOMAIN workers :
              workers'[i] = IF workers[i].job = j0 THEN Started(workers[i]) ELSE workers[i]
        /\ workers'[new] = Worker(j0, Found(j0), TRUE, 1)
    BY <1>0, AddTaskWorkers
  <1>3. /\ workers'[new].job = j0 /\ workers'[new].links = 1 /\ workers'[new].started
        /\ Found(j0) => workers'[new].found
    BY <1>2 DEF Worker
  <1>4. \A i \in DOMAIN workers :
          /\ workers'[i].job = workers[i].job
          /\ workers[i].job # j0 => workers'[i] = workers[i]
    BY <1>0, <1>2, SeqDomains, StartedWorker
  <1> HIDE DEF new
  <1>5. /\ \A j : j # j0 => WorkersOf(j)' = WorkersOf(j)
        /\ WorkersOf(j0)' = WorkersOf(j0) \cup {new}
    BY <1>2, <1>3, <1>4 DEF WorkersOf
  <1>6. Pending(j0) /\ ~Waiting(j0)
    BY <1>0, <1>1 DEF Pending, RInv, OnceInv
  <1>7. /\ \A j : Waiting(j)' <=> Waiting(j)
        /\ \A j : Pending(j)' <=> Waiting(j)
        /\ \A j : Pending(j) <=> (Waiting(j) \/ j = j0)
    <2>1. \A j : Waiting(j)' <=> Waiting(j)
      BY <1>1, SameNotes
    <2>2. \A j : Pending(j)' <=> Waiting(j)
      BY <1>1, <2>1 DEF Pending
    <2>3. \A j : Pending(j) <=> (Waiting(j) \/ j = j0)
      BY <1>1 DEF Pending
    <2> QED
      BY <2>1, <2>2, <2>3
  <1>8. KnownInv'
    BY <1>0, <1>1, <1>2, <1>3, <1>4, <1>6, <1>7 DEF RInv, KnownInv
  <1>9. PhaseInv'
    BY <1>1 DEF RInv, PhaseInv
  <1>10. OnceInv'
    BY <1>1, <1>7 DEF RInv, OnceInv, AddOf
  <1>11. WindowInv'
    BY <1>1, <1>5, <1>6, <1>7 DEF RInv, WindowInv, PhaseInv
  <1>12. WayInv'
    <2> SUFFICES ASSUME NEW j \in rows, conn = "listening", ~Waiting(j)
                 PROVE  Served(j)'
      BY <1>1, <1>7 DEF WayInv
    <2>1. CASE j = j0
      BY <2>1, <1>3, <1>5 DEF Served, Found
    <2>2. CASE j # j0
      <3>1. Served(j)
        BY <2>2, <1>1, <1>7 DEF RInv, WayInv
      <3> QED
        BY <2>2, <3>1, <1>4, <1>5 DEF Served, WorkersOf
    <2> QED
      BY <2>1, <2>2
  <1>13. DuplicatesFromWindow'
    BY <1>0, <1>1, <1>5, <1>6 DEF RInv, DuplicatesFromWindow, WindowInv
  <1>14. ConnectedOnce'
    <2> SUFFICES ASSUME NEW i \in DOMAIN workers', workers'[i].job \notin window
                 PROVE  workers'[i].links = IF workers'[i].started THEN 1 ELSE 0
      BY <1>1 DEF ConnectedOnce
    <2>1. CASE i = new
      BY <2>1, <1>3
    <2>2. CASE i \in DOMAIN workers /\ workers[i].job # j0
      BY <2>2, <1>4 DEF RInv, ConnectedOnce
    <2>3. CASE i \in DOMAIN workers /\ workers[i].job = j0
      <3>1. i \in WorkersOf(j0) /\ j0 \notin window
        BY <2>3, <1>4 DEF WorkersOf
      <3> QED
        BY <3>1, <1>0, <1>6 DEF RInv, WindowInv
    <2> QED
      BY <2>1, <2>2, <2>3, <1>2
  <1> QED
    BY <1>8, <1>9, <1>10, <1>11, <1>12, <1>13, <1>14 DEF Rest

LEMMA UpdateStep ==
    ASSUME RInv, TypeOK', UpdateTask
    PROVE  Rest'
  <1>0. TypeOK
    BY DEF RInv
  <1>1. /\ UNCHANGED <<rows, gone, window, conn, notes, listed>> /\ Known' = Known
        /\ main.pc = "update" /\ main'.pc = "idle"
    BY DEF UpdateTask, tableVars, linkVars, Known, At
  <1>2. /\ DOMAIN workers' = DOMAIN workers
        /\ \A i \in DOMAIN workers :
              /\ workers'[i].job = workers[i].job
              /\ workers'[i].started = workers[i].started
              /\ workers'[i].links = workers[i].links
              /\ workers[i].found => workers'[i].found
    BY <1>0, UpdateTaskWorkers
  <1>3. \A j : WorkersOf(j)' = WorkersOf(j)
    BY <1>2 DEF WorkersOf
  <1>4. \A j : Served(j) => Served(j)'
    BY <1>2, <1>3 DEF Served, WorkersOf
  <1>5. \A j : (Waiting(j)' <=> Waiting(j)) /\ (Pending(j)' <=> Pending(j))
    BY <1>1, SameNotes DEF Pending
  <1>6. KnownInv'
    BY <1>1, <1>2, <1>5 DEF RInv, KnownInv
  <1>7. PhaseInv'
    BY <1>1 DEF RInv, PhaseInv
  <1>8. OnceInv'
    BY <1>1, <1>5 DEF RInv, OnceInv, AddOf
  <1>9. WindowInv'
    BY <1>1, <1>3, <1>5 DEF RInv, WindowInv
  <1>10. WayInv'
    BY <1>1, <1>4, <1>5 DEF RInv, WayInv
  <1>11. DuplicatesFromWindow' /\ ConnectedOnce'
    BY <1>1, <1>2, <1>3 DEF RInv, DuplicatesFromWindow, ConnectedOnce
  <1> QED
    BY <1>6, <1>7, <1>8, <1>9, <1>10, <1>11 DEF Rest

\* The main thread comes to a row with which update() does not return.
LEMMA HangStep ==
    ASSUME RInv, TypeOK', NEW j0 \in Jobs, Hang(j0)
    PROVE  Rest'
  <1>1. /\ UNCHANGED <<rows, gone, window, conn, notes, workers>> /\ Known' = Known
        /\ main.pc \in {"list", "add", "update"} /\ main'.pc = "stuck" /\ listed' = {}
    BY DEF Hang, Updates, At, tableVars, linkVars, Known
  <1>2. /\ \A j : WorkersOf(j)' = WorkersOf(j)
        /\ \A j : Waiting(j)' <=> Waiting(j)
    BY <1>1, SameWorkers, SameNotes
  <1>3. \A j : (Pending(j)' <=> Waiting(j)) /\ (Waiting(j) => Pending(j))
    BY <1>1, <1>2 DEF Pending
  <1>4. KnownInv'
    BY <1>1, <1>3 DEF RInv, KnownInv
  <1>5. PhaseInv'
    BY <1>1 DEF RInv, PhaseInv
  <1>6. OnceInv'
    BY <1>1, <1>2 DEF RInv, OnceInv, AddOf
  <1>7. WindowInv'
    BY <1>1, <1>2, <1>3 DEF RInv, WindowInv
  <1>8. WayInv'
    BY <1>1 DEF WayInv
  <1>9. DuplicatesFromWindow' /\ ConnectedOnce'
    BY <1>1, <1>2 DEF RInv, DuplicatesFromWindow, ConnectedOnce
  <1> QED
    BY <1>4, <1>5, <1>6, <1>7, <1>8, <1>9 DEF Rest

LEMMA StutterStep ==
    ASSUME RInv, UNCHANGED vars
    PROVE  Rest'
  <1>1. UNCHANGED <<rows, gone, conn, notes, others, main, listed, workers, window>>
    BY DEF vars
  <1>2. /\ \A j : WorkersOf(j)' = WorkersOf(j) /\ Served(j)' = Served(j)
        /\ \A j : Waiting(j)' <=> Waiting(j)
    BY <1>1, SameWorkers, SameNotes
  <1>3. \A j : Pending(j)' <=> Pending(j)
    BY <1>1, <1>2 DEF Pending
  <1>4. KnownInv' /\ PhaseInv' /\ OnceInv'
    BY <1>1, <1>2, <1>3 DEF RInv, KnownInv, Known, PhaseInv, OnceInv, AddOf
  <1>5. WindowInv' /\ WayInv'
    BY <1>1, <1>2, <1>3 DEF RInv, WindowInv, WayInv
  <1>6. DuplicatesFromWindow' /\ ConnectedOnce'
    BY <1>1, <1>2 DEF RInv, DuplicatesFromWindow, ConnectedOnce
  <1> QED
    BY <1>4, <1>5, <1>6 DEF Rest

LEMMA StepR == RInv /\ [Next]_vars => RInv'
  <1> SUFFICES ASSUME RInv, [Next]_vars PROVE RInv'
    OBVIOUS
  <1>1. TypeOK'
    BY TypeStep DEF RInv
  <1>2. AddTask => main.job \in Jobs
    BY DEF AddTask, RInv, KnownInv
  <1>3. Rest'
    BY <1>1, <1>2, InsertStep, EditStep, DropStep, PlainStep, TakeStep, LoadStep,
       StartStep, AddStep, UpdateStep, HangStep, StutterStep DEF Next, Main
  <1> QED
    BY <1>1, <1>3 DEF Rest, RInv

-----------------------------------------------------------------------------
(***************************************************************************)
(* Theorems.                                                               *)
(***************************************************************************)
\* RInv is inductive, so it holds in every reachable state.
THEOREM SpecRInv == Spec => []RInv
  BY InitR, StepR, PTL DEF Spec

\* The variables keep their types, in particular the QList of workers.
THEOREM SpecTypeOK == Spec => []TypeOK
  <1>1. RInv => TypeOK
    BY DEF RInv
  <1> QED
    BY <1>1, SpecRInv, PTL

\* Whatever the order of insertions, list and notifications, a row of the table
\* has a Task that runs, as long as the subscription lasts (pgworker.cpp:28-31).
THEOREM SpecNoJobMissed == Spec => []NoJobMissed
  <1>1. RInv => NoJobMissed
    <2> SUFFICES ASSUME RInv, NEW j \in rows, main.pc = "idle", conn = "listening",
                        \A i \in DOMAIN notes : notes[i] # AddOf(j)
                 PROVE  Served(j)
      BY DEF NoJobMissed, AddOf
    <2>1. ~Pending(j)
      BY DEF Pending, Waiting
    <2> QED
      BY <2>1 DEF RInv, WayInv
  <1> QED
    BY <1>1, SpecRInv, PTL

\* Only a row inserted in the window of init() gets a second worker.
THEOREM SpecDuplicatesFromWindow == Spec => []DuplicatesFromWindow
  <1>1. RInv => DuplicatesFromWindow
    BY DEF RInv
  <1> QED
    BY <1>1, SpecRInv, PTL

\* Outside that window the signal of a Task is connected once when its thread
\* runs, and not before.
THEOREM SpecConnectedOnce == Spec => []ConnectedOnce
  <1>1. RInv => ConnectedOnce
    BY DEF RInv
  <1> QED
    BY <1>1, SpecRInv, PTL

\* Without its subscription the program never finds a row again
\* (pgworker.cpp:304-327).
THEOREM SpecDeafMisses == Spec => DeafMisses
  <1> DEFINE Act == \A j \in Jobs :
                       Deaf /\ ~Served(j) => (Deaf /\ ~Served(j))' \/ main'.pc = "dead"
  <1>1. ASSUME RInv, [Next]_vars PROVE [Act]_vars
    <2> SUFFICES ASSUME Next, NEW j \in Jobs, Deaf, ~Served(j), main'.pc # "dead"
                 PROVE  Deaf' /\ ~Served(j)'
      BY <1>1
    <2>1. main.pc \in {"idle", "reconnect"} /\ conn # "listening" /\ notes = <<>>
      BY <1>1 DEF Deaf, RInv, PhaseInv
    <2>2. \/ \E k \in Jobs : Insert(k) \/ Delete(k) \/ Edit(k)
          \/ Disconnect \/ SystemEventHandler \/ UpdateLastRunTask
      <3>1. ~Kill /\ ~TakeNote
        BY <2>1 DEF Kill, TakeNote, At
      <3>2. ~Open /\ ~Subscribe /\ ~SelectIds /\ ~StartTasks
        BY <2>1 DEF Open, Subscribe, SelectIds, StartTasks
      <3>3. ~AddTask /\ ~UpdateTask /\ \A k \in Jobs : ~LoadTask(k) /\ ~Hang(k)
        BY <2>1 DEF AddTask, UpdateTask, LoadTask, Hang, Updates
      <3> QED
        BY <3>1, <3>2, <3>3 DEF Next, Main
    <2>3. workers' = workers /\ Deaf'
      BY <2>1, <2>2 DEF Deaf, Insert, Delete, Edit, Disconnect, SystemEventHandler,
         UpdateLastRunTask, At, linkVars, tableVars
    <2> QED
      BY <2>3, SameWorkers
  <1> QED
    BY <1>1, SpecRInv, PTL DEF Spec, DeafMisses

=============================================================================
