------------------------ MODULE TaskConnection_proof ------------------------
(***************************************************************************)
(* Proofs about TaskConnection, for any number of jobs, names and renames. *)
(***************************************************************************)
EXTENDS TaskConnection, TLAPS

\* j keeps the name it runs under, and nobody else has or takes it.
Alone(j) ==
    /\ name[j] = arg[j]
    /\ \A i \in Jobs \ {j} : ~Claims(i, arg[j])

LookedUp == {"reopen", "retry", "action", "log", "close"}

\* Such a job owns the connection under its name, and looks up no other.
Undisturbed(j) ==
    /\ Busy(j) => Alone(j)
    /\ pc[j] \in Holding => dict[arg[j]] = j
    /\ pc[j] \in LookedUp => db[j] = arg[j]

\* A job that has had one name since the start has one connection at most, ...
NeverRenamed(j) ==
    /\ arg[j] = name[j]
    /\ \A n \in AllNames : dict[n] = j => n = name[j]
    /\ db[j] \in {name[j], NoName}

\* ... which is new when it is opened, and closed at the end but for a failure.
ClosedInTurn(j) ==
    /\ pc[j] = "open" => conn[j][arg[j]] # "open"
    /\ ~Busy(j) /\ ~failed[j] /\ ~renamed[j] =>
           \A n \in AllNames : conn[j][n] # "open"

\* What a running execution holds may be cut off, but does not go away.
InHand(j) ==
    /\ pc[j] \in Holding => conn[j][arg[j]] # "none"
    /\ pc[j] \in LookedUp /\ db[j] # NoName => conn[j][db[j]] # "none"

IInv ==
    /\ TypeOK
    /\ \A j \in Jobs : InHand(j)
    /\ \A j \in Jobs : ~disturbed[j] => Undisturbed(j)
    /\ \A j \in Jobs : ~renamed[j] => NeverRenamed(j)
    /\ \A j \in Jobs : ClosedInTurn(j)

ConnStates == {"none", "closed", "open", "cut off"}
PCs == Holding \cup {"polling", "register"}

LEMMA InitIInv == Init => IInv
  <1> SUFFICES ASSUME Init PROVE IInv
    OBVIOUS
  <1>0. NoJob \notin Jobs
    BY NameAssumption
  <1>1. TypeOK
    <2>1. notes \in Seq(Jobs)
      BY DEF Init
    <2> QED
      BY <1>0, <2>1 DEF Init, TypeOK, AllNames, Holding
  <1>5. \A j \in Jobs : InHand(j)
    BY DEF Init, InHand, Holding, LookedUp
  <1>2. \A j \in Jobs : Undisturbed(j)
    BY DEF Init, Undisturbed, Busy, Holding, LookedUp
  <1>3. \A j \in Jobs : NeverRenamed(j)
    BY <1>0 DEF Init, NeverRenamed
  <1>4. \A j \in Jobs : ClosedInTurn(j)
    BY DEF Init, ClosedInTurn
  <1> QED
    BY <1>1, <1>2, <1>3, <1>4, <1>5 DEF IInv

LEMMA Domains ==
    ASSUME IInv
    PROVE  /\ DOMAIN pc = Jobs /\ DOMAIN db = Jobs /\ DOMAIN failed = Jobs
           /\ DOMAIN conn = Jobs /\ DOMAIN arg = Jobs /\ DOMAIN name = Jobs
           /\ DOMAIN disturbed = Jobs /\ DOMAIN renamed = Jobs
           /\ DOMAIN dict = AllNames
           /\ \A i \in Jobs : DOMAIN conn[i] = AllNames
  BY DEF IInv, TypeOK

LEMMA ConnType ==
    ASSUME IInv
    PROVE  /\ conn \in [Jobs -> [AllNames -> ConnStates]]
           /\ \A i \in Jobs : conn[i] \in [AllNames -> ConnStates]
  <1>1. conn \in [Jobs -> [AllNames -> ConnStates]]
    BY DEF IInv, TypeOK, ConnStates
  <1> HIDE DEF ConnStates
  <1> QED
    BY <1>1

\* What all steps of one execution have in common once it is registered: only
\* its own thread and connections change, and none is made or lost.
OwnStep(j) ==
    /\ UNCHANGED <<row, renames, notes, name, dict, arg, disturbed, renamed>>
    /\ pc' = [pc EXCEPT ![j] = pc'[j]] /\ pc'[j] \in PCs \ {"register", "open"}
    /\ pc[j] \in Holding
    /\ db' = [db EXCEPT ![j] = db'[j]] /\ db'[j] \in AllNames \cup {NoName}
    /\ failed' = [failed EXCEPT ![j] = failed'[j]] /\ failed'[j] \in BOOLEAN
    /\ conn' = [conn EXCEPT ![j] = conn'[j]]
    /\ conn'[j] \in [AllNames -> ConnStates]
    /\ \A n \in AllNames :
           conn'[j][n] \in {"closed", "open"} <=> conn[j][n] \in {"closed", "open"}

LEMMA OwnStepIInv ==
    ASSUME IInv, NEW j \in Jobs, OwnStep(j), InHand(j)',
           ~disturbed[j] /\ pc'[j] \in LookedUp => db'[j] = arg[j],
           ~renamed[j] => db'[j] \in {name[j], NoName},
           pc'[j] = "polling" /\ ~failed'[j] /\ ~renamed[j] =>
               \A n \in AllNames : conn'[j][n] # "open"
    PROVE  IInv'
  <1>t. TypeOK
    BY DEF IInv
  <1>1. TypeOK'
    <2>1. /\ pc' \in [Jobs -> PCs]
          /\ db' \in [Jobs -> AllNames \cup {NoName}]
          /\ failed' \in [Jobs -> BOOLEAN]
          /\ conn' \in [Jobs -> [AllNames -> ConnStates]]
      <3>1. /\ pc \in [Jobs -> PCs] /\ db \in [Jobs -> AllNames \cup {NoName}]
            /\ failed \in [Jobs -> BOOLEAN] /\ conn \in [Jobs -> [AllNames -> ConnStates]]
        BY <1>t DEF TypeOK, PCs, ConnStates
      <3>2. pc'[j] \in PCs /\ db'[j] \in AllNames \cup {NoName}
            /\ failed'[j] \in BOOLEAN /\ conn'[j] \in [AllNames -> ConnStates]
        BY DEF OwnStep
      <3>3. pc' = [pc EXCEPT ![j] = pc'[j]] /\ db' = [db EXCEPT ![j] = db'[j]]
            /\ failed' = [failed EXCEPT ![j] = failed'[j]]
            /\ conn' = [conn EXCEPT ![j] = conn'[j]]
        BY DEF OwnStep
      <3> QED
        BY <3>1, <3>2, <3>3
    <2>2. \A i \in Jobs, n \in AllNames :
              conn'[i][n] \in {"closed", "open"} <=> dict'[n] = i
      <3> SUFFICES ASSUME NEW i \in Jobs, NEW n \in AllNames
                   PROVE  conn'[i][n] \in {"closed", "open"} <=> dict'[n] = i
        OBVIOUS
      <3>1. conn'[i][n] \in {"closed", "open"} <=> conn[i][n] \in {"closed", "open"}
        <4>1. CASE i = j
          BY <4>1 DEF OwnStep
        <4>2. CASE i # j
          <5>1. i \in DOMAIN conn
            BY <1>t DEF TypeOK
          <5>2. conn' = [conn EXCEPT ![j] = conn'[j]]
            BY DEF OwnStep
          <5>3. conn'[i] = conn[i]
            BY <4>2, <5>1, <5>2
          <5> QED
            BY <5>3
        <4> QED
          BY <4>1, <4>2
      <3> QED
        BY <1>t, <3>1 DEF OwnStep, TypeOK
    <2>3. /\ row' \in [Jobs -> AllNames] /\ renames' \in Nat /\ notes' \in Seq(Jobs)
          /\ name' \in [Jobs -> AllNames] /\ dict' \in [AllNames -> Jobs \cup {NoJob}]
          /\ arg' \in [Jobs -> AllNames] /\ disturbed' \in [Jobs -> BOOLEAN]
          /\ renamed' \in [Jobs -> BOOLEAN]
      BY <1>t DEF OwnStep, TypeOK
    <2>4. /\ pc' \in [Jobs -> Holding \cup {"polling", "register"}]
          /\ conn' \in [Jobs -> [AllNames -> {"none", "closed", "open", "cut off"}]]
      BY <2>1 DEF PCs, ConnStates
    <2> HIDE DEF OwnStep
    <2> QED
      BY <2>1, <2>2, <2>3, <2>4 DEF TypeOK
  <1>2. ASSUME NEW i \in Jobs
        PROVE  /\ i # j => pc'[i] = pc[i] /\ db'[i] = db[i] /\ failed'[i] = failed[i]
                            /\ conn'[i] = conn[i]
               /\ name'[i] = name[i] /\ arg'[i] = arg[i] /\ dict' = dict
               /\ disturbed'[i] = disturbed[i] /\ renamed'[i] = renamed[i]
    <2>1. i \in DOMAIN pc /\ i \in DOMAIN db
      BY Domains
    <2>4. i \in DOMAIN failed /\ i \in DOMAIN conn
      BY Domains
    <2>2. i # j => pc'[i] = pc[i] /\ db'[i] = db[i]
      BY <2>1 DEF OwnStep
    <2>3. i # j => failed'[i] = failed[i] /\ conn'[i] = conn[i]
      BY <2>4 DEF OwnStep
    <2> QED
      BY <2>2, <2>3 DEF OwnStep
  <1>3. ASSUME NEW i \in Jobs, ~disturbed'[i] PROVE Undisturbed(i)'
    <2>0. Undisturbed(i)
      BY <1>2, <1>3 DEF IInv
    <2>1. Busy(i)' => Busy(i)
      BY <1>2 DEF Busy, OwnStep, Holding
    <2>2. \A k \in Jobs : Claims(k, arg[i])' => Claims(k, arg[i])
      BY <1>2 DEF Claims, OwnStep
    <2>3. Busy(i)' => Alone(i)'
      BY <1>2, <2>0, <2>1, <2>2 DEF Undisturbed, Alone, Claims
    <2>4. pc'[i] \in Holding => dict'[arg'[i]] = i
      BY <1>2, <2>0 DEF Undisturbed, OwnStep
    <2>5. pc'[i] \in LookedUp => db'[i] = arg'[i]
      BY <1>2, <1>3, <2>0 DEF Undisturbed
    <2> QED
      BY <2>3, <2>4, <2>5 DEF Undisturbed
  <1>4. ASSUME NEW i \in Jobs, ~renamed'[i] PROVE NeverRenamed(i)'
    BY <1>2, <1>4 DEF IInv, NeverRenamed
  <1>5. ASSUME NEW i \in Jobs PROVE ClosedInTurn(i)'
    <2>0. ClosedInTurn(i)
      BY DEF IInv
    <2>1. CASE i = j
      BY <1>2, <2>1 DEF ClosedInTurn, OwnStep, Busy
    <2>2. CASE i # j
      BY <1>2, <2>0, <2>2 DEF ClosedInTurn, Busy
    <2> QED
      BY <2>1, <2>2
  <1>6. ASSUME NEW i \in Jobs PROVE InHand(i)'
    BY <1>2 DEF IInv, InHand
  <1> QED
    BY <1>1, <1>3, <1>4, <1>5, <1>6 DEF IInv

LEMMA ReleasedType ==
    ASSUME NEW c \in [AllNames -> ConnStates]
    PROVE  /\ Released(c) \in [AllNames -> ConnStates]
           /\ \A k \in AllNames :
                  Released(c)[k] = IF c[k] = "cut off" THEN "none" ELSE c[k]
  <1>1. \A k \in AllNames :
            (IF c[k] = "cut off" THEN "none" ELSE c[k]) \in ConnStates
    BY DEF ConnStates
  <1> HIDE DEF ConnStates
  <1> QED
    BY <1>1 DEF Released

\* The connections of j with s as the state of the one under n.
Put(j, n, s) == [conn[j] EXCEPT ![n] = s]

\* A connection in hand is one j has made: it is in the dictionary or cut off.
LEMMA PutConn ==
    ASSUME IInv, NEW j \in Jobs, NEW n \in AllNames, conn[j][n] # "none",
           Usable(j, n), NEW s \in {"open", "closed"}
    PROVE  /\ Put(j, n, s) \in [AllNames -> ConnStates]
           /\ Released(Put(j, n, s)) \in [AllNames -> ConnStates]
           /\ \A k \in AllNames :
                /\ Put(j, n, s)[k] \in {"closed", "open"}
                       <=> conn[j][k] \in {"closed", "open"}
                /\ Released(Put(j, n, s))[k] \in {"closed", "open"}
                       <=> conn[j][k] \in {"closed", "open"}
                /\ k # n => Put(j, n, s)[k] = conn[j][k]
                /\ Released(Put(j, n, s))[k] = "open" => Put(j, n, s)[k] = "open"
           /\ Put(j, n, s)[n] = s
  <1> DEFINE c == Put(j, n, s)
  <1>1. conn[j] \in [AllNames -> ConnStates]
    BY ConnType
  <1>2. conn[j][n] \in {"closed", "open"}
    BY <1>1 DEF Usable, ConnStates
  <1>3. /\ c \in [AllNames -> ConnStates] /\ c[n] = s
        /\ \A k \in AllNames : k # n => c[k] = conn[j][k]
    BY <1>1 DEF ConnStates, Put
  <1> HIDE DEF c
  <1>4. \A k \in AllNames : Released(c)[k] = IF c[k] = "cut off" THEN "none" ELSE c[k]
    BY <1>3, ReleasedType
  <1>5. Released(c) \in [AllNames -> ConnStates]
    BY <1>3, ReleasedType
  <1> USE DEF c
  <1> QED
    BY <1>2, <1>3, <1>4, <1>5

LEMMA OpensPut ==
    ASSUME NEW j, NEW n, Opens(j, n)
    PROVE  Usable(j, n) /\ conn' = [conn EXCEPT ![j] = Put(j, n, "open")]
  BY DEF Opens, Put

LEMMA CannotOpenPut ==
    ASSUME NEW j, NEW n, CannotOpen(j, n)
    PROVE  /\ Usable(j, n) => conn' = [conn EXCEPT ![j] = Put(j, n, "closed")]
           /\ ~Usable(j, n) => conn' = conn
  BY DEF CannotOpen, Put

LEMMA ReleasedConn ==
    ASSUME IInv, NEW j \in Jobs
    PROVE  /\ Released(conn[j]) \in [AllNames -> ConnStates]
           /\ \A k \in AllNames :
                /\ Released(conn[j])[k] \in {"closed", "open"}
                       <=> conn[j][k] \in {"closed", "open"}
                /\ Released(conn[j])[k] = "open" => conn[j][k] = "open"
  <1>1. conn[j] \in [AllNames -> ConnStates]
    BY ConnType
  <1>2. \A k \in AllNames :
            Released(conn[j])[k] = IF conn[j][k] = "cut off" THEN "none" ELSE conn[j][k]
    BY <1>1, ReleasedType
  <1>3. Released(conn[j]) \in [AllNames -> ConnStates]
    BY <1>1, ReleasedType
  <1> QED
    BY <1>1, <1>2, <1>3 DEF ConnStates

\* Of a job that was not renamed, only the connection under its name is open.
LEMMA OnlyOne ==
    ASSUME IInv, NEW j \in Jobs, ~renamed[j], NEW n \in AllNames, conn[j][n] = "open"
    PROVE  n = arg[j]
  <1>1. dict[n] = j
    BY DEF IInv, TypeOK
  <1>2. NeverRenamed(j)
    BY DEF IInv
  <1> QED
    BY <1>1, <1>2 DEF NeverRenamed

\* The step that takes j to p, its db to d, its history to f, its connections to c.
StepTo(j, p, d, f, c) ==
    /\ pc[j] \in Holding
    /\ UNCHANGED <<row, renames, notes, name, dict, arg, disturbed, renamed>>
    /\ p \in PCs \ {"register", "open"} /\ pc' = [pc EXCEPT ![j] = p]
    /\ d \in AllNames \cup {NoName} /\ db' = [db EXCEPT ![j] = d]
    /\ f \in BOOLEAN /\ failed' = [failed EXCEPT ![j] = f]
    /\ c \in [AllNames -> ConnStates] /\ conn' = [conn EXCEPT ![j] = c]
    /\ \A n \in AllNames :
           c[n] \in {"closed", "open"} <=> conn[j][n] \in {"closed", "open"}
    /\ p \in Holding => c[arg[j]] # "none"
    /\ p \in LookedUp /\ d # NoName => c[d] # "none"
    /\ ~disturbed[j] /\ p \in LookedUp => d = arg[j]
    /\ ~renamed[j] => d \in {name[j], NoName}
    /\ p = "polling" /\ ~f /\ ~renamed[j] => \A n \in AllNames : c[n] # "open"

LEMMA StepToIInv ==
    ASSUME IInv, NEW j \in Jobs, NEW p, NEW d, NEW f, NEW c, StepTo(j, p, d, f, c)
    PROVE  IInv'
  <1>1. /\ j \in DOMAIN pc /\ j \in DOMAIN db /\ j \in DOMAIN failed
        /\ j \in DOMAIN conn
    BY Domains
  <1>2. pc'[j] = p /\ db'[j] = d /\ failed'[j] = f /\ conn'[j] = c /\ arg' = arg
    BY <1>1 DEF StepTo
  <1>3. OwnStep(j)
    BY <1>2 DEF OwnStep, StepTo
  <1>4. InHand(j)'
    BY <1>2 DEF InHand, StepTo
  <1>5. /\ ~disturbed[j] /\ p \in LookedUp => d = arg[j]
        /\ ~renamed[j] => d \in {name[j], NoName}
        /\ p = "polling" /\ ~f /\ ~renamed[j] => \A n \in AllNames : c[n] # "open"
    BY DEF StepTo
  <1> QED
    BY <1>2, <1>3, <1>4, <1>5, OwnStepIInv

\* What the steps below know of an execution that is under way.
LEMMA Held ==
    ASSUME IInv, NEW j \in Jobs, pc[j] \in Holding
    PROVE  /\ arg[j] \in AllNames /\ name[j] \in AllNames
           /\ db[j] \in AllNames \cup {NoName}
           /\ failed[j] \in BOOLEAN
           /\ conn[j][arg[j]] # "none"
           /\ pc[j] \in LookedUp /\ db[j] # NoName => conn[j][db[j]] # "none"
           /\ ~disturbed[j] => name[j] = arg[j] /\ dict[arg[j]] = j
           /\ ~disturbed[j] /\ pc[j] \in LookedUp => db[j] = arg[j]
           /\ ~renamed[j] => arg[j] = name[j] /\ db[j] \in {name[j], NoName}
           /\ db = [db EXCEPT ![j] = db[j]]
           /\ failed = [failed EXCEPT ![j] = failed[j]]
           /\ conn = [conn EXCEPT ![j] = conn[j]]
  <1>1. /\ arg[j] \in AllNames /\ name[j] \in AllNames
        /\ db[j] \in AllNames \cup {NoName} /\ failed[j] \in BOOLEAN
    BY DEF IInv, TypeOK
  <1>2. InHand(j) /\ (~disturbed[j] => Undisturbed(j)) /\ (~renamed[j] => NeverRenamed(j))
    BY DEF IInv
  <1>3. Busy(j)
    BY DEF Busy, Holding
  <1>4. /\ db \in [Jobs -> AllNames \cup {NoName}] /\ failed \in [Jobs -> BOOLEAN]
        /\ conn \in [Jobs -> [AllNames -> ConnStates]]
    BY ConnType DEF IInv, TypeOK
  <1>5. /\ db = [db EXCEPT ![j] = db[j]]
        /\ failed = [failed EXCEPT ![j] = failed[j]]
        /\ conn = [conn EXCEPT ![j] = conn[j]]
    BY <1>4
  <1> QED
    BY <1>1, <1>2, <1>3, <1>5 DEF InHand, Undisturbed, Alone, NeverRenamed

LEMMA OpenIInv ==
    ASSUME IInv, NEW j \in Jobs, Open(j)
    PROVE  IInv'
  <1>0. pc[j] = "open" /\ pc[j] \in Holding /\ {"lookup", "polling"} \subseteq PCs
    BY DEF Open, Holding, PCs
  <1>u. /\ UNCHANGED <<row, renames, notes, name, dict, arg, disturbed, renamed>>
        /\ db' = db /\ failed' = failed
    BY DEF Open, table
  <1>1. CASE Opens(j, arg[j]) /\ pc' = [pc EXCEPT ![j] = "lookup"]
    <2> DEFINE c == Put(j, arg[j], "open")
    <2>1. conn' = [conn EXCEPT ![j] = c] /\ Usable(j, arg[j])
      BY <1>1, OpensPut
    <2>6. arg[j] \in AllNames /\ conn[j][arg[j]] # "none"
      BY <1>0, Held
    <2>2. /\ c \in [AllNames -> ConnStates] /\ c[arg[j]] = "open"
          /\ \A k \in AllNames :
                 c[k] \in {"closed", "open"} <=> conn[j][k] \in {"closed", "open"}
      BY <2>1, <2>6, PutConn
    <2>3. /\ "lookup" \notin LookedUp /\ "lookup" # "polling"
          /\ "lookup" \in PCs \ {"register", "open"}
      BY DEF LookedUp, PCs, Holding
    <2>4. /\ db[j] \in AllNames \cup {NoName} /\ failed[j] \in BOOLEAN
          /\ db' = [db EXCEPT ![j] = db[j]] /\ failed' = [failed EXCEPT ![j] = failed[j]]
          /\ ~renamed[j] => db[j] \in {name[j], NoName}
      BY <1>0, <1>u, Held
    <2>5. c[arg[j]] # "none"
      BY <2>2
    <2> HIDE DEF c
    <2> QED
      <3>1. StepTo(j, "lookup", db[j], failed[j], c)
        BY <1>0, <1>1, <1>u, <2>1, <2>2, <2>3, <2>4, <2>5 DEF StepTo
      <3> QED
        BY <3>1, StepToIInv
  <1>2. CASE /\ conn' = [conn EXCEPT ![j] = Released(@)]
             /\ pc' = [pc EXCEPT ![j] = "polling"]
    <2> DEFINE c == Released(conn[j])
    <2>1. conn' = [conn EXCEPT ![j] = c]
      BY <1>2
    <2>2. /\ c \in [AllNames -> ConnStates]
          /\ \A k \in AllNames :
                 /\ c[k] \in {"closed", "open"} <=> conn[j][k] \in {"closed", "open"}
                 /\ c[k] = "open" => conn[j][k] = "open"
      BY ReleasedConn
    <2>3. ~renamed[j] => \A k \in AllNames : c[k] # "open"
      BY <1>0, <2>2, OnlyOne DEF IInv, ClosedInTurn
    <2>4. /\ "polling" \notin LookedUp /\ "polling" \notin Holding
          /\ "polling" \in PCs \ {"register", "open"}
      BY DEF LookedUp, PCs, Holding
    <2>5. /\ db[j] \in AllNames \cup {NoName} /\ failed[j] \in BOOLEAN
          /\ db' = [db EXCEPT ![j] = db[j]] /\ failed' = [failed EXCEPT ![j] = failed[j]]
          /\ ~renamed[j] => db[j] \in {name[j], NoName}
      BY <1>0, <1>u, Held
    <2> HIDE DEF c
    <2> QED
      <3>1. StepTo(j, "polling", db[j], failed[j], c)
        BY <1>0, <1>2, <1>u, <2>1, <2>2, <2>3, <2>4, <2>5 DEF StepTo
      <3> QED
        BY <3>1, StepToIInv
  <1> QED
    BY <1>1, <1>2 DEF Open

LEMMA LookupIInv ==
    ASSUME IInv, NEW j \in Jobs, Lookup(j)
    PROVE  IInv'
  <1>0. pc[j] = "lookup" /\ pc[j] \in Holding
        /\ "reopen" \in PCs /\ "reopen" \in LookedUp
    BY DEF Lookup, Holding, PCs, LookedUp
  <1> DEFINE d == IF dict[name[j]] = j THEN name[j] ELSE NoName
  <1>1. /\ UNCHANGED <<row, renames, notes, name, dict, arg, disturbed, renamed>>
        /\ failed' = failed /\ conn' = conn
        /\ db' = [db EXCEPT ![j] = d] /\ pc' = [pc EXCEPT ![j] = "reopen"]
    BY DEF Lookup, table
  <1>2. d \in AllNames \cup {NoName} /\ d \in {name[j], NoName}
    BY <1>0, Held
  <1>3. conn[j] \in [AllNames -> ConnStates]
    BY ConnType
  <1>4. d # NoName => conn[j][d] # "none"
    <2>1. d # NoName => dict[d] = j /\ d \in AllNames
      BY <1>2
    <2> HIDE DEF d
    <2> QED
      BY <2>1 DEF IInv, TypeOK
  <1>5. ~disturbed[j] => d = arg[j]
    BY <1>0, Held
  <1>6. /\ "reopen" \in PCs \ {"register", "open"} /\ "reopen" # "polling"
        /\ failed[j] \in BOOLEAN /\ failed' = [failed EXCEPT ![j] = failed[j]]
        /\ conn' = [conn EXCEPT ![j] = conn[j]] /\ conn[j][arg[j]] # "none"
        /\ d \in AllNames \cup {NoName} /\ (~renamed[j] => d \in {name[j], NoName})
    BY <1>0, <1>1, <1>2, Held
  <1> HIDE DEF d
  <1> QED
    <2>1. StepTo(j, "reopen", d, failed[j], conn[j])
      BY <1>0, <1>1, <1>3, <1>4, <1>5, <1>6 DEF StepTo
    <2> QED
      BY <2>1, StepToIInv

\* After the lookup: db and arg stay, and what is opened or closed is in hand.
LEMMA InUse ==
    ASSUME IInv, NEW j \in Jobs, pc[j] \in LookedUp, NEW n, n \in {arg[j], db[j]},
           Usable(j, n)
    PROVE  n \in AllNames /\ conn[j][n] # "none"
  <1>1. pc[j] \in Holding
    BY DEF LookedUp, Holding
  <1>2. n # NoName
    BY DEF Usable
  <1> QED
    BY <1>1, <1>2, Held

LEMMA KeepsNames ==
    ASSUME IInv, NEW j \in Jobs, pc[j] \in LookedUp
    PROVE  /\ pc[j] \in Holding
           /\ db[j] \in AllNames \cup {NoName} /\ failed[j] \in BOOLEAN
           /\ db = [db EXCEPT ![j] = db[j]]
           /\ failed = [failed EXCEPT ![j] = failed[j]]
           /\ conn = [conn EXCEPT ![j] = conn[j]]
           /\ conn[j] \in [AllNames -> ConnStates]
           /\ conn[j][arg[j]] # "none"
           /\ db[j] # NoName => conn[j][db[j]] # "none"
           /\ ~disturbed[j] => db[j] = arg[j]
           /\ ~renamed[j] => db[j] \in {name[j], NoName}
           /\ {"action", "retry", "log", "close"} \subseteq (PCs \ {"register", "open"}) \cap LookedUp
           /\ "polling" \in PCs \ {"register", "open"}
           /\ "polling" \notin LookedUp /\ "polling" \notin Holding
           /\ "polling" \notin {"action", "retry", "log", "close"}
  <1>1. pc[j] \in Holding
    BY DEF LookedUp, Holding
  <1>2. /\ {"action", "retry", "log", "close"} \subseteq (PCs \ {"register", "open"}) \cap LookedUp
        /\ "polling" \in PCs \ {"register", "open"}
        /\ "polling" \notin LookedUp /\ "polling" \notin Holding
        /\ "polling" \notin {"action", "retry", "log", "close"}
    BY DEF LookedUp, Holding, PCs
  <1> QED
    BY <1>1, <1>2, Held, ConnType

LEMMA ReopenIInv ==
    ASSUME IInv, NEW j \in Jobs, Reopen(j)
    PROVE  IInv'
  <1>0. pc[j] \in LookedUp
    BY DEF Reopen, LookedUp
  <1>u. /\ UNCHANGED <<row, renames, notes, name, dict, arg, disturbed, renamed>>
        /\ db' = db /\ failed' = failed
    BY DEF Reopen, table
  <1>1. ASSUME NEW p \in {"action", "retry"}, pc' = [pc EXCEPT ![j] = p],
               NEW s \in {"open", "closed"}, Usable(j, db[j]),
               conn' = [conn EXCEPT ![j] = Put(j, db[j], s)]
        PROVE  IInv'
    <2> DEFINE c == Put(j, db[j], s)
    <2>1. db[j] \in AllNames /\ conn[j][db[j]] # "none"
      BY <1>0, <1>1, InUse
    <2>2. /\ c \in [AllNames -> ConnStates] /\ c[db[j]] = s
          /\ \A k \in AllNames :
                 /\ c[k] \in {"closed", "open"} <=> conn[j][k] \in {"closed", "open"}
                 /\ k # db[j] => c[k] = conn[j][k]
      BY <1>1, <2>1, PutConn
    <2>3. c[db[j]] # "none"
      BY <2>2
    <2>4. arg[j] \in AllNames
      BY DEF IInv, TypeOK
    <2>5. c[arg[j]] # "none"
      BY <1>0, <2>2, <2>3, <2>4, KeepsNames
    <2> HIDE DEF c
    <2>6. StepTo(j, p, db[j], failed[j], c)
      BY <1>0, <1>1, <1>u, <2>2, <2>3, <2>5, KeepsNames DEF StepTo, c
    <2> QED
      BY <2>6, StepToIInv
  <1>2. CASE Opens(j, db[j]) /\ pc' = [pc EXCEPT ![j] = "action"]
    BY <1>1, <1>2, OpensPut
  <1>3. CASE CannotOpen(j, db[j]) /\ pc' = [pc EXCEPT ![j] = "retry"]
    <2>1. CASE Usable(j, db[j])
      BY <1>1, <1>3, <2>1, CannotOpenPut
    <2>2. CASE ~Usable(j, db[j])
      <3>1. conn' = conn
        BY <1>3, <2>2, CannotOpenPut
      <3>2. StepTo(j, "retry", db[j], failed[j], conn[j])
        BY <1>0, <1>3, <1>u, <3>1, KeepsNames DEF StepTo
      <3> QED
        BY <3>2, StepToIInv
    <2> QED
      BY <2>1, <2>2
  <1> QED
    BY <1>2, <1>3 DEF Reopen

LEMMA ActIInv ==
    ASSUME IInv, NEW j \in Jobs, Act(j)
    PROVE  IInv'
  <1>0. pc[j] \in LookedUp
    BY DEF Act, LookedUp
  <1>u. /\ UNCHANGED <<row, renames, notes, name, dict, arg, disturbed, renamed>>
        /\ db' = db /\ failed' = failed /\ conn' = conn
    BY DEF Act, table
  <1>1. ASSUME NEW p \in {"close", "log"}, pc' = [pc EXCEPT ![j] = p] PROVE IInv'
    <2>1. StepTo(j, p, db[j], failed[j], conn[j])
      BY <1>0, <1>1, <1>u, KeepsNames DEF StepTo
    <2> QED
      BY <2>1, StepToIInv
  <1> QED
    BY <1>1 DEF Act

\* The last step of an execution, which releases c and may leave something open
\* if f is set.
Ends(j, f, c) ==
    /\ pc[j] \in LookedUp
    /\ UNCHANGED <<row, renames, notes, name, dict, arg, disturbed, renamed, db>>
    /\ pc' = [pc EXCEPT ![j] = "polling"]
    /\ f \in BOOLEAN /\ failed' = [failed EXCEPT ![j] = f]
    /\ conn' = [conn EXCEPT ![j] = Released(c)]
    /\ ~f /\ ~renamed[j] => \A n \in AllNames : Released(c)[n] # "open"

LEMMA EndIInv ==
    ASSUME IInv, NEW j \in Jobs, NEW f, NEW c, Ends(j, f, c),
           Released(c) \in [AllNames -> ConnStates],
           \A n \in AllNames :
               Released(c)[n] \in {"closed", "open"} <=> conn[j][n] \in {"closed", "open"}
    PROVE  IInv'
  <1> DEFINE r == Released(c)
  <1> HIDE DEF r
  <1>0. pc[j] \in LookedUp
    BY DEF Ends
  <1>1. StepTo(j, "polling", db[j], f, r)
    BY <1>0, KeepsNames DEF StepTo, r, Ends
  <1> QED
    BY <1>1, StepToIInv

\* c is what j has when it has put s under n, if the connection there is usable.
PutInto(j, n, s, c) ==
    \/ Usable(j, n) /\ c = Put(j, n, s)
    \/ ~Usable(j, n) /\ c = conn[j]

LEMMA PutIntoConn ==
    ASSUME IInv, NEW j \in Jobs, pc[j] \in LookedUp, NEW n, NEW s, NEW c,
           n \in {arg[j], db[j]}, s \in {"open", "closed"}, PutInto(j, n, s, c)
    PROVE  /\ Released(c) \in [AllNames -> ConnStates]
           /\ \A k \in AllNames :
                 /\ Released(c)[k] \in {"closed", "open"} <=> conn[j][k] \in {"closed", "open"}
                 /\ k # n /\ Released(c)[k] = "open" => conn[j][k] = "open"
                 /\ k = n /\ Released(c)[k] = "open" => s = "open"
  <1>1. CASE Usable(j, n) /\ c = Put(j, n, s)
    <2>1. n \in AllNames /\ conn[j][n] # "none"
      BY <1>1, InUse
    <2> QED
      BY <1>1, <2>1, PutConn
  <1>2. CASE ~Usable(j, n) /\ c = conn[j]
    <2>1. n = NoName \/ conn[j][n] = "cut off"
      BY <1>2 DEF Usable
    <2>2. \A k \in AllNames : Released(c)[k] = "open" => conn[j][k] = "open"
      BY <1>2, ReleasedConn
    <2>3. NoName \notin AllNames
      BY NameAssumption
    <2>4. \A k \in AllNames : k = n => Released(c)[k] # "open"
      BY <2>1, <2>2, <2>3
    <2> QED
      BY <1>2, <2>2, <2>4, ReleasedConn
  <1> QED
    BY <1>1, <1>2 DEF PutInto

LEMMA RetryIInv ==
    ASSUME IInv, NEW j \in Jobs, Retry(j)
    PROVE  IInv'
  <1>0. pc[j] \in LookedUp
    BY DEF Retry, LookedUp
  <1> DEFINE c == Put(j, db[j], "open")
  <1>1. PutInto(j, db[j], "open", c)
    BY DEF Retry, PutInto
  <1>2. Ends(j, TRUE, c)
    BY <1>0 DEF Retry, table, Put, Ends
  <1> HIDE DEF c
  <1>3. /\ Released(c) \in [AllNames -> ConnStates]
        /\ \A n \in AllNames :
              Released(c)[n] \in {"closed", "open"} <=> conn[j][n] \in {"closed", "open"}
    BY <1>0, <1>1, PutIntoConn
  <1> QED
    BY <1>2, <1>3, EndIInv

LEMMA LogIInv ==
    ASSUME IInv, NEW j \in Jobs, Log(j)
    PROVE  IInv'
  <1>0. pc[j] \in LookedUp
    BY DEF Log, LookedUp
  <1>1. PICK s \in {"open", "closed"} :
            conn' = [conn EXCEPT ![j] = Released(
                        IF Usable(j, arg[j]) THEN [@ EXCEPT ![arg[j]] = s] ELSE @)]
    BY DEF Log
  <1> DEFINE c == IF Usable(j, arg[j]) THEN Put(j, arg[j], s) ELSE conn[j]
  <1>2. PutInto(j, arg[j], s, c)
    BY DEF PutInto
  <1>3. /\ UNCHANGED <<row, renames, notes, name, dict, arg, disturbed, renamed, db>>
        /\ pc' = [pc EXCEPT ![j] = "polling"]
        /\ failed' = [failed EXCEPT ![j] = TRUE]
    BY DEF Log, table
  <1>4. conn' = [conn EXCEPT ![j] = Released(c)]
    <2>1. c = IF Usable(j, arg[j]) THEN [conn[j] EXCEPT ![arg[j]] = s] ELSE conn[j]
      BY DEF Put
    <2> HIDE DEF c
    <2> QED
      BY <1>1, <2>1
  <1> HIDE DEF c
  <1>5. Ends(j, TRUE, c)
    BY <1>0, <1>3, <1>4 DEF Ends
  <1>6. /\ Released(c) \in [AllNames -> ConnStates]
        /\ \A n \in AllNames :
              Released(c)[n] \in {"closed", "open"} <=> conn[j][n] \in {"closed", "open"}
    BY <1>0, <1>2, PutIntoConn
  <1> QED
    BY <1>5, <1>6, EndIInv

LEMMA CloseIInv ==
    ASSUME IInv, NEW j \in Jobs, Close(j)
    PROVE  IInv'
  <1>0. pc[j] \in LookedUp
    BY DEF Close, LookedUp
  <1> DEFINE c == IF Usable(j, arg[j]) THEN Put(j, arg[j], "closed") ELSE conn[j]
  <1>2. PutInto(j, arg[j], "closed", c)
    BY DEF PutInto
  <1>3. /\ UNCHANGED <<row, renames, notes, name, dict, arg, disturbed, renamed, db>>
        /\ pc' = [pc EXCEPT ![j] = "polling"]
        /\ failed' = failed
    BY DEF Close, table
  <1>4. conn' = [conn EXCEPT ![j] = Released(c)]
    <2>1. c = IF Usable(j, arg[j]) THEN [conn[j] EXCEPT ![arg[j]] = "closed"] ELSE conn[j]
      BY DEF Put
    <2> HIDE DEF c
    <2> QED
      BY <2>1 DEF Close
  <1> HIDE DEF c
  <1>5. /\ Released(c) \in [AllNames -> ConnStates]
        /\ \A k \in AllNames :
              /\ Released(c)[k] \in {"closed", "open"} <=> conn[j][k] \in {"closed", "open"}
              /\ Released(c)[k] = "open" => k # arg[j] /\ conn[j][k] = "open"
    BY <1>0, <1>2, PutIntoConn
  <1>6. ~renamed[j] => \A k \in AllNames : Released(c)[k] # "open"
    BY <1>5, OnlyOne
  <1>7. failed' = [failed EXCEPT ![j] = failed[j]] /\ failed[j] \in BOOLEAN
    BY <1>0, <1>3, KeepsNames
  <1>8. Ends(j, failed[j], c)
    BY <1>0, <1>3, <1>4, <1>6, <1>7 DEF Ends
  <1> QED
    BY <1>5, <1>8, EndIInv

\* Parts of the type that a step outside run() may change, and those it may not.
TableType ==
    /\ row \in [Jobs -> AllNames] /\ renames \in Nat /\ notes \in Seq(Jobs)
TaskType ==
    /\ name \in [Jobs -> AllNames]
    /\ disturbed \in [Jobs -> BOOLEAN] /\ renamed \in [Jobs -> BOOLEAN]
ThreadType ==
    /\ pc \in [Jobs -> PCs] /\ arg \in [Jobs -> AllNames]
    /\ db \in [Jobs -> AllNames \cup {NoName}] /\ failed \in [Jobs -> BOOLEAN]
ConnectionType ==
    /\ dict \in [AllNames -> Jobs \cup {NoJob}]
    /\ conn \in [Jobs -> [AllNames -> ConnStates]]
Paired ==
    \A j \in Jobs, n \in AllNames : conn[j][n] \in {"closed", "open"} <=> dict[n] = j

LEMMA Parts ==
    /\ TypeOK => TableType /\ TaskType /\ ThreadType /\ ConnectionType /\ Paired
    /\ TableType /\ TaskType /\ ThreadType /\ ConnectionType /\ Paired => TypeOK
  BY DEF TypeOK, TableType, TaskType, ThreadType, ConnectionType, Paired, PCs, ConnStates

LEMMA PartsNext ==
    TableType' /\ TaskType' /\ ThreadType' /\ ConnectionType' /\ Paired' => TypeOK'
  BY DEF TypeOK, TableType, TaskType, ThreadType, ConnectionType, Paired, PCs, ConnStates

LEMMA RenameIInv ==
    ASSUME IInv, NEW j \in Jobs, NEW n \in AllNames, Rename(j, n)
    PROVE  IInv'
  <1>0. TableType /\ TaskType /\ ThreadType /\ ConnectionType /\ Paired
    BY Parts DEF IInv
  <1>u. UNCHANGED <<name, dict, conn, pc, arg, db, disturbed, failed, renamed>>
    BY DEF Rename, thread
  <1>1. TableType'
    BY <1>0 DEF Rename, TableType
  <1>2. TaskType' /\ ThreadType' /\ ConnectionType' /\ Paired'
    BY <1>0, <1>u DEF TaskType, ThreadType, ConnectionType, Paired
  <1>3. ASSUME NEW i \in Jobs
        PROVE  /\ InHand(i)' /\ ClosedInTurn(i)'
               /\ ~disturbed'[i] => Undisturbed(i)'
               /\ ~renamed'[i] => NeverRenamed(i)'
    <2>1. InHand(i) /\ ClosedInTurn(i)
          /\ (~disturbed[i] => Undisturbed(i)) /\ (~renamed[i] => NeverRenamed(i))
      BY DEF IInv
    <2> QED
      BY <1>u, <2>1
         DEF InHand, ClosedInTurn, Undisturbed, NeverRenamed, Busy, Alone, Claims
  <1> QED
    BY <1>1, <1>2, <1>3, PartsNext DEF IInv

LEMMA RefreshIInv ==
    ASSUME IInv, Refresh
    PROVE  IInv'
  <1>0. TableType /\ TaskType /\ ThreadType /\ ConnectionType /\ Paired
    BY Parts DEF IInv
  <1>u. UNCHANGED <<row, renames, dict, conn, pc, arg, db, failed>>
    BY DEF Refresh, thread
  <1> DEFINE j == Head(notes)
             n == row[j]
  <1>1. j \in Jobs /\ n \in AllNames /\ notes' = Tail(notes) /\ notes # <<>>
    BY <1>0 DEF Refresh, TableType
  <1>2. /\ name' = [name EXCEPT ![j] = n]
        /\ renamed' = [renamed EXCEPT ![j] = renamed[j] \/ n # name[j]]
        /\ disturbed' = [i \in Jobs |->
               \/ disturbed[i]
               \/ Busy(i) /\ n # name[j] /\ (i = j \/ arg[i] = n)]
    BY DEF Refresh
  <1>3. TableType'
    BY <1>0, <1>1, <1>u DEF TableType
  <1> HIDE DEF j, n
  <1>4. TaskType'
    BY <1>0, <1>1, <1>2 DEF TaskType, Busy
  <1>5. ThreadType' /\ ConnectionType' /\ Paired'
    BY <1>0, <1>u DEF ThreadType, ConnectionType, Paired
  <1>6. ASSUME NEW i \in Jobs
        PROVE  /\ name'[i] = IF i = j THEN n ELSE name[i]
               /\ ~renamed'[i] => ~renamed[i] /\ name'[i] = name[i]
               /\ ~disturbed'[i] /\ Busy(i) =>
                      /\ ~disturbed[i]
                      /\ n # name[j] => i # j /\ arg[i] # n
    BY <1>0, <1>1, <1>2 DEF TaskType
  <1>7. ASSUME NEW i \in Jobs PROVE InHand(i)' /\ ClosedInTurn(i)'
    <2>1. InHand(i) /\ ClosedInTurn(i)
      BY DEF IInv
    <2> QED
      BY <1>u, <1>6, <2>1 DEF InHand, ClosedInTurn, Busy
  <1>8. ASSUME NEW i \in Jobs, ~renamed'[i] PROVE NeverRenamed(i)'
    <2>1. NeverRenamed(i)
      BY <1>6, <1>8 DEF IInv
    <2> QED
      BY <1>u, <1>6, <1>8, <2>1 DEF NeverRenamed
  <1>9. ASSUME NEW i \in Jobs, ~disturbed'[i] PROVE Undisturbed(i)'
    <2>1. CASE ~Busy(i)
      BY <1>u, <2>1 DEF Undisturbed, Busy, Holding, LookedUp
    <2>2. CASE Busy(i)
      <3>1. /\ Undisturbed(i) /\ Alone(i)
            /\ n # name[j] => i # j /\ arg[i] # n
        BY <1>6, <1>9, <2>2 DEF IInv, Undisturbed
      <3>2. name'[i] = arg[i]
        BY <1>6, <3>1 DEF Alone
      <3>3. ASSUME NEW k \in Jobs \ {i}, Claims(k, arg[i])' PROVE FALSE
        BY <1>u, <1>6, <3>1, <3>3 DEF Alone, Claims
      <3> QED
        BY <1>u, <3>1, <3>2, <3>3 DEF Undisturbed, Alone
    <2> QED
      BY <2>1, <2>2
  <1> QED
    BY <1>3, <1>4, <1>5, <1>7, <1>8, <1>9, PartsNext DEF IInv

LEMMA ReadNameIInv ==
    ASSUME IInv, NEW j \in Jobs, ReadName(j)
    PROVE  IInv'
  <1>0. TableType /\ TaskType /\ ThreadType /\ ConnectionType /\ Paired
    BY Parts DEF IInv
  <1>u. /\ UNCHANGED <<row, renames, notes, name, dict, conn, db, renamed>>
        /\ pc' = [pc EXCEPT ![j] = "register"] /\ arg' = [arg EXCEPT ![j] = name[j]]
        /\ failed' = [failed EXCEPT ![j] = FALSE]
        /\ disturbed' = [disturbed EXCEPT ![j] = \E i \in Jobs \ {j} : Claims(i, name[j])]
    BY DEF ReadName, table
  <1>1. "register" \in PCs /\ "register" \notin Holding /\ "register" \notin LookedUp
        /\ name[j] \in AllNames
    BY <1>0 DEF PCs, Holding, LookedUp, TaskType
  <1>2. TableType' /\ ConnectionType' /\ Paired'
    BY <1>0, <1>u DEF TableType, ConnectionType, Paired
  <1>3. TaskType' /\ ThreadType'
    BY <1>0, <1>u, <1>1 DEF TaskType, ThreadType
  <1>4. ASSUME NEW i \in Jobs, i # j
        PROVE  pc'[i] = pc[i] /\ arg'[i] = arg[i] /\ failed'[i] = failed[i]
               /\ disturbed'[i] = disturbed[i]
    BY <1>0, <1>u, <1>4 DEF TaskType, ThreadType
  <1>j. /\ pc'[j] = "register" /\ arg'[j] = name[j]
        /\ disturbed'[j] = (\E i \in Jobs \ {j} : Claims(i, name[j]))
    BY <1>0, <1>u DEF TaskType, ThreadType
  <1>v. UNCHANGED <<name, dict, conn, db, renamed>>
    BY <1>u
  <1>c. ASSUME NEW k \in Jobs, NEW m
        PROVE  (name'[k] = m \/ (pc'[k] = "register" /\ arg'[k] = m)) => Claims(k, m)
    BY <1>v, <1>4, <1>j DEF Claims
  <1>5. ASSUME NEW i \in Jobs PROVE InHand(i)' /\ ClosedInTurn(i)'
    <2>1. InHand(i) /\ ClosedInTurn(i)
      BY DEF IInv
    <2> QED
      BY <1>v, <1>1, <1>4, <1>j, <2>1 DEF InHand, ClosedInTurn, Busy
  <1>6. ASSUME NEW i \in Jobs, ~renamed'[i] PROVE NeverRenamed(i)'
    <2>1. NeverRenamed(i)
      BY <1>v, <1>6 DEF IInv
    <2> QED
      BY <1>v, <1>4, <1>j, <2>1 DEF NeverRenamed
  <1>7. ASSUME NEW i \in Jobs, ~disturbed'[i] PROVE Undisturbed(i)'
    <2>1. CASE i = j
      <3>0. arg'[i] = name[j] /\ name'[i] = name[j] /\ pc'[i] = "register"
        BY <1>v, <1>j, <2>1
      <3>1. \A k \in Jobs \ {i} :
                ~(name'[k] = arg'[i] \/ (pc'[k] = "register" /\ arg'[k] = arg'[i]))
        BY <1>j, <1>7, <1>c, <2>1, <3>0
      <3>2. Alone(i)'
        BY <3>0, <3>1 DEF Alone, Claims
      <3> QED
        BY <1>1, <3>0, <3>2 DEF Undisturbed
    <2>2. CASE i # j
      <3>0. /\ Undisturbed(i) /\ pc'[i] = pc[i] /\ arg'[i] = arg[i]
            /\ name'[i] = name[i] /\ dict' = dict /\ db' = db
        BY <1>v, <1>4, <1>7, <2>2 DEF IInv
      <3>1. ASSUME Busy(i) PROVE Alone(i)'
        <4>1. Alone(i)
          BY <3>0, <3>1 DEF Undisturbed
        <4>2. \A k \in Jobs \ {i} :
                  ~(name'[k] = arg'[i] \/ (pc'[k] = "register" /\ arg'[k] = arg'[i]))
          BY <1>c, <3>0, <4>1 DEF Alone
        <4> QED
          BY <3>0, <4>1, <4>2 DEF Alone, Claims
      <3> QED
        BY <3>0, <3>1 DEF Undisturbed, Busy
    <2> QED
      BY <2>1, <2>2
  <1> QED
    BY <1>2, <1>3, <1>5, <1>6, <1>7, PartsNext DEF IInv

LEMMA RegisterIInv ==
    ASSUME IInv, NEW j \in Jobs, Register(j)
    PROVE  IInv'
  <1>0. TableType /\ TaskType /\ ThreadType /\ ConnectionType /\ Paired
    BY Parts DEF IInv
  <1> DEFINE n == arg[j]
  <1>u. /\ UNCHANGED <<row, renames, notes, name, arg, db, disturbed, failed, renamed>>
        /\ pc[j] = "register" /\ pc' = [pc EXCEPT ![j] = "open"]
        /\ dict' = [dict EXCEPT ![n] = j]
        /\ conn' = [i \in Jobs |-> [conn[i] EXCEPT ![n] =
                        IF i = j THEN "closed"
                        ELSE IF dict[n] # i THEN @
                        ELSE IF Holds(i, n) THEN "cut off" ELSE "none"]]
    BY DEF Register, Replaces, table
  <1>1. "open" \in PCs /\ "open" \in Holding /\ "open" \notin LookedUp
        /\ n \in AllNames /\ LookedUp \subseteq Holding /\ "register" \notin Holding
    BY <1>0 DEF PCs, Holding, LookedUp, ThreadType
  <1>2. ASSUME NEW i \in Jobs
        PROVE  /\ i # j => pc'[i] = pc[i]
               /\ i = j => pc'[i] = "open"
    BY <1>0, <1>u DEF ThreadType
  <1> HIDE DEF n
  <1>3. ASSUME NEW k \in AllNames
        PROVE  /\ k # n => dict'[k] = dict[k]
               /\ k = n => dict'[k] = j
    BY <1>0, <1>u DEF ConnectionType
  <1>4. ASSUME NEW i \in Jobs
        PROVE  /\ conn'[i] \in [AllNames -> ConnStates]
               /\ \A k \in AllNames : k # n => conn'[i][k] = conn[i][k]
               /\ i = j => conn'[i][n] = "closed"
               /\ i # j /\ dict[n] # i => conn'[i][n] = conn[i][n]
               /\ i # j /\ dict[n] = i => conn'[i][n] \in {"cut off", "none"}
               /\ i # j /\ dict[n] = i /\ Holds(i, n) => conn'[i][n] = "cut off"
    <2> DEFINE v == IF i = j THEN "closed"
                    ELSE IF dict[n] # i THEN conn[i][n]
                    ELSE IF Holds(i, n) THEN "cut off" ELSE "none"
    <2>1. conn'[i] = [conn[i] EXCEPT ![n] = v]
      BY <1>u
    <2>2. conn[i] \in [AllNames -> ConnStates]
      BY ConnType
    <2>3. v \in ConnStates
      BY <1>1, <2>2 DEF ConnStates
    <2> HIDE DEF v
    <2>4. /\ conn'[i] \in [AllNames -> ConnStates] /\ conn'[i][n] = v
          /\ \A k \in AllNames : k # n => conn'[i][k] = conn[i][k]
      BY <1>1, <2>1, <2>2, <2>3
    <2> QED
      BY <2>4 DEF v
  <1>5. TableType' /\ TaskType'
    BY <1>0, <1>u DEF TableType, TaskType
  <1>6. ThreadType'
    BY <1>0, <1>u, <1>1 DEF ThreadType
  <1>7. ConnectionType'
    <2>1. dict' \in [AllNames -> Jobs \cup {NoJob}]
      BY <1>0, <1>u DEF ConnectionType
    <2>2. DOMAIN conn' = Jobs /\ conn' = [i \in Jobs |-> conn'[i]]
      BY <1>u
    <2> QED
      BY <1>4, <2>1, <2>2 DEF ConnectionType
  <1>8. Paired'
    <2> SUFFICES ASSUME NEW i \in Jobs, NEW k \in AllNames
                 PROVE  conn'[i][k] \in {"closed", "open"} <=> dict'[k] = i
      BY DEF Paired
    <2>1. conn[i][k] \in {"closed", "open"} <=> dict[k] = i
      BY <1>0 DEF Paired
    <2> QED
      BY <1>3, <1>4, <2>1
  <1>9. ASSUME NEW i \in Jobs PROVE InHand(i)'
    <2>1. InHand(i) /\ arg[i] \in AllNames /\ db[i] \in AllNames \cup {NoName}
      BY <1>0 DEF IInv, ThreadType
    <2>2. CASE i = j
      BY <1>u, <1>1, <1>2, <1>4, <2>2 DEF InHand, n
    <2>3. CASE i # j
      <3>1. ASSUME NEW k \in AllNames, conn[i][k] # "none",
                   pc[i] \in Holding, k \in {arg[i], db[i]}
            PROVE  conn'[i][k] # "none"
        BY <1>4, <2>3, <3>1 DEF Holds
      <3> QED
        BY <1>u, <1>1, <1>2, <2>1, <2>3, <3>1 DEF InHand
    <2> QED
      BY <2>2, <2>3
  <1>10. ASSUME NEW i \in Jobs PROVE ClosedInTurn(i)'
    <2>1. ClosedInTurn(i) /\ arg[i] \in AllNames
      BY <1>0 DEF IInv, ThreadType
    <2>2. CASE i = j
      BY <1>u, <1>2, <1>4, <2>2 DEF ClosedInTurn, Busy, n
    <2>3. CASE i # j
      <3>1. \A k \in AllNames : conn'[i][k] = "open" => conn[i][k] = "open"
        BY <1>4, <2>3
      <3> QED
        BY <1>u, <1>2, <2>1, <2>3, <3>1 DEF ClosedInTurn, Busy
    <2> QED
      BY <2>2, <2>3
  <1>11. ASSUME NEW i \in Jobs, ~renamed'[i] PROVE NeverRenamed(i)'
    <2>1. NeverRenamed(i)
      BY <1>u, <1>11 DEF IInv
    <2> QED
      BY <1>u, <1>3, <2>1 DEF NeverRenamed, n
  <1>12. ASSUME NEW i \in Jobs, ~disturbed'[i] PROVE Undisturbed(i)'
    <2>1. Undisturbed(i) /\ arg[i] \in AllNames
      BY <1>0, <1>u, <1>12 DEF IInv, ThreadType
    <2>2. Busy(i)' => Busy(i)
      BY <1>u, <1>2 DEF Busy
    <2>3. ASSUME Busy(i), NEW k \in Jobs \ {i}, Claims(k, arg[i])' PROVE FALSE
      BY <1>u, <1>2, <2>1, <2>3 DEF Undisturbed, Alone, Claims
    <2>4. Busy(i)' => Alone(i)'
      BY <1>u, <2>1, <2>2, <2>3 DEF Undisturbed, Alone
    <2>5. pc'[i] \in Holding => dict'[arg'[i]] = i
      <3>1. CASE i = j
        BY <1>u, <1>1, <1>3, <3>1 DEF n
      <3>2. ASSUME i # j, pc[i] \in Holding PROVE arg[i] # n /\ dict[arg[i]] = i
        <4>1. Busy(i)
          BY <3>2 DEF Busy, Holding
        <4> QED
          BY <1>u, <2>1, <3>2, <4>1 DEF Undisturbed, Alone, Claims, n
      <3> QED
        BY <1>u, <1>2, <1>3, <2>1, <3>1, <3>2
    <2>6. pc'[i] \in LookedUp => db'[i] = arg'[i]
      BY <1>u, <1>1, <1>2, <2>1 DEF Undisturbed
    <2> QED
      BY <2>4, <2>5, <2>6 DEF Undisturbed
  <1> QED
    BY <1>5, <1>6, <1>7, <1>8, <1>9, <1>10, <1>11, <1>12, PartsNext DEF IInv

LEMMA KillIInv ==
    ASSUME IInv, Kill
    PROVE  IInv'
  <1>0. TableType /\ TaskType /\ ThreadType /\ ConnectionType /\ Paired
    BY Parts DEF IInv
  <1>n. NoJob \notin Jobs
    BY NameAssumption
  <1>1. TableType' /\ TaskType'
    BY <1>0 DEF Kill, TableType, TaskType
  <1>2. ThreadType'
    BY <1>0 DEF Kill, TableType, ThreadType, PCs
  <1>3. ConnectionType' /\ Paired'
    BY <1>n DEF Kill, ConnectionType, Paired, ConnStates
  <1>4. ASSUME NEW i \in Jobs
        PROVE  InHand(i)' /\ ClosedInTurn(i)' /\ Undisturbed(i)' /\ NeverRenamed(i)'
    <2>1. pc'[i] = "polling" /\ arg'[i] = name'[i] /\ db'[i] = NoName
          /\ \A k \in AllNames : conn'[i][k] = "none" /\ dict'[k] = NoJob
      BY DEF Kill
    <2> QED
      BY <1>n, <2>1 DEF InHand, ClosedInTurn, Undisturbed, NeverRenamed,
         Busy, Holding, LookedUp
  <1> QED
    BY <1>1, <1>2, <1>3, <1>4, PartsNext DEF IInv

LEMMA StutterIInv ==
    ASSUME IInv, UNCHANGED vars
    PROVE  IInv'
  <1>u. UNCHANGED <<row, renames, notes, name, dict, conn, pc, arg, db, disturbed,
                    failed, renamed>>
    BY DEF vars
  <1>1. TypeOK'
    BY <1>u DEF IInv, TypeOK
  <1>2. ASSUME NEW i \in Jobs
        PROVE  /\ InHand(i)' /\ ClosedInTurn(i)'
               /\ ~disturbed'[i] => Undisturbed(i)'
               /\ ~renamed'[i] => NeverRenamed(i)'
    <2>1. InHand(i) /\ ClosedInTurn(i)
          /\ (~disturbed[i] => Undisturbed(i)) /\ (~renamed[i] => NeverRenamed(i))
      BY DEF IInv
    <2> QED
      BY <1>u, <2>1
         DEF InHand, ClosedInTurn, Undisturbed, NeverRenamed, Busy, Alone, Claims
  <1> QED
    BY <1>1, <1>2 DEF IInv

LEMMA NextIInv == IInv /\ [Next]_vars => IInv'
  <1> SUFFICES ASSUME IInv, [Next]_vars PROVE IInv'
    OBVIOUS
  <1>1. ASSUME NEW j \in Jobs, ReadName(j) \/ Execute(j) PROVE IInv'
    BY <1>1, ReadNameIInv, RegisterIInv, OpenIInv, LookupIInv, ReopenIInv, RetryIInv,
       ActIInv, LogIInv, CloseIInv DEF Execute
  <1> QED
    BY <1>1, RenameIInv, RefreshIInv, KillIInv, StutterIInv DEF Next

LEMMA SpecIInv == Spec => []IInv
  BY InitIInv, NextIInv, PTL DEF Spec

-----------------------------------------------------------------------------
\* Types: jobs, names, connections and the dictionary fit together
\* (task.cpp:363-375, 418-465).
THEOREM SpecTypeOK == Spec => []TypeOK
  <1>1. IInv => TypeOK
    BY DEF IInv
  <1> QED
    BY <1>1, SpecIInv, PTL

\* An execution whose name is not shared or changed keeps one connection from
\* beginning to end (task.cpp:366, 426-440, 461).
THEOREM SpecUndisturbedKeepsConnection == Spec => []UndisturbedKeepsConnection
  <1>1. IInv => UndisturbedKeepsConnection
    <2> SUFFICES ASSUME IInv, NEW j \in Jobs, ~disturbed[j]
                 PROVE  /\ pc[j] \in Holding => Usable(j, arg[j])
                        /\ pc[j] \in LookedUp => db[j] = arg[j]
      BY DEF UndisturbedKeepsConnection, LookedUp
    <2>0. TypeOK /\ Undisturbed(j)
      BY DEF IInv
    <2>3. Paired /\ arg[j] \in AllNames
      BY <2>0, Parts DEF ThreadType
    <2>4. arg[j] # NoName
      BY <2>3, NameAssumption
    <2>1. Undisturbed(j) /\ arg[j] \in AllNames /\ arg[j] # NoName
      BY <2>0, <2>3, <2>4
    <2>2. dict[arg[j]] = j => conn[j][arg[j]] # "cut off"
      BY <2>1, <2>3 DEF Paired
    <2> QED
      BY <2>1, <2>2 DEF Undisturbed, Usable
  <1> QED
    BY <1>1, SpecIInv, PTL

\* Nothing is left open between two executions but after a failure or a new
\* name (task.cpp:420-463).
THEOREM SpecLeftOpenByFailure == Spec => []LeftOpenByFailure
  <1>1. IInv => LeftOpenByFailure
    BY DEF IInv, ClosedInTurn, LeftOpenByFailure
  <1> QED
    BY <1>1, SpecIInv, PTL
=============================================================================
