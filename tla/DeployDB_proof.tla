---------------------------- MODULE DeployDB_proof ----------------------------
(***************************************************************************)
(* Proofs about DeployDB, for any number of programs on one database.      *)
(***************************************************************************)
EXTENDS DeployDB, FiniteSetTheorems, TLAPS

\* What a start of p none of whose statements failed has found so far.
Verified(p) ==
    /\ pc[p] \in {"table", "create table", "columns", "function", "serving"}
           => schema
    /\ pc[p] \in {"function", "serving"} => table = "right"
    /\ pc[p] = "serving" => fns # {}

IInv ==
    /\ TypeOK
    /\ \A p \in Programs : ~erred[p] /\ ~meddled[p] => Verified(p)

LEMMA InitIInv == Init => IInv
  BY DEF Init, IInv, TypeOK, Verified, Functions

\* Only the administrator's Alters takes away what a program has checked.
LEMMA KeepVerified ==
    ASSUME IInv, NEW p \in Programs, pc'[p] = pc[p],
           erred'[p] = erred[p], meddled'[p] = meddled[p],
           schema => schema', table = "right" => table' = "right",
           fns # {} => fns' # {}
    PROVE  ~erred'[p] /\ ~meddled'[p] => Verified(p)'
  BY DEF IInv, Verified

\* A statement of p: types, and what p has verified.
LEMMA DeployIInv ==
    ASSUME IInv, NEW p \in Programs, Deploy(p)
    PROVE  IInv'
  <1> USE DEF Deploying
  <1>1. /\ UNCHANGED <<config, meddled>>
        /\ pc' = [pc EXCEPT ![p] = pc'[p]]
        /\ pc'[p] \in {"ended", "serving"} \cup Deploying
        /\ \/ conn' = conn /\ pc'[p] # "ended" /\ pc[p] \in Deploying
           \/ conn' = [conn EXCEPT ![p] = FALSE]
        /\ erred' = [erred EXCEPT ![p] = erred'[p]] /\ erred'[p] \in BOOLEAN
    <2>1. CASE CheckSchema(p)
      BY <2>1 DEF Deploy, CheckSchema, Goes, Errs, IInv, TypeOK
    <2>2. CASE CreateSchema(p)
      BY <2>2 DEF Deploy, CreateSchema, Goes, Errs, IInv, TypeOK
    <2>3. CASE CheckTable(p)
      BY <2>3 DEF Deploy, CheckTable, Goes, Errs, IInv, TypeOK
    <2>4. CASE CreateTable(p)
      BY <2>4 DEF Deploy, CreateTable, Goes, Errs, IInv, TypeOK
    <2>5. CASE CheckColumns(p)
      BY <2>5 DEF Deploy, CheckColumns, Goes, Ends, Errs, IInv, TypeOK
    <2>6. CASE CheckFunction(p)
      BY <2>6 DEF Deploy, CheckFunction, Goes, Ends, Errs, IInv, TypeOK
    <2> QED
      BY <2>1, <2>2, <2>3, <2>4, <2>5, <2>6 DEF Deploy
  <1>2. /\ TypeOK'
        /\ schema => schema'
        /\ table = "right" => table' = "right"
        /\ fns' = fns
    <2>1. /\ schema' \in BOOLEAN /\ table' \in {"none", "right", "wrong"} /\ fns' = fns
          /\ table' # "none" \/ fns # {} => schema'
          /\ schema => schema'
          /\ table = "right" => table' = "right"
      <3>1. CASE CheckSchema(p) \/ CheckTable(p) \/ CheckColumns(p) \/ CheckFunction(p)
        <4>1. UNCHANGED database
          BY <3>1
          DEF CheckSchema, CheckTable, CheckColumns, CheckFunction, Goes, Ends, Errs
        <4> QED
          BY <4>1 DEF database, IInv, TypeOK
      <3>2. CASE CreateSchema(p)
        <4>1. UNCHANGED database \/ (schema' = TRUE /\ UNCHANGED <<table, fns>>)
          BY <3>2 DEF CreateSchema, Errs
        <4> QED
          BY <4>1 DEF database, IInv, TypeOK
      <3>3. CASE CreateTable(p)
        <4>1. UNCHANGED database \/ (table' = "right" /\ UNCHANGED <<schema, fns>> /\ schema)
          BY <3>3 DEF CreateTable, CanCreateTable, Errs
        <4> QED
          BY <4>1 DEF database, IInv, TypeOK
      <3> QED
        BY <3>1, <3>2, <3>3 DEF Deploy
    <2>2. /\ pc' \in [Programs -> {"down", "ended", "open", "idle", "serving"} \cup Deploying]
          /\ conn' \in [Programs -> BOOLEAN]
          /\ \A q \in Programs : conn'[q] => pc'[q] \in {"serving"} \cup Deploying
      BY <1>1 DEF IInv, TypeOK
    <2> QED
      BY <1>1, <2>1, <2>2 DEF IInv, TypeOK
  <1>3. ASSUME NEW q \in Programs, q # p
        PROVE  ~erred'[q] /\ ~meddled'[q] => Verified(q)'
    <2>1. pc'[q] = pc[q] /\ erred'[q] = erred[q] /\ meddled'[q] = meddled[q]
      BY <1>1, <1>3 DEF IInv, TypeOK
    <2> QED
      BY <2>1, <1>2, KeepVerified
  <1>4. ASSUME ~erred'[p], ~meddled'[p] PROVE Verified(p)'
    <2>1. pc \in [Programs -> {"down", "ended", "open", "idle", "serving"} \cup Deploying]
          /\ erred \in [Programs -> BOOLEAN]
      BY DEF IInv, TypeOK
    <2>0. ~erred[p] /\ ~meddled[p] /\ \A next : ~Errs(p, next)
      <3>1. \A next : ~Errs(p, next)
        BY <1>4, <2>1 DEF Errs
      <3>2. ~erred[p]
        BY <1>4, <3>1 DEF Deploy, CheckSchema, CreateSchema, CheckTable, CreateTable,
           CheckColumns, CheckFunction, Goes, Ends
      <3> QED
        BY <1>1, <1>4, <3>1, <3>2
    <2>9. Verified(p)
      BY <2>0 DEF IInv
    <2>2. CASE CheckSchema(p)
      <3>1. Goes(p, IF schema THEN "table" ELSE "create schema")
        BY <2>0, <2>2 DEF CheckSchema
      <3>2. pc'[p] = (IF schema THEN "table" ELSE "create schema") /\ schema' = schema
        BY <2>1, <3>1 DEF Goes, database
      <3> QED
        BY <3>2 DEF Verified
    <2>3. CASE CreateSchema(p)
      BY <1>4, <2>1, <2>3 DEF CreateSchema, Errs, Verified
    <2>4. CASE CheckTable(p)
      <3>1. Goes(p, IF table = "none" THEN "create table" ELSE "columns")
            /\ pc[p] = "table"
        BY <2>0, <2>4 DEF CheckTable
      <3>2. pc'[p] \in {"create table", "columns"} /\ schema' = schema
        BY <2>1, <3>1 DEF Goes, database
      <3> QED
        BY <2>9, <3>1, <3>2 DEF Verified
    <2>5. CASE CreateTable(p)
      <3>1. /\ pc' = [pc EXCEPT ![p] = "function"]
            /\ schema /\ schema' = schema /\ table' = "right"
        BY <2>0, <2>5 DEF CreateTable, CanCreateTable
      <3>2. pc'[p] = "function"
        BY <2>1, <3>1
      <3> QED
        BY <3>1, <3>2 DEF Verified
    <2>6. CASE CheckColumns(p)
      <3>1. pc[p] = "columns"
            /\ ((table = "right" /\ Goes(p, "function")) \/ Ends(p))
        BY <2>0, <2>6 DEF CheckColumns
      <3>2. /\ schema' = schema
            /\ pc'[p] = "ended" \/ (pc'[p] = "function" /\ table' = "right")
        BY <2>1, <3>1 DEF Goes, Ends, database
      <3> QED
        BY <2>9, <3>1, <3>2 DEF Verified
    <2>7. CASE CheckFunction(p)
      <3>1. pc[p] = "function"
            /\ ((Cardinality(fns) = 1 /\ Goes(p, "serving")) \/ Ends(p))
        BY <2>0, <2>7 DEF CheckFunction
      <3>2. Cardinality(fns) = 1 => fns # {}
        BY FS_EmptySet
      <3>3. /\ UNCHANGED <<schema, table, fns>>
            /\ pc'[p] = "ended" \/ (pc'[p] = "serving" /\ fns # {})
        BY <2>1, <3>1, <3>2 DEF Goes, Ends, database
      <3> QED
        BY <2>9, <3>1, <3>3 DEF Verified
    <2> QED
      BY <2>2, <2>3, <2>4, <2>5, <2>6, <2>7 DEF Deploy
  <1> QED
    BY <1>2, <1>3, <1>4 DEF IInv

LEMMA NextIInv == IInv /\ [Next]_vars => IInv'
  <1> SUFFICES ASSUME IInv, [Next]_vars PROVE IInv'
    OBVIOUS
  <1> USE DEF Deploying, database
  <1>1. ASSUME NEW p \in Programs, Start(p) PROVE IInv'
    BY <1>1 DEF Start, IInv, TypeOK, Verified
  <1>2. ASSUME NEW p \in Programs, Open(p) PROVE IInv'
    <2>1. PICK up \in BOOLEAN :
              /\ conn' = [conn EXCEPT ![p] = up]
              /\ pc' = [pc EXCEPT ![p] = IF up THEN "schema" ELSE "idle"]
      BY <1>2 DEF Open
    <2> QED
      BY <1>2, <2>1 DEF Open, IInv, TypeOK, Verified
  <1>3. ASSUME NEW p \in Programs, Deploy(p) PROVE IInv'
    BY <1>3, DeployIInv
  <1>4. ASSUME NEW p \in Programs, Disconnect(p) PROVE IInv'
    BY <1>4 DEF Disconnect, IInv, TypeOK, Verified
  <1>5. ASSUME NEW p \in Programs, Kill(p) PROVE IInv'
    BY <1>5 DEF Kill, IInv, TypeOK, Verified
  <1>6. CASE Adds
    <2>1. TypeOK'
      <3>1. UNCHANGED <<config, pc, conn, erred, meddled>>
        BY <1>6 DEF Adds
      <3>2. CASE schema' = TRUE /\ UNCHANGED <<table, fns>>
        BY <3>1, <3>2 DEF IInv, TypeOK
      <3>3. CASE schema /\ (\E f \in Functions : fns' = fns \cup {f})
                 /\ UNCHANGED <<schema, table>>
        BY <3>1, <3>3 DEF IInv, TypeOK
      <3>4. CASE schema /\ table' \in {"right", "wrong"} /\ UNCHANGED <<schema, fns>>
        BY <3>1, <3>4 DEF IInv, TypeOK
      <3> QED
        BY <1>6, <3>2, <3>3, <3>4 DEF Adds
    <2>2. ASSUME NEW p \in Programs
          PROVE  ~erred'[p] /\ ~meddled'[p] => Verified(p)'
      BY <1>6, KeepVerified DEF Adds
    <2> QED
      BY <2>1, <2>2 DEF IInv
  <1>7. CASE Alters
    <2>1. TypeOK'
      <3>1. /\ UNCHANGED <<config, pc, conn, erred>>
            /\ meddled' \in [Programs -> BOOLEAN]
        BY <1>7 DEF Alters
      <3>2. CASE table # "none" /\ table' \in {"none", "right", "wrong"}
                 /\ UNCHANGED <<schema, fns>>
        BY <3>1, <3>2 DEF IInv, TypeOK
      <3>3. CASE (\E f \in fns : fns' = fns \ {f}) /\ UNCHANGED <<schema, table>>
        BY <3>1, <3>3 DEF IInv, TypeOK
      <3>4. CASE schema' = FALSE /\ table' = "none" /\ fns' = {}
        BY <3>1, <3>4 DEF IInv, TypeOK
      <3> QED
        BY <1>7, <3>2, <3>3, <3>4 DEF Alters
    <2> QED
      BY <1>7, <2>1 DEF Alters, IInv
  <1>8. CASE EditConfig
    BY <1>8 DEF EditConfig, IInv, TypeOK, Verified
  <1>9. CASE UNCHANGED vars
    BY <1>9 DEF vars, IInv, TypeOK, Verified
  <1> QED
    BY <1>1, <1>2, <1>3, <1>4, <1>5, <1>6, <1>7, <1>8, <1>9 DEF Next

\* Everything a start has checked holds on, until the administrator alters it.
THEOREM SpecIInv == Spec => []IInv
  BY InitIInv, NextIInv, PTL DEF Spec

\* Type correctness.
THEOREM SpecTypeOK == Spec => []TypeOK
  <1>1. IInv => TypeOK
    BY DEF IInv
  <1> QED
    BY <1>1, SpecIInv, PTL

\* A program without failed statements serves from what it verified.
THEOREM SpecServingIsVerified == Spec => []ServingIsVerified
  <1>1. IInv => ServingIsVerified
    BY DEF IInv, Verified, ServingIsVerified
  <1> QED
    BY <1>1, SpecIInv, PTL
===============================================================================
