-------------------------- MODULE TaskSchedule_proof --------------------------
(***************************************************************************)
(* Proofs about TaskSchedule, for every calendar, every set of intervals   *)
(* and start dates, and a clock without bound.                             *)
(***************************************************************************)
EXTENDS TaskSchedule, DataInterval_proof

\* lastRun always stems from the row as it was when update() read it: from
\* last_run if there was one, otherwise from the start date, which then has
\* either passed or is still lastRun itself.
IInv ==
    /\ TypeOK
    /\ now >= DayT
    /\ dbLast <= now
    /\ loaded <= now
    /\ pc = "loading" => dbLast = NoTime /\ (lastRun = start \/ start < now)
    /\ pc = "polling" /\ start < lastRun => start < loaded
    /\ pc = "polling" /\ dbLast # NoTime => lastRun = dbLast
    /\ pc = "off" => dbLast = NoTime

LEMMA ConstantTypes ==
    /\ \A i \in JobIntervals : i \in Intervals
    /\ \A s \in StartDates : s \in Time
    /\ StaleDays \in Nat /\ StaleDays > 0
    /\ MinClock \in Nat /\ MinClock >= DayT
    /\ DayT \in Nat /\ DayT > 0
    /\ SecondT \in Nat
  BY ScheduleAssumption, CalendarAssumption, UnitsPositive DEF Time, NoTime

LEMMA InitIInv == Init => IInv
  BY ConstantTypes DEF Init, IInv, TypeOK, Time, NoTime

\* What update() starts from is the start date, or an earlier time than now.
LEMMA FirstLastRunPast ==
    ASSUME IInv, NEW s \in StartDates
    PROVE  /\ FirstLastRun(s) \in Time
           /\ FirstLastRun(s) = s \/ s < now
  <1>1. now \in Nat /\ now >= DayT /\ s \in Nat
    BY ConstantTypes DEF IInv, TypeOK, Time
  <1>2. CASE s # NoTime /\ Day(now) - Day(s) > StaleDays
    <2>1. Day(now) \in Nat /\ Day(s) \in Nat
      BY <1>1, ConstantTypes, DivNat DEF Day
    <2>2. ~(now <= s)
      <3>1. now <= s => Day(now) <= Day(s)
        BY <1>1, ConstantTypes, DivMonotone DEF Day
      <3> QED
        BY <3>1, <2>1, <1>2, ConstantTypes
    <2> QED
      BY <1>1, <1>2, <2>2, ConstantTypes DEF FirstLastRun, Time
  <1>3. CASE ~(s # NoTime /\ Day(now) - Day(s) > StaleDays)
    BY <1>1, <1>3 DEF FirstLastRun, Time
  <1> QED
    BY <1>2, <1>3

LEMMA UpdateIInv ==
    ASSUME IInv, NEW s \in StartDates, NEW i \in JobIntervals,
           NEW n \in Time, Update(s, i, n)
    PROVE  IInv'
  <1>1. CASE dbLast = NoTime
    BY <1>1, FirstLastRunPast, ConstantTypes DEF IInv, TypeOK, Update, Time, NoTime
  <1>2. CASE dbLast # NoTime
    BY <1>2, NextStartType, ConstantTypes DEF IInv, TypeOK, Update, Time, NoTime
  <1> QED
    BY <1>1, <1>2

LEMMA NextIInv == IInv /\ [Next]_vars => IInv'
  <1> SUFFICES ASSUME IInv, [Next]_vars PROVE IInv'
    OBVIOUS
  <1>1. CASE Tick
    BY <1>1, ConstantTypes DEF IInv, TypeOK, Tick, Time
  <1>2. CASE Load
    BY <1>2, UpdateIInv DEF Load, Time, NoTime
  <1>3. CASE Refresh
    <2>1. nextRun \in Time
      BY DEF IInv, TypeOK
    <2> QED
      BY <1>3, <2>1, UpdateIInv DEF Refresh
  <1>4. CASE CatchUp
    <2>1. NextStart(iv, lastRun, now) \in Time
      BY NextStartType, ConstantTypes DEF IInv, TypeOK
    <2>2. CASE lastRun < now
      BY <1>4, <2>1, <2>2, ConstantTypes DEF IInv, TypeOK, CatchUp, Time
    <2>3. CASE ~(lastRun < now)
      BY <1>4, <2>3, ConstantTypes DEF IInv, TypeOK, CatchUp, Time
    <2> QED
      BY <2>2, <2>3
  <1>5. CASE Skip
    <2>1. ASSUME NEW check PROVE RefreshedNextRun(check) \in Time
      BY NextStartType, ConstantTypes DEF RefreshedNextRun, IInv, TypeOK
    <2> QED
      BY <1>5, <2>1, ConstantTypes DEF IInv, TypeOK, Skip, Polls, Time
  <1>6. CASE Run
    <2>1. NextStart(iv, now, now) \in Time
      BY NextStartType, ConstantTypes DEF IInv, TypeOK
    <2>2. start < lastRun
      BY <1>6 DEF Run, Due
    <2> QED
      BY <1>6, <2>1, <2>2, ConstantTypes DEF IInv, TypeOK, Run, Polls, Time
  <1>7. CASE UNCHANGED vars
    BY <1>7 DEF IInv, TypeOK, vars
  <1> QED
    BY <1>1, <1>2, <1>3, <1>4, <1>5, <1>6, <1>7 DEF Next

\* lastRun of a job that is polled is the last_run of the row, or was caught up
\* from the start date by the update() that loaded it.
THEOREM SpecIInv == Spec => []IInv
  BY InitIInv, NextIInv, PTL DEF Spec

\* Type correctness.
THEOREM SpecTypeOK == Spec => []TypeOK
  <1>1. IInv => TypeOK
    BY DEF IInv
  <1> QED
    BY <1>1, SpecIInv, PTL

\* Only a run writes last_run.
LEMMA OnlyRunRecords ==
    ASSUME [Next]_vars, dbLast' # dbLast
    PROVE  Run
  BY DEF Next, vars, Tick, Load, Refresh, Update, CatchUp, Skip

\* A job runs only if its start date had passed when it was last loaded.
THEOREM SpecRunsOnlyIfLoadedAfterStart == Spec => RunsOnlyIfLoadedAfterStart
  <1>1. IInv /\ [Next]_vars => [dbLast' # dbLast => start < loaded]_vars
    <2> SUFFICES ASSUME IInv, [Next]_vars, dbLast' # dbLast
                 PROVE  start < loaded
      OBVIOUS
    <2>1. Run
      BY OnlyRunRecords
    <2> QED
      BY <2>1 DEF Run, Polls, Due, IInv
  <1> QED
    BY <1>1, SpecIInv, PTL DEF Spec, RunsOnlyIfLoadedAfterStart

\* A job that has run and is then postponed never runs again.
THEOREM SpecPostponedIsStuck == Spec => PostponedIsStuck
  <1> DEFINE Kept == dbLast # NoTime /\ start >= dbLast /\ start' = start
                         => dbLast' = dbLast
  <1>1. IInv /\ [Next]_vars => [Kept]_vars
    <2> SUFFICES ASSUME IInv, [Next]_vars, dbLast # NoTime, start >= dbLast
                 PROVE  dbLast' = dbLast
      OBVIOUS
    <2>1. ~Run
      <3> SUFFICES ASSUME Run PROVE FALSE
        OBVIOUS
      <3>1. start < lastRun /\ lastRun = dbLast
        BY DEF Run, Polls, Due, IInv
      <3> QED
        BY <3>1, ConstantTypes DEF IInv, TypeOK, Time
    <2> QED
      BY <2>1, OnlyRunRecords
  <1> QED
    BY <1>1, SpecIInv, PTL DEF Spec, PostponedIsStuck

\* A loop of update() without progress never ends by itself.
THEOREM SpecHangIsPermanent == Spec => HangIsPermanent
  <1>1. IInv /\ [Next]_vars => [Hung => Hung' \/ Load]_vars
    <2> SUFFICES ASSUME IInv, [Next]_vars, Hung, ~Load
                 PROVE  Hung'
      OBVIOUS
    <2>1. /\ iv \in Intervals /\ lastRun \in Time /\ now \in Time
          /\ lastRun < now /\ NextStart(iv, lastRun, now) <= lastRun
      BY ConstantTypes DEF IInv, TypeOK, Hung
    <2>2. CASE Tick
      <3>1. now + 1 \in Time /\ now <= now + 1
        BY <2>1 DEF Time
      <3>2. NextStart(iv, lastRun, now + 1) <= lastRun
        BY <2>1, <3>1, NoProgressIsFinal
      <3>3. NextStart(iv, lastRun, now)' = NextStart(iv, lastRun, now + 1)
        BY <2>2 DEF Tick, NextStart, Aligned
      <3> QED
        BY <2>2, <2>1, <3>2, <3>3 DEF Tick, Hung, Time
    <2>3. CASE CatchUp
      <3> DEFINE n == NextStart(iv, lastRun, now)
      <3>1. lastRun' = n /\ iv' = iv /\ now' = now /\ pc' = "loading"
        BY <2>3, <2>1 DEF CatchUp, Hung
      <3>2. n \in Time /\ NextStart(iv, n, now) <= n
        BY <2>1, NoProgressIsFinal, NextStartType DEF Time
      <3>3. NextStart(iv, lastRun, now)' = NextStart(iv, n, now)
        BY <3>1 DEF NextStart, Aligned
      <3>4. lastRun' < now'
        BY <3>1, <3>2, <2>1 DEF Time
      <3> HIDE DEF n
      <3> QED
        BY <3>1, <3>2, <3>3, <3>4 DEF Hung
    <2>4. CASE UNCHANGED vars
      BY <2>4 DEF vars, Hung, NextStart, Aligned
    <2> QED
      BY <2>2, <2>3, <2>4 DEF Next, Refresh, Skip, Run, Polls, Hung
  <1> QED
    BY <1>1, SpecIInv, PTL DEF Spec, HangIsPermanent

-----------------------------------------------------------------------------
(***************************************************************************)
(* The distance between two runs.                                          *)
(***************************************************************************)
\* The next run is planned a period after the last one, in every state in which
\* the job is polled.  A run of a daily job on the full hour is settled, since
\* it happens within its hour.
PlanInv ==
    /\ ran # NoTime => ran = dbLast
    /\ ran # NoTime /\ FullHour(iv) => Settled(iv, ran)
    /\ pc = "polling" /\ ran # NoTime /\ Settled(iv, ran)
          => nextRun = ran + Period(iv)

\* A time within the hour of a daily job on the full hour is settled.
LEMMA WithinHourSettled ==
    ASSUME NEW i \in Intervals, FullHour(i), NEW t \in Time, i.byHour = Hour(t)
    PROVE  Settled(i, t)
  <1> DEFINE r == t % DayT
  <1>1. /\ DayT \in Nat \ {0} /\ HourT \in Nat \ {0} /\ t \in Nat
        /\ i.byHour \in Nat
    BY UnitsPositive DEF Time, Intervals
  <1>2. r \in Nat /\ t = DayT * (t \div DayT) + r /\ t \div DayT \in Nat
    BY <1>1
  <1>3. i.byHour * HourT \in Nat /\ i.byHour * HourT <= r
    <2>1. (r \div HourT) * HourT <= r
      <3> HIDE DEF r
      <3> QED
        BY <1>1, <1>2, DivNat
    <2> QED
      BY <2>1, <1>1, ProductNat DEF Hour
  <1>4. TimeOfDay(i) \in {i.byHour * HourT, 0}
    <2>1. /\ 0 * MinuteT = 0 /\ 0 * SecondT = 0
      BY UnitsPositive, CalendarAssumption
    <2> QED
      BY <2>1, <1>3 DEF TimeOfDay, FullHour
  <1>5. TimeOfDay(i) \in Nat /\ TimeOfDay(i) <= r
    BY <1>2, <1>3, <1>4
  <1>6. Day(t) * DayT \in Nat /\ Day(t) * DayT + r = t
    BY <1>1, <1>2, ProductNat DEF Day
  <1>7. Aligned(i, t) = t \/ Aligned(i, t) = Day(t) * DayT + TimeOfDay(i)
    BY DEF Aligned
  <1> HIDE DEF r
  <1> QED
    BY <1>1, <1>2, <1>5, <1>6, <1>7 DEF Settled, FullHour, Repeating

LEMMA UpdatePlan ==
    ASSUME IInv, PlanInv, NEW s \in StartDates, NEW i \in JobIntervals,
           NEW n \in Time, Update(s, i, n)
    PROVE  PlanInv'
  <1>1. CASE i = iv
    <2>1. iv' = iv /\ ran' = ran /\ dbLast' = dbLast
      BY <1>1 DEF Update
    <2>2. ASSUME pc' = "polling", ran # NoTime, Settled(iv, ran)
          PROVE  nextRun' = ran + Period(iv)
      <3>1. ran = dbLast /\ dbLast # NoTime
        BY <2>2 DEF PlanInv
      <3>2. nextRun' = NextStart(iv, ran, now)
        BY <3>1, <1>1 DEF Update
      <3> QED
        BY <3>1, <3>2, <2>2, SettledNextStart, ConstantTypes DEF IInv, TypeOK
    <2> QED
      BY <2>1, <2>2 DEF PlanInv, FullHour, Settled, Aligned, Period
  <1>2. CASE i # iv
    BY <1>2 DEF Update, PlanInv
  <1> QED
    BY <1>1, <1>2

LEMMA RunPlan ==
    ASSUME IInv, PlanInv, Run
    PROVE  PlanInv'
  <1>1. /\ iv' = iv /\ ran' = now /\ dbLast' = now
        /\ nextRun' = NextStart(iv, now, now)
        /\ iv \in Intervals /\ now \in Time /\ now # NoTime
        /\ HourMatches
    BY ConstantTypes DEF Run, Due, IInv, TypeOK, Time, NoTime
  <1>2. FullHour(iv) => Settled(iv, now)
    BY <1>1, WithinHourSettled DEF HourMatches, FullHour
  <1>3. Settled(iv, now) => nextRun' = now + Period(iv)
    BY <1>1, SettledNextStart DEF Time
  <1> QED
    BY <1>1, <1>2, <1>3 DEF PlanInv, FullHour, Settled, Aligned, Period

LEMMA NextPlan == IInv /\ PlanInv /\ [Next]_vars => PlanInv'
  <1> SUFFICES ASSUME IInv, PlanInv, [Next]_vars PROVE PlanInv'
    OBVIOUS
  <1> USE DEF PlanInv, FullHour, Settled, Aligned, Period
  <1>1. CASE Tick
    BY <1>1 DEF Tick
  <1>2. CASE Load
    BY <1>2, UpdatePlan DEF Load, Time, NoTime
  <1>3. CASE Refresh
    BY <1>3, UpdatePlan DEF Refresh, IInv, TypeOK
  <1>4. CASE CatchUp
    BY <1>4 DEF CatchUp, IInv
  <1>5. CASE Skip
    <2>1. CASE ran # NoTime /\ Settled(iv, ran)
      <3>1. ran = dbLast /\ lastRun = ran /\ nextRun = ran + Period(iv)
        BY <2>1, <1>5 DEF Skip, Polls, IInv
      <3>2. NextStart(iv, lastRun, now) = ran + Period(iv)
        BY <3>1, <2>1, SettledNextStart, ConstantTypes DEF IInv, TypeOK
      <3>3. ASSUME NEW check PROVE RefreshedNextRun(check) = nextRun
        BY <3>1, <3>2 DEF RefreshedNextRun
      <3> QED
        BY <3>1, <3>3, <1>5 DEF Skip
    <2>2. CASE ~(ran # NoTime /\ Settled(iv, ran))
      BY <2>2, <1>5 DEF Skip
    <2> QED
      BY <2>1, <2>2
  <1>6. CASE Run
    BY <1>6, RunPlan
  <1>7. CASE UNCHANGED vars
    BY <1>7 DEF vars
  <1> QED
    BY <1>1, <1>2, <1>3, <1>4, <1>5, <1>6, <1>7 DEF Next

\* nextRun lies a period after the latest run in every state in which the job is
\* polled.
THEOREM SpecPlanInv == Spec => [](IInv /\ PlanInv)
  <1>1. Init => IInv /\ PlanInv
    BY InitIInv DEF Init, PlanInv
  <1> QED
    BY <1>1, NextIInv, NextPlan, PTL DEF Spec

\* A run of a settled plan comes after the planned time.
LEMMA RunAfterPlan ==
    ASSUME IInv, PlanInv, Run, ran # NoTime, Settled(iv, ran)
    PROVE  ran + Period(iv) < now
  <1>1. /\ pc = "polling" /\ ran = dbLast /\ lastRun = ran
        /\ nextRun = ran + Period(iv)
    BY DEF PlanInv, Run, Polls, IInv
  <1>2. NextStart(iv, lastRun, now) = ran + Period(iv)
    BY <1>1, SettledNextStart, ConstantTypes DEF IInv, TypeOK
  <1> QED
    BY <1>1, <1>2 DEF Run, Due, RefreshedNextRun

\* A run of a sub-daily job comes more than a period after the one before.
LEMMA RunAfterPeriod ==
    ASSUME IInv, PlanInv, Run, ran # NoTime, iv.freq \in SubDaily
    PROVE  now > ran + Period(iv)
  <1>1. Settled(iv, ran)
    BY DEF Settled, Aligned, Repeating, IInv, TypeOK, Time
  <1>2. ran + Period(iv) < now
    BY <1>1, RunAfterPlan
  <1>3. ran \in Nat /\ now \in Nat /\ Period(iv) \in Nat
    BY PeriodNat, ConstantTypes DEF IInv, TypeOK, Time, Repeating
  <1> QED
    BY <1>2, <1>3

\* Runs of secondly, minutely and hourly jobs are more than a period apart.
THEOREM SpecNoEarlyRerun == Spec => NoEarlyRerun
  <1> DEFINE Late == dbLast' # dbLast /\ ran # NoTime /\ iv.freq \in SubDaily
                         => now > ran + Period(iv)
  <1>1. IInv /\ PlanInv /\ [Next]_vars => [Late]_vars
    BY OnlyRunRecords, RunAfterPeriod
  <1> QED
    BY <1>1, SpecPlanInv, PTL DEF Spec, NoEarlyRerun

\* A run of a daily job on the full hour falls on another day than the one
\* before.
LEMMA RunOnAnotherDay ==
    ASSUME IInv, PlanInv, Run, ran # NoTime, FullHour(iv)
    PROVE  Day(now) # Day(ran)
  <1>1. ran + Period(iv) < now
    BY RunAfterPlan DEF PlanInv
  <1>2. /\ ran \in Nat /\ now \in Nat /\ DayT \in Nat \ {0}
        /\ iv.interval \in Nat /\ iv.interval > 0
    BY ConstantTypes DEF IInv, TypeOK, Time, FullHour, Intervals
  <1>3. Period(iv) = iv.interval * DayT
    BY DEF Period, UnitOf, FullHour
  <1>4. iv.interval * DayT \in Nat /\ iv.interval * DayT >= DayT
    BY <1>2, SMT
  <1>5. ran + DayT < now
    <2> DEFINE p == iv.interval * DayT
    <2>1. ran + p < now /\ p \in Nat /\ p >= DayT
      BY <1>1, <1>3, <1>4
    <2> HIDE DEF p
    <2> QED
      BY <2>1, <1>2
  <1>6. /\ Day(ran) \in Nat /\ ran < Day(ran) * DayT + DayT
        /\ Day(now) \in Nat /\ now < Day(now) * DayT + DayT
        /\ Day(ran) * DayT <= ran
    BY <1>2, DivNat DEF Day
  <1>7. Day(ran) * DayT \in Nat
    BY <1>2, <1>6, ProductNat
  <1> SUFFICES ASSUME Day(now) = Day(ran) PROVE FALSE
    OBVIOUS
  <1> DEFINE q == Day(ran) * DayT
  <1>8. q \in Nat /\ q <= ran /\ now < q + DayT
    BY <1>6, <1>7
  <1> HIDE DEF q
  <1> QED
    BY <1>2, <1>5, <1>8

\* A daily job on the full hour runs at most once on a calendar day.
THEOREM SpecAtMostOncePerDay == Spec => AtMostOncePerDay
  <1> DEFINE Once == dbLast' # dbLast /\ ran # NoTime /\ FullHour(iv)
                         => Day(now) # Day(ran)
  <1>1. IInv /\ PlanInv /\ [Next]_vars => [Once]_vars
    BY OnlyRunRecords, RunOnAnotherDay
  <1> QED
    BY <1>1, SpecPlanInv, PTL DEF Spec, AtMostOncePerDay

-----------------------------------------------------------------------------
(***************************************************************************)
(* The refinement: a step of the Task is a step of the contract, or none.  *)
(***************************************************************************)
LEMMA UpdateChanges ==
    ASSUME NEW s \in StartDates, NEW i \in JobIntervals, NEW n \in Time,
           Update(s, i, n)
    PROVE  Contract!Change
  BY DEF Update, Contract!Change, NoTime, Contract!NoTime

LEMMA RunIsAllowed ==
    ASSUME IInv, PlanInv, Run
    PROVE  Contract!RunJob
  <1>1. pc = "polling" /\ start < lastRun /\ HourMatches
    BY DEF Run, Polls, Due
  <1>2. Contract!Started
    <2>1. start < loaded /\ loaded <= now /\ (dbLast # NoTime => lastRun = dbLast)
      BY <1>1 DEF IInv
    <2>2. start \in Nat /\ loaded \in Nat /\ now \in Nat
      BY ConstantTypes DEF IInv, TypeOK, Time
    <2> QED
      BY <2>1, <2>2, <1>1 DEF Contract!Started, NoTime, Contract!NoTime
  <1>3. Contract!PeriodOver
    BY RunAfterPeriod DEF Contract!PeriodOver, Contract!Known, Contract!SubDaily, SubDaily,
       NoTime, Contract!NoTime, Period, Contract!Period, UnitOf, Contract!UnitOf,
       WeekT, Contract!WeekT, DayT, Contract!DayT, HourT, Contract!HourT,
       MinuteT, Contract!MinuteT
  <1>4. Contract!DayIsFree
    BY <1>1, RunOnAnotherDay DEF Contract!DayIsFree, Contract!Known, Contract!FullHour, FullHour,
       HourMatches, NoTime, Contract!NoTime, Hour, Contract!Hour, Day,
       Contract!Day, DayT, Contract!DayT, HourT, Contract!HourT, MinuteT,
       Contract!MinuteT
  <1> QED
    BY <1>2, <1>3, <1>4 DEF Run, Contract!RunJob, Contract!RecordRun, Contract!MayRun

LEMMA NextImplements ==
    IInv /\ PlanInv /\ [Next]_vars => [Contract!Next]_(Contract!vars)
  <1> SUFFICES ASSUME IInv, PlanInv, [Next]_vars
               PROVE  Contract!Next \/ UNCHANGED Contract!vars
    OBVIOUS
  <1>1. CASE Tick
    BY <1>1 DEF Tick, Contract!Next, Contract!Tick
  <1>2. CASE Load
    <2>1. NoTime \in Time
      BY DEF NoTime, Time
    <2> QED
      BY <1>2, <2>1, UpdateChanges DEF Load, Contract!Next
  <1>3. CASE Refresh
    <2>1. nextRun \in Time
      BY DEF IInv, TypeOK
    <2> QED
      BY <1>3, <2>1, UpdateChanges DEF Refresh, Contract!Next
  <1>4. CASE CatchUp
    BY <1>4 DEF CatchUp, Contract!vars
  <1>5. CASE Skip
    BY <1>5 DEF Skip, Contract!vars
  <1>6. CASE Run
    BY <1>6, RunIsAllowed DEF Contract!Next
  <1>7. CASE UNCHANGED vars
    BY <1>7 DEF vars, Contract!vars
  <1> QED
    BY <1>1, <1>2, <1>3, <1>4, <1>5, <1>6, <1>7 DEF Next

\* Every behaviour of the Task, its row and its clock keeps the contract.
THEOREM SpecImplementsContract == Spec => ImplementsContract
  <1>1. Init => Contract!Init
    BY DEF Init, Contract!Init, NoTime, Contract!NoTime
  <1> QED
    BY <1>1, NextImplements, SpecPlanInv, PTL
    DEF Spec, ImplementsContract, Contract!Spec

=============================================================================
