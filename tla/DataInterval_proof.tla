------------------------- MODULE DataInterval_proof -------------------------
(***************************************************************************)
(* What getNextStart promises, for every calendar and every interval.      *)
(***************************************************************************)
EXTENDS DataInterval, TLAPS

LEMMA ProductNat ==
    ASSUME NEW m \in Nat, NEW n \in Nat
    PROVE  /\ m * n \in Nat
           /\ m > 0 /\ n > 0 => m * n > 0
  BY SMT

LEMMA UnitsPositive ==
    /\ MinuteT \in Nat \ {0}
    /\ HourT \in Nat \ {0}
    /\ DayT \in Nat \ {0}
    /\ WeekT \in Nat \ {0}
  BY CalendarAssumption, ProductNat DEF MinuteT, HourT, DayT, WeekT

LEMMA DivNat ==
    ASSUME NEW t \in Nat, NEW d \in Nat \ {0}
    PROVE  /\ t \div d \in Nat
           /\ (t \div d) * d <= t
           /\ t < (t \div d) * d + d
  BY SMT

LEMMA DivMonotone ==
    ASSUME NEW s \in Nat, NEW t \in Nat, s <= t, NEW d \in Nat \ {0}
    PROVE  s \div d <= t \div d
  BY SMT

\* The quotient of q * d + r by d is q.
LEMMA DivUnique ==
    ASSUME NEW q \in Nat, NEW d \in Nat \ {0}, NEW r \in Nat, r < d
    PROVE  /\ q * d + r \in Nat
           /\ (q * d + r) \div d = q
  <1>1. q * d \in Nat
    BY ProductNat
  <1>2. DEFINE t == q * d + r
  <1>3. t \in Nat
    BY <1>1
  <1>4. t \div d \in Nat /\ (t \div d) * d <= t /\ t < (t \div d) * d + d
    BY <1>3, DivNat
  <1>5. ASSUME NEW a \in Nat, NEW b \in Nat, a < b
        PROVE  a * d + d <= b * d
    BY <1>5, SMT
  <1>6. t \div d = q
    <2>1. CASE t \div d < q
      BY <2>1, <1>1, <1>3, <1>4, <1>5, ProductNat
    <2>2. CASE q < t \div d
      BY <2>2, <1>1, <1>3, <1>4, <1>5, ProductNat
    <2> QED
      BY <2>1, <2>2, <1>4
  <1> QED
    BY <1>3, <1>6

\* A digit a < n of weight u, and a rest below u, stay below n * u.
LEMMA Digit ==
    ASSUME NEW a \in Nat, NEW n \in Nat, a < n, NEW u \in Nat, NEW r \in Nat, r < u
    PROVE  a * u + r \in Nat /\ a * u + r < n * u
  BY SMT

\* A part of the time of day, which is 0 when it is out of range, and the finer
\* parts r stay below one unit of the next coarser part.
LEMMA PartInUnit ==
    ASSUME NEW ok \in BOOLEAN, NEW a \in Nat, NEW n \in Nat \ {0}, ok => a < n,
           NEW u \in Nat \ {0}, NEW r \in Nat, r < u
    PROVE  /\ (IF ok THEN a * u ELSE 0) \in Nat
           /\ (IF ok THEN a * u ELSE 0) + r \in Nat
           /\ (IF ok THEN a * u ELSE 0) + r < n * u
  <1>1. CASE ok
    BY <1>1, Digit, ProductNat
  <1>2. CASE ~ok
    BY <1>2, 0 < n, Digit, ProductNat
  <1> QED
    BY <1>1, <1>2

LEMMA TimeOfDayInDay ==
    ASSUME NEW iv \in Intervals
    PROVE  TimeOfDay(iv) \in Nat /\ TimeOfDay(iv) < DayT
  <1> DEFINE secondOk == iv.bySecond < SecondsPerMinute
             minuteOk == secondOk /\ iv.byMinute < MinutesPerHour
             hourOk   == minuteOk /\ iv.byHour < HoursPerDay
             hour     == IF hourOk THEN iv.byHour * HourT ELSE 0
             minute   == IF minuteOk THEN iv.byMinute * MinuteT ELSE 0
             second   == IF secondOk THEN iv.bySecond * SecondT ELSE 0
             rest     == minute + second
  <1>1. iv.byHour \in Nat /\ iv.byMinute \in Nat /\ iv.bySecond \in Nat
    BY DEF Intervals
  <1>2. TimeOfDay(iv) = hour + minute + second
    BY DEF TimeOfDay
  <1>3. second \in Nat /\ second + 0 < MinuteT
    <2> secondOk \in BOOLEAN
      OBVIOUS
    <2> QED
      BY <1>1, CalendarAssumption, PartInUnit DEF MinuteT
  <1>4. minute \in Nat /\ rest \in Nat /\ rest < HourT
    <2> minuteOk \in BOOLEAN /\ (minuteOk => iv.byMinute < MinutesPerHour)
      OBVIOUS
    <2> HIDE DEF second, minuteOk
    <2> QED
      BY <1>1, <1>3, UnitsPositive, CalendarAssumption, PartInUnit DEF HourT
  <1>5. hour \in Nat /\ hour + rest \in Nat /\ hour + rest < DayT
    <2> hourOk \in BOOLEAN /\ (hourOk => iv.byHour < HoursPerDay)
      OBVIOUS
    <2> HIDE DEF rest, hourOk
    <2> QED
      BY <1>1, <1>4, UnitsPositive, CalendarAssumption, PartInUnit DEF DayT
  <1> HIDE DEF hour, minute, second
  <1> QED
    BY <1>2, <1>3, <1>4, <1>5 DEF rest

\* An aligned time is a time, on the date it was computed from.
LEMMA AlignedType ==
    ASSUME NEW iv \in Intervals, NEW t \in Time
    PROVE  /\ Aligned(iv, t) \in Time
           /\ iv.freq \notin SubDaily /\ t # NoTime => Day(Aligned(iv, t)) = Day(t)
  <1>1. CASE iv.freq \in SubDaily \/ t = NoTime
    BY <1>1 DEF Aligned
  <1>2. CASE ~(iv.freq \in SubDaily \/ t = NoTime)
    <2>1. Day(t) \in Nat
      BY DivNat, UnitsPositive DEF Day, Time
    <2>2. /\ Day(t) * DayT + TimeOfDay(iv) \in Nat
          /\ (Day(t) * DayT + TimeOfDay(iv)) \div DayT = Day(t)
      BY <2>1, DivUnique, UnitsPositive, TimeOfDayInDay
    <2> QED
      BY <1>2, <2>2 DEF Aligned, Day, Time
  <1> QED
    BY <1>1, <1>2

\* Aligning twice is aligning once: getNextStart called again on what it
\* returned for a Freq it does not know returns the same (task.h:109-148).
THEOREM AlignedIdempotent ==
    ASSUME NEW iv \in Intervals, NEW t \in Time
    PROVE  Aligned(iv, Aligned(iv, t)) = Aligned(iv, t)
  <1>1. CASE iv.freq \in SubDaily \/ t = NoTime
    BY <1>1 DEF Aligned
  <1>2. CASE ~(iv.freq \in SubDaily \/ t = NoTime)
    BY <1>2, AlignedType DEF Aligned
  <1> QED
    BY <1>1, <1>2

LEMMA PeriodNat ==
    ASSUME NEW iv \in Intervals, iv.freq \in Repeating
    PROVE  /\ Period(iv) \in Nat
           /\ iv.interval = 0 => Period(iv) = 0
           /\ iv.interval > 0 => Period(iv) > 0
  <1>1. iv.interval \in Nat
    BY DEF Intervals
  <1>2. UnitOf[iv.freq] \in Nat /\ UnitOf[iv.freq] > 0
    BY UnitsPositive, CalendarAssumption DEF UnitOf, Repeating, SubDaily
  <1> QED
    BY <1>1, <1>2, ProductNat, SMT DEF Period

\* getNextStart returns a time, and null only for null.
THEOREM NextStartType ==
    ASSUME NEW iv \in Intervals, NEW t \in Time, NEW now \in Time
    PROVE  NextStart(iv, t, now) \in Time
  BY AlignedType, PeriodNat DEF NextStart, Time

\* getNextStart moves a time that has passed forward, if the Freq is one it
\* knows and INTERVAL is positive (task.h:158-186): the loop of update() makes
\* progress on every such job.
THEOREM NextStartProgress ==
    ASSUME NEW iv \in Intervals, Progressive(iv),
           NEW t \in Time, t # NoTime, NEW now \in Time, t < now
    PROVE  NextStart(iv, t, now) > t
  BY AlignedType, PeriodNat DEF NextStart, Time, Progressive

\* Once getNextStart does not move a past time forward it never will: neither
\* when called again on its result, nor when called later.
THEOREM NoProgressIsFinal ==
    ASSUME NEW iv \in Intervals, NEW t \in Time, NEW now \in Time, t < now,
           NextStart(iv, t, now) <= t,
           NEW later \in Time, now <= later
    PROVE  /\ NextStart(iv, t, later) <= t
           /\ NextStart(iv, NextStart(iv, t, now), now) <= NextStart(iv, t, now)
  <1> DEFINE n == NextStart(iv, t, now)
  <1>1. CASE t = NoTime
    BY <1>1 DEF NextStart, Aligned
  <1>2. CASE t # NoTime /\ iv.freq \notin Repeating
    <2>1. \A u \in Time : NextStart(iv, t, u) = Aligned(iv, t)
      BY <1>2 DEF NextStart
    <2>2. NextStart(iv, Aligned(iv, t), now) = Aligned(iv, Aligned(iv, t))
      BY <1>2 DEF NextStart
    <2> QED
      BY <2>1, <2>2, AlignedIdempotent, AlignedType DEF Time
  <1>3. CASE t # NoTime /\ iv.freq \in Repeating
    <2>1. Aligned(iv, t) \in Nat /\ Period(iv) \in Nat
      BY <1>3, AlignedType, PeriodNat DEF Time
    <2>2. Aligned(iv, t) <= now
      BY <1>3, <2>1 DEF NextStart, Time
    <2>3. n = t + Period(iv) /\ NextStart(iv, t, later) = t + Period(iv)
      BY <1>3, <2>1, <2>2 DEF NextStart, Time
    <2>4. n = t
      BY <2>1, <2>3 DEF Time
    <2> QED
      BY <2>3, <2>4 DEF Time
  <1> QED
    BY <1>1, <1>2, <1>3

\* The interval puts the run at time t not before its aligned time: then
\* getNextStart is a period away from it, whenever it is called.
Settled(i, t) == i.freq \in Repeating /\ Aligned(i, t) <= t

LEMMA SettledNextStart ==
    ASSUME NEW i \in Intervals, NEW t \in Time, t # NoTime, Settled(i, t),
           NEW u \in Time, t <= u
    PROVE  NextStart(i, t, u) = t + Period(i)
  <1>1. Aligned(i, t) \in Nat
    BY AlignedType DEF Time
  <1> QED
    BY <1>1 DEF Settled, NextStart, Time

=============================================================================
