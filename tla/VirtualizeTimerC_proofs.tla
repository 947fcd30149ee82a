---------------------- MODULE VirtualizeTimerC_proofs ----------------------
(***************************************************************************)
(* Proofs about VirtualizeTimerC, for any number of timers, any delays and *)
(* any width of the clock.                                                 *)
(*                                                                         *)
(* The code compares only differences of times modulo Wrap.  That it may   *)
(* is what the invariant says: no running timer is later than MaxLate, and *)
(* the alarm not later than the processor lags behind; with a delay and a  *)
(* lateness below half of Wrap each, a difference is what it seems to be.  *)
(***************************************************************************)
EXTENDS VirtualizeTimerC, NaturalsInduction, WellFoundedInduction, TLAPS

LEMMA Sizes ==
    /\ MaxInt \in Nat
    /\ Wrap = 2 * MaxInt + 2
    /\ MaxLag \in Nat /\ MaxLag <= MaxInt
    /\ \A dt \in Delays : dt \in Nat /\ 1 <= dt /\ dt < MaxInt
    /\ \A b \in Backs : b \in Nat /\ b + MaxLag <= MaxInt
<1>1. PICK h \in Int : h = Wrap \div 2 /\ Wrap = 2 * h
  BY WrapAssumption
<1>2. MaxInt = h - 1 /\ h > 0
  BY <1>1, WrapAssumption DEF MaxInt
<1>3. QED
  BY <1>1, <1>2, LagAssumption, DelaysAssumption, BacksAssumption

(***************************************************************************)
(* Differences modulo Wrap.                                                *)
(***************************************************************************)
LEMMA Remainder ==
    ASSUME NEW x \in Int, - Wrap <= x, x < 2 * Wrap
    PROVE  Unsigned(x) = IF x < 0 THEN x + Wrap ELSE IF x < Wrap THEN x ELSE x - Wrap
<1> DEFINE W == Wrap
<1>1. W \in Nat /\ W > 0
  BY Sizes
<1> HIDE DEF W
<1>2. CASE x < 0
  BY <1>1, <1>2 DEF Unsigned, W
<1>3. CASE 0 <= x /\ x < W
  BY <1>1, <1>3 DEF Unsigned, W
<1>4. CASE W <= x
  BY <1>1, <1>4 DEF Unsigned, W
<1>5. QED
  BY <1>1, <1>2, <1>3, <1>4 DEF W

LEMMA SmallSigned ==
    ASSUME NEW x \in Int, - MaxInt <= x, x <= MaxInt
    PROVE  Signed(x) = x
  BY Remainder, Sizes DEF Signed

Times == 0..Wrap - 1

\* How long ago t0 was, and one tick later.
LEMMA ElapsedTicks ==
    ASSUME NEW n \in Times, NEW t0 \in Times
    PROVE  /\ Unsigned(n - t0) \in Times
           /\ Unsigned(n + 1) \in Times
           /\ Unsigned(n - t0) + 1 < Wrap =>
                  Unsigned(Unsigned(n + 1) - t0) = Unsigned(n - t0) + 1
  BY Remainder, Sizes DEF Times

\* A t0 that is back ticks ago.
LEMMA ElapsedBack ==
    ASSUME NEW n \in Times, NEW back \in Nat, back <= MaxInt
    PROVE  /\ Unsigned(n - back) \in Times
           /\ Unsigned(n - Unsigned(n - back)) = back
  BY Remainder, Sizes DEF Times

\* The t0 of the next period, of a timer that is not more than a delay late.
LEMMA ElapsedNextPeriod ==
    ASSUME NEW n \in Times, NEW t0 \in Times, NEW dt \in 0..MaxInt,
           dt <= Unsigned(n - t0)
    PROVE  /\ Unsigned(t0 + dt) \in Times
           /\ Unsigned(n - Unsigned(t0 + dt)) = Unsigned(n - t0) - dt
  BY Remainder, Sizes DEF Times


-----------------------------------------------------------------------------
(***************************************************************************)
(* Numbers: a set of them that is bounded has a first and a last one.      *)
(***************************************************************************)
LEMMA SmallestNumber ==
    ASSUME NEW S, S \subseteq Nat, S # {}
    PROVE  \E m \in S : \A n \in S : m <= n
<1> DEFINE R == OpToRel(<, Nat)
<1>1. \E m \in S : \A n \in S : <<n, m>> \notin R
  <2>1. IsWellFoundedOn(R, Nat)
    BY NatLessThanWellFounded
  <2> HIDE DEF R
  <2>2. QED
    BY <2>1, WFMin
<1>2. \A m, n \in Nat : n < m => <<n, m>> \in R
  BY DEF OpToRel
<1>3. QED
  <2> HIDE DEF R
  <2>1. PICK m \in S : \A n \in S : <<n, m>> \notin R
    BY <1>1
  <2>2. \A n \in S : ~ (n < m)
    BY <2>1, <1>2
  <2>3. QED
    BY <2>2

LEMMA MinOf ==
    ASSUME NEW S, NEW low \in Int, \A n \in S : n \in Int /\ low <= n, S # {}
    PROVE  Min(S) \in S /\ \A n \in S : Min(S) <= n
<1> DEFINE T == {n - low : n \in S}
<1>1. T \subseteq Nat /\ T # {}
  OBVIOUS
<1>2. PICK m \in T : \A n \in T : m <= n
  <2> HIDE DEF T
  <2>1. QED
    BY <1>1, SmallestNumber
<1>3. PICK k \in S : m = k - low
  BY <1>2
<1>4. ASSUME NEW n \in S
      PROVE  k <= n
  <2>1. n - low \in T /\ n \in Int /\ k \in Int
    OBVIOUS
  <2>2. m <= n - low
    BY <1>2, <2>1
  <2>3. QED
    BY <1>3, <2>1, <2>2
<1>5. QED
  BY <1>3, <1>4 DEF Min

LEMMA MaxOf ==
    ASSUME NEW S, NEW high \in Int, \A n \in S : n \in Int /\ n <= high, S # {}
    PROVE  Max(S) \in S /\ \A n \in S : n <= Max(S)
<1> DEFINE T == {high - n : n \in S}
<1>1. T \subseteq Nat /\ T # {}
  OBVIOUS
<1>2. PICK m \in T : \A n \in T : m <= n
  <2> HIDE DEF T
  <2>1. QED
    BY <1>1, SmallestNumber
<1>3. PICK k \in S : m = high - k
  BY <1>2
<1>4. ASSUME NEW n \in S
      PROVE  n <= k
  <2>1. high - n \in T /\ n \in Int /\ k \in Int
    OBVIOUS
  <2>2. m <= high - n
    BY <1>2, <2>1
  <2>3. QED
    BY <1>3, <2>1, <2>2
<1>5. QED
  BY <1>3, <1>4 DEF Max

LEMMA Lateness ==
    /\ MaxLate \in Nat /\ MaxLag <= MaxLate /\ MaxLate <= MaxInt
    /\ \A b \in Backs : b + MaxLag <= MaxLate
<1> DEFINE S == Backs \cup {0}
<1>1. \A b \in S : b \in Int /\ b <= MaxInt - MaxLag
  BY Sizes
<1>2. Max(S) \in S /\ \A b \in S : b <= Max(S)
  <2>1. S # {} /\ MaxInt - MaxLag \in Int
    BY Sizes
  <2> HIDE DEF S
  <2>2. QED
    BY <1>1, <2>1, MaxOf
<1>3. PICK last \in S : last = Max(S) /\ \A b \in S : b <= last
  BY <1>2
<1>4. last \in Nat /\ last <= MaxInt - MaxLag
  BY <1>1, <1>3, Sizes
<1>5. MaxLate = last + MaxLag
  BY <1>3 DEF MaxLate
<1>6. \A b \in Backs : b \in Nat /\ b <= last
  BY <1>3, Sizes
<1> HIDE DEF S
<1>7. QED
  BY <1>4, <1>5, <1>6, Sizes

-----------------------------------------------------------------------------
(***************************************************************************)
(* The invariant.                                                          *)
(***************************************************************************)
\* What a timer, or the alarm, may be late when the processor has lagged behind so far.
TimersKeepUp ==
    \A t \in DOMAIN m_timers :
        Elapsed(m_timers[t]) <= m_timers[t].dt + (MaxLate - MaxLag) + lag

AlarmKeepsUp == alarm # NoAlarm => Elapsed(alarm) <= alarm.dt + lag

IInv == TypeOK /\ TimersKeepUp /\ AlarmKeepsUp /\ AlarmInTime

\* A difference that is what it seems to be.
LEMMA LeftOf ==
    ASSUME NEW timer, timer.dt \in 0..MaxInt, Elapsed(timer) \in Times,
           Elapsed(timer) <= timer.dt + MaxLate
    PROVE  Left(timer) = timer.dt - Elapsed(timer)
  BY SmallSigned, Lateness, Sizes DEF Left, Times

LEMMA TimerLeft ==
    ASSUME IInv, NEW t \in DOMAIN m_timers
    PROVE  /\ m_timers[t].t0 \in Times
           /\ m_timers[t].dt \in Delays /\ m_timers[t].dt \in 1..MaxInt - 1
           /\ m_timers[t].isoneshot \in BOOLEAN
           /\ Elapsed(m_timers[t]) \in Times
           /\ Left(m_timers[t]) = m_timers[t].dt - Elapsed(m_timers[t])
           /\ Left(m_timers[t]) \in Int
           /\ - (MaxLate - MaxLag) - lag <= Left(m_timers[t])
<1>1. /\ m_timers[t].t0 \in Times /\ m_timers[t].dt \in Delays
      /\ m_timers[t].isoneshot \in BOOLEAN /\ now \in Times
  BY DEF IInv, TypeOK, Times
<1>2. m_timers[t].dt \in 1..MaxInt - 1
  BY <1>1, Sizes
<1>3. Elapsed(m_timers[t]) \in Times
  BY <1>1, ElapsedTicks DEF Elapsed
<1>4. /\ Elapsed(m_timers[t]) <= m_timers[t].dt + (MaxLate - MaxLag) + lag
      /\ lag \in Nat /\ lag <= MaxLag
  BY Sizes DEF IInv, TypeOK, TimersKeepUp
<1>5. Left(m_timers[t]) = m_timers[t].dt - Elapsed(m_timers[t])
  BY <1>2, <1>3, <1>4, LeftOf, Lateness, Sizes DEF Times
<1>6. QED
  BY <1>1, <1>2, <1>3, <1>4, <1>5, Lateness, Sizes DEF Times

LEMMA AlarmLeft ==
    ASSUME IInv, alarm # NoAlarm
    PROVE  /\ alarm.t0 \in Times /\ alarm.dt \in 1..MaxInt - 1
           /\ Elapsed(alarm) \in Times
           /\ Left(alarm) = alarm.dt - Elapsed(alarm)
           /\ Left(alarm) \in Int
           /\ Elapsed(alarm) <= alarm.dt + lag
<1>1. alarm.t0 \in Times /\ alarm.dt \in 1..MaxInt - 1 /\ now \in Times
  BY DEF IInv, TypeOK, Times
<1>2. Elapsed(alarm) \in Times
  BY <1>1, ElapsedTicks DEF Elapsed
<1>3. Elapsed(alarm) <= alarm.dt + lag /\ lag \in Nat /\ lag <= MaxLag
  BY Sizes DEF IInv, TypeOK, AlarmKeepsUp
<1>4. Left(alarm) = alarm.dt - Elapsed(alarm)
  BY <1>1, <1>2, <1>3, LeftOf, Lateness, Sizes DEF Times
<1>5. QED
  BY <1>1, <1>2, <1>3, <1>4, Sizes DEF Times

\* With nothing to do, no timer is due before the next tick.
LEMMA IdleIsAhead ==
    ASSUME IInv, Idle
    PROVE  /\ alarm # NoAlarm => Elapsed(alarm) < alarm.dt
           /\ \A t \in DOMAIN m_timers : Left(m_timers[t]) >= 1
<1>1. alarm # NoAlarm => Elapsed(alarm) < alarm.dt
  BY AlarmLeft, Sizes DEF Idle, AlarmDue, Times
<1>2. ASSUME NEW t \in DOMAIN m_timers
      PROVE  Left(m_timers[t]) >= 1
  <2>1. alarm # NoAlarm /\ Left(alarm) <= Left(m_timers[t])
    BY DEF IInv, AlarmInTime, Idle
  <2>2. QED
    BY <1>1, <2>1, AlarmLeft, TimerLeft, Sizes DEF Times
<1>3. QED
  BY <1>1, <1>2

-----------------------------------------------------------------------------
(***************************************************************************)
(* The tasks: each is posted once, and a post leaves some task to run.     *)
(***************************************************************************)
TaskNames == {"fired", "updateFromTimer"}
TaskSeq(s) == s \in Seq(TaskNames) /\ IsInjective(s)

LEMMA TasksType == TypeOK => TaskSeq(tasks)
  BY DEF TypeOK, TaskSeq, TaskNames

LEMMA PostType ==
    ASSUME NEW s, TaskSeq(s), NEW task \in TaskNames
    PROVE  LET posted == IF Contains(s, task) THEN s ELSE Append(s, task)
           IN  TaskSeq(posted) /\ posted # <<>>
<1>1. CASE Contains(s, task)
  BY <1>1 DEF Contains, TaskSeq
<1>2. CASE ~ Contains(s, task)
  <2>1. Append(s, task) \in Seq(TaskNames) /\ Append(s, task) # <<>>
    <3>1. s \in Seq(TaskNames)
      BY DEF TaskSeq
    <3> HIDE DEF TaskNames
    <3>2. Append(s, task) \in Seq(TaskNames) /\ Len(Append(s, task)) = Len(s) + 1
      BY <3>1
    <3>3. Len(s) \in Nat /\ Len(<< >>) = 0
      BY <3>1
    <3>4. QED
      BY <3>2, <3>3
  <2>2. ASSUME NEW i \in 1..Len(s) + 1, NEW j \in 1..Len(s) + 1,
               Append(s, task)[i] = Append(s, task)[j]
        PROVE  i = j
    BY <1>2, <2>2 DEF TaskSeq, IsInjective, Contains
  <2>3. DOMAIN Append(s, task) = 1..Len(s) + 1
    BY DEF TaskSeq
  <2>4. IsInjective(Append(s, task))
    BY <2>2, <2>3 DEF IsInjective
  <2>5. QED
    BY <1>2, <2>1, <2>4 DEF TaskSeq
<1>3. QED
  BY <1>1, <1>2

LEMMA TailType ==
    ASSUME NEW s, TaskSeq(s), s # <<>>
    PROVE  TaskSeq(Tail(s))
<1>1. /\ Tail(s) \in Seq(TaskNames) /\ Len(Tail(s)) = Len(s) - 1
      /\ \A i \in 1..Len(s) - 1 : Tail(s)[i] = s[i + 1]
  BY DEF TaskSeq
<1>2. ASSUME NEW i \in 1..Len(s) - 1, NEW j \in 1..Len(s) - 1, Tail(s)[i] = Tail(s)[j]
      PROVE  i = j
  <2>1. i + 1 \in 1..Len(s) /\ j + 1 \in 1..Len(s) /\ s[i + 1] = s[j + 1]
    BY <1>1, <1>2 DEF TaskSeq
  <2>2. i + 1 = j + 1
    BY <2>1 DEF TaskSeq, IsInjective
  <2>3. QED
    BY <2>2
<1>3. DOMAIN Tail(s) = 1..Len(s) - 1
  BY <1>1 DEF TaskSeq
<1>4. QED
  BY <1>1, <1>2, <1>3 DEF TaskSeq, IsInjective

-----------------------------------------------------------------------------
(***************************************************************************)
(* A tick: everything is one tick nearer, and what is late is so because   *)
(* the processor lags behind.                                              *)
(***************************************************************************)
LEMMA TickTimers ==
    ASSUME IInv, Tick, NEW t \in DOMAIN m_timers
    PROVE  /\ Elapsed(m_timers[t])' = Elapsed(m_timers[t]) + 1
           /\ Left(m_timers[t])' = Left(m_timers[t]) - 1
           /\ Left(m_timers[t]) > - MaxLate
           /\ Elapsed(m_timers[t])' <= m_timers[t].dt + (MaxLate - MaxLag) + lag'
<1>1. now \in Times /\ lag \in 0..MaxLag
  BY DEF IInv, TypeOK, Times
<1>2. /\ now' = Unsigned(now + 1) /\ m_timers' = m_timers
      /\ lag' = IF Idle THEN 0 ELSE lag + 1
      /\ Idle \/ lag < MaxLag
  BY DEF Tick
<1>3. CASE Idle
  <2>1. Left(m_timers[t]) >= 1
    BY <1>3, IdleIsAhead
  <2>2. Elapsed(m_timers[t]) + 1 <= m_timers[t].dt
    BY <2>1, TimerLeft DEF Times
  <2>3. QED
    <3>1. Elapsed(m_timers[t]) + 1 < Wrap
      BY <2>2, TimerLeft, Sizes DEF Times
    <3>2. Elapsed(m_timers[t])' = Elapsed(m_timers[t]) + 1
      BY <1>1, <1>2, <3>1, TimerLeft, ElapsedTicks DEF Elapsed
    <3>3. Left(m_timers[t])' = m_timers[t].dt - (Elapsed(m_timers[t]) + 1)
      BY <1>2, <2>2, <3>2, TimerLeft, SmallSigned, Sizes DEF Left, Times
    <3>4. QED
      BY <1>1, <1>2, <1>3, <2>1, <2>2, <3>2, <3>3, TimerLeft, Lateness, Sizes DEF Times
<1>4. CASE ~ Idle
  <2>1. lag < MaxLag /\ lag' = lag + 1
    BY <1>2, <1>4
  <2>2. Elapsed(m_timers[t]) + 1 <= m_timers[t].dt + (MaxLate - MaxLag) + lag + 1
    BY TimerLeft, Lateness, Sizes, <1>1 DEF Times
  <2>3. Elapsed(m_timers[t]) + 1 < Wrap
    BY <1>1, <2>1, <2>2, TimerLeft, Lateness, Sizes DEF Times
  <2>4. Elapsed(m_timers[t])' = Elapsed(m_timers[t]) + 1
    BY <1>1, <1>2, <2>3, TimerLeft, ElapsedTicks DEF Elapsed
  <2>5. Left(m_timers[t])' = m_timers[t].dt - (Elapsed(m_timers[t]) + 1)
    BY <1>1, <1>2, <2>1, <2>2, <2>4, TimerLeft, SmallSigned, Lateness, Sizes DEF Left, Times
  <2>6. QED
    BY <1>1, <2>1, <2>2, <2>4, <2>5, TimerLeft, Lateness, Sizes DEF Times
<1>5. QED
  BY <1>3, <1>4

LEMMA TickAlarm ==
    ASSUME IInv, Tick, alarm # NoAlarm
    PROVE  /\ Elapsed(alarm)' = Elapsed(alarm) + 1
           /\ Left(alarm)' = Left(alarm) - 1
           /\ Elapsed(alarm)' <= alarm.dt + lag'
<1>1. now \in Times /\ lag \in 0..MaxLag
  BY DEF IInv, TypeOK, Times
<1>2. /\ now' = Unsigned(now + 1) /\ alarm' = alarm
      /\ lag' = IF Idle THEN 0 ELSE lag + 1
      /\ Idle \/ lag < MaxLag
  BY DEF Tick
<1>3. Elapsed(alarm) + 1 <= alarm.dt + lag'
  <2>1. CASE Idle
    BY <1>2, <2>1, IdleIsAhead, AlarmLeft, Sizes DEF Times
  <2>2. CASE ~ Idle
    BY <1>1, <1>2, <2>2, AlarmLeft, Sizes DEF Times
  <2>3. QED
    BY <2>1, <2>2
<1>4. lag' \in 0..MaxLag
  BY <1>1, <1>2, Sizes
<1>5. Elapsed(alarm) + 1 < Wrap
  BY <1>3, <1>4, AlarmLeft, Sizes DEF Times
<1>6. Elapsed(alarm)' = Elapsed(alarm) + 1
  BY <1>1, <1>2, <1>5, AlarmLeft, ElapsedTicks DEF Elapsed
<1>7. Left(alarm)' = alarm.dt - (Elapsed(alarm) + 1)
  BY <1>2, <1>3, <1>4, <1>6, AlarmLeft, SmallSigned, Sizes DEF Left, Times
<1>8. QED
  BY <1>3, <1>6, <1>7, AlarmLeft, Sizes DEF Times

LEMMA TickKeeps ==
    ASSUME IInv, Tick
    PROVE  IInv'
<1>1. now' \in Times /\ lag' \in 0..MaxLag
  BY ElapsedTicks, Sizes DEF Tick, IInv, TypeOK, Times
<1>2. UNCHANGED <<m_timers, alarm, tasks>> /\ fired' = NoTimer
  BY DEF Tick
<1>3. TypeOK'
  BY <1>1, <1>2 DEF IInv, TypeOK, Times
<1>4. TimersKeepUp'
  BY <1>2, TickTimers DEF TimersKeepUp
<1>5. AlarmKeepsUp'
  BY <1>2, TickAlarm DEF AlarmKeepsUp
<1>6. AlarmInTime'
  BY <1>2, TickTimers, TickAlarm, TimerLeft, AlarmLeft DEF AlarmInTime, IInv
<1>7. QED
  BY <1>3, <1>4, <1>5, <1>6 DEF IInv

-----------------------------------------------------------------------------
(***************************************************************************)
(* The other steps take no time.                                           *)
(***************************************************************************)
LEMMA AlarmStays ==
    ASSUME IInv, UNCHANGED <<now, lag>>, alarm' = alarm \/ alarm' = NoAlarm
    PROVE  /\ AlarmKeepsUp'
           /\ alarm' = NoAlarm \/ alarm' \in [t0 : Times, dt : 1..MaxInt - 1]
  BY DEF AlarmKeepsUp, IInv, TypeOK, Times, Elapsed, NoAlarm

\* A timer that is left alone.
LEMMA TimerStays ==
    ASSUME IInv, UNCHANGED <<now, lag>>, NEW t \in DOMAIN m_timers, t \in DOMAIN m_timers',
           m_timers'[t] = m_timers[t]
    PROVE  /\ Left(m_timers[t])' = Left(m_timers[t])
           /\ Elapsed(m_timers[t])' = Elapsed(m_timers[t])
           /\ Elapsed(m_timers[t])' <= m_timers'[t].dt + (MaxLate - MaxLag) + lag'
  BY DEF Left, Elapsed, IInv, TimersKeepUp

LEMMA AlarmFiredKeeps ==
    ASSUME IInv, AlarmFired
    PROVE  IInv'
<1>1. UNCHANGED <<now, m_timers, lag>> /\ alarm' = NoAlarm /\ fired' = NoTimer
  BY DEF AlarmFired
<1>2. TaskSeq(tasks') /\ tasks' # <<>>
  BY TasksType, PostType DEF AlarmFired, IInv, TaskNames
<1>3. TypeOK'
  BY <1>1, <1>2 DEF IInv, TypeOK, TaskSeq, TaskNames
<1>4. TimersKeepUp' /\ AlarmKeepsUp'
  BY <1>1, TimerStays, AlarmStays DEF TimersKeepUp
<1>5. QED
  BY <1>2, <1>3, <1>4 DEF IInv, AlarmInTime

LEMMA StartTimer ==
    ASSUME IInv, NEW t \in Timers, NEW back \in Backs, NEW dt \in Delays,
           NEW isoneshot, Start(t, back, dt, isoneshot)
    PROVE  /\ DOMAIN m_timers' = DOMAIN m_timers \cup {t}
           /\ \A u \in DOMAIN m_timers' \ {t} : m_timers'[u] = m_timers[u]
           /\ m_timers'[t] = [t0 |-> Unsigned(now - back), dt |-> dt, isoneshot |-> isoneshot]
           /\ m_timers' = [u \in DOMAIN m_timers \cup {t} |-> m_timers'[u]]
           /\ Unsigned(now - back) \in Times
           /\ Elapsed(m_timers[t])' = back
           /\ Left(m_timers[t])' = dt - back
           /\ back <= MaxLate - MaxLag
<1> DEFINE new == [t0 |-> Unsigned(now - back), dt |-> dt, isoneshot |-> isoneshot]
<1>1. now \in Times /\ back \in Nat /\ back <= MaxInt /\ back <= MaxLate - MaxLag
  BY Sizes, Lateness DEF IInv, TypeOK, Times
<1>2. /\ now' = now
      /\ m_timers' = [u \in DOMAIN m_timers \cup {t} |-> IF u = t THEN new ELSE m_timers[u]]
  BY DEF Start
<1>3. /\ DOMAIN m_timers' = DOMAIN m_timers \cup {t}
      /\ \A u \in DOMAIN m_timers' \ {t} : m_timers'[u] = m_timers[u]
      /\ m_timers'[t] = new
      /\ m_timers' = [u \in DOMAIN m_timers \cup {t} |-> m_timers'[u]]
  BY <1>2
<1>4. new.t0 \in Times /\ Unsigned(now - new.t0) = back
  BY <1>1, ElapsedBack
<1>5. Elapsed(m_timers[t])' = back
  BY <1>2, <1>3, <1>4 DEF Elapsed
<1>6. Left(m_timers[t])' = dt - back
  BY <1>1, <1>3, <1>5, SmallSigned, Sizes DEF Left
<1>7. QED
  BY <1>1, <1>3, <1>4, <1>5, <1>6

LEMMA StartKeeps ==
    ASSUME IInv, NEW t \in Timers, NEW back \in Backs, NEW dt \in Delays,
           NEW isoneshot, isoneshot \in BOOLEAN, Start(t, back, dt, isoneshot)
    PROVE  IInv'
<1>0. /\ DOMAIN m_timers' = DOMAIN m_timers \cup {t}
      /\ \A u \in DOMAIN m_timers' \ {t} : m_timers'[u] = m_timers[u]
      /\ m_timers'[t] = [t0 |-> Unsigned(now - back), dt |-> dt, isoneshot |-> isoneshot]
      /\ Unsigned(now - back) \in Times
      /\ Elapsed(m_timers[t])' = back
      /\ back <= MaxLate - MaxLag
  BY ONLY IInv, Start(t, back, dt, isoneshot), StartTimer
<1>1. UNCHANGED <<now, alarm, lag>> /\ fired' = NoTimer
  BY DEF Start
<1>2. TaskSeq(tasks') /\ tasks' # <<>>
  BY TasksType, PostType DEF Start, Posted, IInv, TaskNames
<1>3. \A u \in DOMAIN m_timers' :
          m_timers'[u] \in [t0 : Times, dt : Delays, isoneshot : BOOLEAN]
  BY <1>0 DEF IInv, TypeOK, Times
<1>4. TypeOK'
  BY <1>1, <1>2, <1>3, <1>0 DEF IInv, TypeOK, TaskSeq, TaskNames, Times
<1>5. TimersKeepUp'
  <2>1. ASSUME NEW u \in DOMAIN m_timers'
        PROVE  Elapsed(m_timers[u])' <= m_timers'[u].dt + (MaxLate - MaxLag) + lag'
    <3>1. CASE u = t
      BY <1>1, <3>1, <1>0, Sizes, Lateness DEF IInv, TypeOK
    <3>2. CASE u # t
      BY <1>1, <3>2, <1>0, TimerStays
    <3>3. QED
      BY <3>1, <3>2
  <2>2. QED
    BY <2>1 DEF TimersKeepUp
<1>6. AlarmKeepsUp'
  BY <1>1, AlarmStays
<1>7. QED
  BY <1>2, <1>4, <1>5, <1>6 DEF IInv, AlarmInTime

LEMMA StopKeeps ==
    ASSUME IInv, NEW t \in Timers, Stop(t)
    PROVE  IInv'
<1>1. /\ UNCHANGED <<now, alarm, tasks, lag>> /\ fired' = NoTimer
      /\ m_timers' = [u \in DOMAIN m_timers \ {t} |-> m_timers[u]]
  BY DEF Stop
<1>2. TypeOK'
  BY <1>1 DEF IInv, TypeOK
<1>3. TimersKeepUp'
  BY <1>1, TimerStays DEF TimersKeepUp
<1>4. AlarmKeepsUp'
  BY <1>1, AlarmStays
<1>5. AlarmInTime'
  <2>1. Left(alarm)' = Left(alarm)
    BY <1>1 DEF Left, Elapsed
  <2>2. QED
    BY <1>1, <2>1, TimerStays DEF AlarmInTime, IInv
<1>6. QED
  BY <1>2, <1>3, <1>4, <1>5 DEF IInv

-----------------------------------------------------------------------------
(***************************************************************************)
(* fireTimers serves a timer that is due, or none is.                      *)
(***************************************************************************)
LEMMA FirstDue ==
    ASSUME IInv, DueTimers # {}
    PROVE  /\ Min(DueTimers) \in DOMAIN m_timers /\ Min(DueTimers) \in Timers
           /\ m_timers[Min(DueTimers)].dt <= Elapsed(m_timers[Min(DueTimers)])
<1>1. \A t \in DueTimers : t \in Int /\ 0 <= t
  BY TimersAssumption DEF DueTimers, IInv, TypeOK
<1>2. Min(DueTimers) \in DueTimers
  BY <1>1, MinOf
<1>3. Min(DueTimers) \in DOMAIN m_timers
  BY <1>2 DEF DueTimers
<1>4. QED
  BY <1>2, <1>3, TimerLeft, Sizes DEF DueTimers, IInv, TypeOK, Times

\* A periodic timer that fires is due a period after it was.
LEMMA NextPeriod ==
    ASSUME IInv, now' = now, NEW t \in DOMAIN m_timers, Fired(t),
           m_timers[t].dt <= Elapsed(m_timers[t]), ~ m_timers[t].isoneshot
    PROVE  /\ DOMAIN m_timers' = DOMAIN m_timers
           /\ m_timers' = [u \in DOMAIN m_timers |-> m_timers'[u]]
           /\ \A u \in DOMAIN m_timers \ {t} : m_timers'[u] = m_timers[u]
           /\ m_timers'[t] = [m_timers[t] EXCEPT !.t0 = m_timers'[t].t0]
           /\ m_timers'[t] \in [t0 : Times, dt : Delays, isoneshot : BOOLEAN]
           /\ m_timers'[t].dt = m_timers[t].dt
           /\ m_timers'[t].isoneshot = m_timers[t].isoneshot
           /\ Elapsed(m_timers[t])' = Elapsed(m_timers[t]) - m_timers[t].dt
           /\ Left(m_timers[t])' = Left(m_timers[t]) + m_timers[t].dt
<1> DEFINE next == Unsigned(m_timers[t].t0 + m_timers[t].dt)
<1>1. now \in Times /\ m_timers[t] \in [t0 : Times, dt : Delays, isoneshot : BOOLEAN]
  BY DEF IInv, TypeOK, Times
<1>2. m_timers' = [m_timers EXCEPT ![t].t0 = next]
  BY DEF Fired
<1>3. next \in Times /\ Unsigned(now - next) = Elapsed(m_timers[t]) - m_timers[t].dt
  BY <1>1, TimerLeft, ElapsedNextPeriod, Sizes DEF Elapsed
<1> HIDE DEF next
<1>4. /\ DOMAIN m_timers' = DOMAIN m_timers
      /\ m_timers' = [u \in DOMAIN m_timers |-> m_timers'[u]]
      /\ \A u \in DOMAIN m_timers \ {t} : m_timers'[u] = m_timers[u]
      /\ m_timers'[t] = [m_timers[t] EXCEPT !.t0 = next]
  BY <1>2
<1>5. /\ m_timers'[t].t0 = next /\ m_timers'[t].dt = m_timers[t].dt
      /\ m_timers'[t].isoneshot = m_timers[t].isoneshot
      /\ m_timers'[t] \in [t0 : Times, dt : Delays, isoneshot : BOOLEAN]
  BY <1>1, <1>3, <1>4
<1>6. Elapsed(m_timers[t])' = Elapsed(m_timers[t]) - m_timers[t].dt
  BY <1>3, <1>5 DEF Elapsed
<1>7. Elapsed(m_timers[t]) <= m_timers[t].dt + MaxLate
  BY TimerLeft, Lateness, Sizes DEF IInv, TypeOK, Times
<1>8. Left(m_timers[t])' = m_timers[t].dt - Elapsed(m_timers[t])'
  BY <1>5, <1>6, <1>7, TimerLeft, SmallSigned, Lateness, Sizes DEF Left, Times
<1>9. QED
  BY <1>4, <1>5, <1>6, <1>8, TimerLeft, Sizes DEF Times

LEMMA FiredKeeps ==
    ASSUME IInv, UNCHANGED <<now, lag>>, NEW t \in DOMAIN m_timers, Fired(t),
           m_timers[t].dt <= Elapsed(m_timers[t])
    PROVE  /\ DOMAIN m_timers' \subseteq Timers
           /\ \A u \in DOMAIN m_timers' :
                 m_timers'[u] \in [t0 : Times, dt : Delays, isoneshot : BOOLEAN]
           /\ TimersKeepUp'
<1>1. DOMAIN m_timers \subseteq Timers
  BY DEF IInv, TypeOK
<1>2. \A u \in DOMAIN m_timers : m_timers[u] \in [t0 : Times, dt : Delays, isoneshot : BOOLEAN]
  BY DEF IInv, TypeOK, Times
<1>3. CASE m_timers[t].isoneshot
  <2>1. m_timers' = [u \in DOMAIN m_timers \ {t} |-> m_timers[u]]
    BY <1>3 DEF Fired
  <2>2. TimersKeepUp'
    BY <2>1, TimerStays DEF TimersKeepUp
  <2>3. QED
    BY <1>1, <1>2, <2>1, <2>2
<1>4. CASE ~ m_timers[t].isoneshot
  <2>1. /\ DOMAIN m_timers' = DOMAIN m_timers
        /\ \A u \in DOMAIN m_timers \ {t} : m_timers'[u] = m_timers[u]
        /\ m_timers'[t] \in [t0 : Times, dt : Delays, isoneshot : BOOLEAN]
        /\ m_timers'[t].dt = m_timers[t].dt
        /\ Elapsed(m_timers[t])' = Elapsed(m_timers[t]) - m_timers[t].dt
    BY <1>4, NextPeriod
  <2>2. Elapsed(m_timers[t])' <= m_timers'[t].dt + (MaxLate - MaxLag) + lag'
    BY <2>1, TimerLeft, Lateness, Sizes DEF IInv, TypeOK, TimersKeepUp, Times
  <2>3. TimersKeepUp'
    BY <2>1, <2>2, TimerStays DEF TimersKeepUp
  <2>4. QED
    BY <1>1, <1>2, <2>1, <2>3
<1>5. QED
  BY <1>3, <1>4

LEMMA FireTimersKeeps ==
    ASSUME IInv, UNCHANGED <<now, lag>>, alarm' = alarm \/ alarm' = NoAlarm,
           tasks # <<>>, fireTimers
    PROVE  IInv'
<1>1. TaskSeq(tasks') /\ tasks' # <<>>
  BY TasksType, TailType, PostType DEF fireTimers, Posted, IInv, TaskNames
<1>2. /\ DOMAIN m_timers' \subseteq Timers /\ fired' \in Timers \cup {NoTimer}
      /\ \A u \in DOMAIN m_timers' :
            m_timers'[u] \in [t0 : Times, dt : Delays, isoneshot : BOOLEAN]
      /\ TimersKeepUp'
  <2>1. CASE DueTimers = {}
    <3>1. m_timers' = m_timers /\ fired' = NoTimer
      BY <2>1 DEF fireTimers, NothingFired
    <3>2. TimersKeepUp'
      BY <3>1, TimerStays DEF TimersKeepUp
    <3>3. QED
      BY <3>1, <3>2 DEF IInv, TypeOK, Times
  <2>2. CASE DueTimers # {}
    <3>1. Fired(Min(DueTimers))
      BY <2>2 DEF fireTimers
    <3>2. fired' = Min(DueTimers)
      BY <3>1 DEF Fired
    <3>3. QED
      BY <2>2, <3>1, <3>2, FirstDue, FiredKeeps
  <2>3. QED
    BY <2>1, <2>2
<1>3. now' \in Times /\ lag' \in 0..MaxLag
  BY DEF IInv, TypeOK, Times
<1>4. /\ AlarmKeepsUp'
      /\ alarm' = NoAlarm \/ alarm' \in [t0 : Times, dt : 1..MaxInt - 1]
  BY AlarmStays
<1>5. TypeOK'
  BY <1>1, <1>2, <1>3, <1>4 DEF TypeOK, TaskSeq, TaskNames, Times
<1>6. QED
  BY <1>1, <1>2, <1>4, <1>5 DEF IInv, AlarmInTime

-----------------------------------------------------------------------------
(***************************************************************************)
(* updateFromTimer sets the alarm for the timer with the least time left,  *)
(* or serves one that has none.                                            *)
(***************************************************************************)
LEMMA LeastRemaining ==
    ASSUME IInv
    PROVE  /\ min_remaining \in Int /\ min_remaining <= MaxInt
           /\ \A t \in DOMAIN m_timers :
                 min_remaining <= Left(m_timers[t]) /\ Left(m_timers[t]) < MaxInt
<1> DEFINE S == {MaxInt} \cup {Remaining(m_timers[t]) : t \in DOMAIN m_timers}
<1>1. \A t \in DOMAIN m_timers :
          /\ Remaining(m_timers[t]) = Left(m_timers[t])
          /\ Left(m_timers[t]) \in Int /\ - MaxLate <= Left(m_timers[t])
          /\ Left(m_timers[t]) < MaxInt
  BY TimerLeft, Lateness, Sizes DEF Remaining, Left, IInv, TypeOK, Times
<1>2. /\ \A n \in S : n \in Int /\ - MaxLate <= n
      /\ MaxInt \in S
      /\ \A t \in DOMAIN m_timers : Left(m_timers[t]) \in S
  BY <1>1, Lateness, Sizes
<1>3. min_remaining = Min(S)
  BY DEF min_remaining
<1> HIDE DEF S
<1>4. Min(S) \in S /\ \A n \in S : Min(S) <= n
  BY <1>2, MinOf, Lateness
<1>5. QED
  BY <1>1, <1>2, <1>3, <1>4

LEMMA UpdateKeeps ==
    ASSUME IInv, updateFromTimer
    PROVE  IInv'
<1>1. UNCHANGED <<now, lag>> /\ tasks # <<>>
  BY DEF updateFromTimer
<1>2. CASE ~ SetAlarm(min_remaining)
  BY <1>1, <1>2, FireTimersKeeps DEF updateFromTimer
<1>3. CASE SetAlarm(min_remaining)
  <2>1. /\ alarm' = IF min_remaining = MaxInt THEN NoAlarm
                    ELSE [t0 |-> now, dt |-> min_remaining]
        /\ tasks' = Tail(tasks)
        /\ fired' = NoTimer /\ UNCHANGED m_timers
    BY <1>3 DEF updateFromTimer, NothingFired
  <2>2. now \in Times /\ min_remaining \in 1..MaxInt
    BY <1>3, LeastRemaining, Sizes DEF IInv, TypeOK, Times, SetAlarm
  <2>3. alarm' = NoAlarm \/ alarm' \in [t0 : Times, dt : 1..MaxInt - 1]
    <3>1. CASE min_remaining = MaxInt
      BY <2>1, <3>1
    <3>2. CASE min_remaining # MaxInt
      <4>1. min_remaining \in 1..MaxInt - 1
        BY <2>2, <3>2, Sizes
      <4>2. QED
        BY <2>1, <2>2, <3>2, <4>1
    <3>3. QED
      BY <3>1, <3>2
  <2>4. TaskSeq(tasks')
    BY <1>1, <2>1, TasksType, TailType DEF IInv
  <2>5. TypeOK'
    BY <1>1, <2>1, <2>3, <2>4 DEF IInv, TypeOK, TaskSeq, TaskNames, Times
  <2>6. TimersKeepUp'
    BY <1>1, <2>1, TimerStays DEF TimersKeepUp
  <2>7. ASSUME min_remaining # MaxInt
        PROVE  /\ alarm' # NoAlarm /\ alarm'.dt = min_remaining
               /\ Elapsed(alarm)' = 0 /\ Left(alarm)' = min_remaining
    <3>1. alarm' = [t0 |-> now, dt |-> min_remaining]
      BY <2>1, <2>7
    <3>2. alarm'.t0 = now /\ alarm'.dt = min_remaining /\ alarm' # NoAlarm
      BY <2>2, <3>1 DEF NoAlarm
    <3>3. Unsigned(now - now) = 0
      BY <2>2, Remainder, Sizes DEF Times
    <3>4. Elapsed(alarm)' = 0
      BY <1>1, <3>2, <3>3 DEF Elapsed
    <3>5. Left(alarm)' = Signed(min_remaining - 0)
      BY <3>2, <3>4 DEF Left
    <3>6. QED
      BY <2>2, <3>2, <3>4, <3>5, SmallSigned, Sizes
  <2>8. AlarmKeepsUp'
    BY <1>1, <2>1, <2>2, <2>7, Sizes DEF AlarmKeepsUp, IInv, TypeOK
  <2>9. AlarmInTime'
    <3>1. ASSUME NEW t \in DOMAIN m_timers
          PROVE  alarm' # NoAlarm /\ Left(alarm)' <= Left(m_timers[t])'
      <4>1. min_remaining # MaxInt
        BY <2>2, LeastRemaining, TimerLeft, Sizes
      <4>2. Left(m_timers[t])' = Left(m_timers[t])
        BY <1>1, <2>1, TimerStays
      <4>3. QED
        BY <2>7, <4>1, <4>2, LeastRemaining
    <3>2. QED
      BY <2>1, <3>1 DEF AlarmInTime
  <2>10. QED
    BY <2>5, <2>6, <2>8, <2>9 DEF IInv
<1>4. QED
  BY <1>2, <1>3

LEMMA NextKeeps == IInv /\ [Next]_vars => IInv'
<1> SUFFICES ASSUME IInv, [Next]_vars PROVE IInv'
  OBVIOUS
<1>1. ASSUME NEW t \in Timers, NEW back \in Backs, NEW dt \in Delays,
             NEW isoneshot, isoneshot \in BOOLEAN, Start(t, back, dt, isoneshot)
      PROVE  IInv'
  BY ONLY IInv, <1>1, StartKeeps
<1>2. ASSUME NEW t \in Timers, Stop(t)
      PROVE  IInv'
  BY <1>2, StopKeeps
<1>3. CASE TimerFromFired
  BY <1>3, FireTimersKeeps DEF TimerFromFired
<1>4. CASE UNCHANGED vars
  BY <1>4 DEF vars, IInv, TypeOK, TimersKeepUp, AlarmKeepsUp, AlarmInTime, Left, Elapsed
<1>5. CASE Calls
  BY <1>1, <1>2, <1>5 DEF Calls
<1>6. QED
  BY <1>3, <1>4, <1>5, TickKeeps, AlarmFiredKeeps, UpdateKeeps DEF Next

LEMMA Invariance == Spec => []IInv
<1>1. Init => IInv
  <2> SUFFICES ASSUME Init PROVE IInv
    OBVIOUS
  <2>1. DOMAIN m_timers = {} /\ alarm = NoAlarm /\ now = 0 /\ lag = 0 /\ fired = NoTimer
    BY DEF Init
  <2>2. tasks \in Seq({"fired", "updateFromTimer"}) /\ IsInjective(tasks)
    BY DEF Init, IsInjective
  <2>3. TypeOK
    BY <2>1, <2>2, Sizes DEF TypeOK
  <2>4. QED
    BY <2>1, <2>3 DEF IInv, TimersKeepUp, AlarmKeepsUp, AlarmInTime
<1>2. QED
  BY <1>1, NextKeeps, PTL DEF Spec

(***************************************************************************)
(* The variables keep their types: the times and the tasks, each posted    *)
(* once (post refuses a second).                                           *)
(***************************************************************************)
THEOREM TypeCorrect == Spec => []TypeOK
<1>1. IInv => TypeOK
  BY DEF IInv
<1>2. QED
  BY <1>1, Invariance, PTL

(***************************************************************************)
(* Whenever no task is to look at the timers, the alarm is set, and no     *)
(* later than for the timer that is due first (updateFromTimer).           *)
(***************************************************************************)
THEOREM AlarmIsInTime == Spec => []AlarmInTime
<1>1. IInv => AlarmInTime
  BY DEF IInv
<1>2. QED
  BY <1>1, Invariance, PTL

-----------------------------------------------------------------------------
(***************************************************************************)
(* The steps as TimerService sees them: of a running timer the ticks that  *)
(* are left, its delay and its kind.                                       *)
(***************************************************************************)
LeftAt(n, timer) == Signed(timer.dt - Unsigned(n - timer.t0))
SeenAt(n, timer) ==
    [left |-> LeftAt(n, timer), dt |-> timer.dt, isoneshot |-> timer.isoneshot]

LEMMA RunningIs ==
    /\ Running = [t \in DOMAIN m_timers |-> SeenAt(now, m_timers[t])]
    /\ Running' = [t \in DOMAIN m_timers' |-> SeenAt(now', m_timers'[t])]
    /\ \A t \in DOMAIN m_timers : Left(m_timers[t]) = LeftAt(now, m_timers[t])
  BY DEF Running, Left, Elapsed, LeftAt, SeenAt

LEMMA LeftNext ==
    ASSUME NEW t
    PROVE  Left(m_timers[t])' = LeftAt(now', m_timers'[t])
  BY DEF Left, Elapsed, LeftAt

LEMMA RunningStays ==
    ASSUME UNCHANGED <<now, m_timers>>
    PROVE  Running' = Running
  BY RunningIs

LEMMA TickRefines ==
    ASSUME IInv, Tick
    PROVE  Abstract!Tick
<1>1. m_timers' = m_timers /\ fired' = NoTimer
  BY DEF Tick
<1>2. \A t \in DOMAIN Running : Running[t].left > - MaxLate
  BY TickTimers, RunningIs, LeftNext DEF SeenAt
<1>3. Running' = [t \in DOMAIN Running |-> [Running[t] EXCEPT !.left = @ - 1]]
  BY <1>1, TickTimers, RunningIs, LeftNext DEF SeenAt
<1>4. QED
  BY <1>1, <1>2, <1>3 DEF Abstract!Tick

LEMMA StartRefines ==
    ASSUME IInv, NEW t \in Timers, NEW back \in Backs, NEW dt \in Delays,
           NEW isoneshot, Start(t, back, dt, isoneshot)
    PROVE  Abstract!Started(t)
<1>1. /\ DOMAIN m_timers' = DOMAIN m_timers \cup {t}
      /\ \A u \in DOMAIN m_timers' \ {t} : m_timers'[u] = m_timers[u]
      /\ m_timers'[t] = [t0 |-> Unsigned(now - back), dt |-> dt, isoneshot |-> isoneshot]
      /\ Left(m_timers[t])' = dt - back
  BY ONLY IInv, Start(t, back, dt, isoneshot), StartTimer
<1>2. fired' = NoTimer /\ UNCHANGED <<now, lag>>
  BY DEF Start
<1>3. Running' = [u \in DOMAIN Running \cup {t} |->
                     IF u = t THEN [left |-> dt - back, dt |-> dt, isoneshot |-> isoneshot]
                     ELSE Running[u]]
  BY <1>1, <1>2, TimerStays, RunningIs, LeftNext DEF SeenAt
<1>4. dt - back <= dt
  BY Sizes
<1>5. QED
  BY <1>2, <1>3, <1>4 DEF Abstract!Started, Abstract!Start, Abstract!Put

LEMMA StopRefines ==
    ASSUME IInv, NEW t \in Timers, Stop(t)
    PROVE  Abstract!Stop(t)
<1>1. /\ m_timers' = [u \in DOMAIN m_timers \ {t} |-> m_timers[u]]
      /\ fired' = NoTimer /\ UNCHANGED <<now, lag>>
  BY DEF Stop
<1>2. Running' = [u \in DOMAIN Running \ {t} |-> Running[u]]
  BY <1>1, TimerStays, RunningIs, LeftNext DEF SeenAt
<1>3. QED
  BY <1>1, <1>2 DEF Abstract!Stop, Abstract!Remove

LEMMA FiredRefines ==
    ASSUME IInv, UNCHANGED <<now, lag>>, NEW t \in DOMAIN m_timers, Fired(t),
           m_timers[t].dt <= Elapsed(m_timers[t])
    PROVE  Abstract!Fire(t)
<1>1. t \in DOMAIN Running /\ Running[t].left <= 0
  BY TimerLeft, RunningIs DEF SeenAt, Times
<1>2. Running[t].isoneshot = m_timers[t].isoneshot /\ Running[t].dt = m_timers[t].dt
      /\ Running[t].left = Left(m_timers[t])
  BY RunningIs DEF SeenAt
<1>3. CASE m_timers[t].isoneshot
  <2>1. m_timers' = [u \in DOMAIN m_timers \ {t} |-> m_timers[u]]
    BY <1>3 DEF Fired
  <2>2. Running' = [u \in DOMAIN Running \ {t} |-> Running[u]]
    BY <2>1, TimerStays, RunningIs, LeftNext DEF SeenAt
  <2>3. QED
    BY <1>1, <1>2, <1>3, <2>2 DEF Abstract!Fire, Abstract!Remove, Fired
<1>4. CASE ~ m_timers[t].isoneshot
  <2>1. /\ DOMAIN m_timers' = DOMAIN m_timers
        /\ \A u \in DOMAIN m_timers \ {t} : m_timers'[u] = m_timers[u]
        /\ m_timers'[t].dt = m_timers[t].dt
        /\ m_timers'[t].isoneshot = m_timers[t].isoneshot
        /\ Left(m_timers[t])' = Left(m_timers[t]) + m_timers[t].dt
    BY <1>4, NextPeriod
  <2>2. Running' = [Running EXCEPT ![t].left = @ + Running[t].dt]
    BY <1>2, <2>1, TimerStays, RunningIs, LeftNext DEF SeenAt
  <2>3. QED
    BY <1>1, <1>2, <1>4, <2>2 DEF Abstract!Fire, Fired
<1>5. QED
  BY <1>3, <1>4

LEMMA FireTimersRefines ==
    ASSUME IInv, UNCHANGED <<now, lag>>, fireTimers
    PROVE  Abstract!Quiet \/ \E t \in Timers : Abstract!Fire(t)
<1>1. CASE DueTimers = {}
  <2>1. m_timers' = m_timers /\ fired' = NoTimer
    BY <1>1 DEF fireTimers, NothingFired
  <2>2. QED
    BY <2>1, RunningStays DEF Abstract!Quiet
<1>2. CASE DueTimers # {}
  <2>1. Fired(Min(DueTimers))
    BY <1>2 DEF fireTimers
  <2>2. QED
    BY <1>2, <2>1, FirstDue, FiredRefines
<1>3. QED
  BY <1>1, <1>2

LEMMA NextRefines == IInv /\ [Next]_vars => [Abstract!Next]_(Abstract!vars)
<1> SUFFICES ASSUME IInv, [Next]_vars PROVE [Abstract!Next]_(Abstract!vars)
  OBVIOUS
<1>1. CASE Tick
  BY <1>1, TickRefines DEF Abstract!Next
<1>2. CASE AlarmFired
  <2>1. Running' = Running /\ fired' = NoTimer
    BY <1>2, RunningStays DEF AlarmFired
  <2>2. QED
    BY <2>1 DEF Abstract!Next, Abstract!Quiet
<1>3. ASSUME NEW t \in Timers, NEW back \in Backs, NEW dt \in Delays,
             NEW isoneshot, Start(t, back, dt, isoneshot)
      PROVE  Abstract!Next
  <2>1. Abstract!Started(t)
    BY <1>3, StartRefines
  <2>2. QED
    BY <2>1 DEF Abstract!Next
<1>4. ASSUME NEW t \in Timers, Stop(t)
      PROVE  Abstract!Next
  BY <1>4, StopRefines DEF Abstract!Next
<1>5. CASE TimerFromFired
  BY <1>5, FireTimersRefines DEF TimerFromFired, Abstract!Next
<1>6. CASE updateFromTimer
  <2>1. CASE SetAlarm(min_remaining)
    <3>1. Running' = Running /\ fired' = NoTimer
      BY <1>6, <2>1, RunningStays DEF updateFromTimer, NothingFired
    <3>2. QED
      BY <3>1 DEF Abstract!Next, Abstract!Quiet
  <2>2. CASE ~ SetAlarm(min_remaining)
    BY <1>6, <2>2, FireTimersRefines DEF updateFromTimer, Abstract!Next
  <2>3. QED
    BY <2>1, <2>2
<1>7. CASE UNCHANGED vars
  <2>1. Running' = Running /\ fired' = fired
    BY <1>7, RunningStays DEF vars
  <2>2. QED
    BY <2>1 DEF Abstract!vars
<1>8. QED
  BY <1>1, <1>2, <1>3, <1>4, <1>5, <1>6, <1>7 DEF Next, Calls

(***************************************************************************)
(* The timers keep their promise: none fires early or after it was         *)
(* stopped, none is later than the tasks ahead of it make it, and a        *)
(* periodic one that is late catches up (fireTimers, updateFromTimer),     *)
(* however the clock wraps.  This is the safety part of                    *)
(* ImplementsTimerService.                                                 *)
(***************************************************************************)
THEOREM IsTimerService == Spec => Abstract!Spec
<1>1. Init => Abstract!Init
  BY RunningIs DEF Init, Abstract!Init
<1>2. QED
  BY <1>1, NextRefines, Invariance, PTL DEF Spec, Abstract!Spec
=============================================================================
