-------------------------- MODULE VirtualizeTimerC --------------------------
(***************************************************************************)
(* Many timers over one, tos/lib/timer/VirtualizeTimerC.nc, which is an    *)
(* alarm whose interrupt posts a task (AlarmToTimerC.nc).  The clock       *)
(* counts modulo Wrap, and the code computes with the differences.         *)
(*                                                                         *)
(* A task reads the clock once, so that a tick while it runs is as one     *)
(* after it.  A client's call in a fired event is as one right after it:   *)
(* fireTimers does nothing then but post updateFromTimer, as a start does. *)
(* The fields of a timer that is not running are not read, and left out.   *)
(*                                                                         *)
(* The processor keeps up: MaxLag ticks after it was last idle it has run  *)
(* all tasks, those of the clients included.  Delays are below the largest *)
(* int32_t: updateFromTimer never sets the alarm for one that equals it    *)
(* (:126), and takes a longer one for a timer that is late.                *)
(***************************************************************************)
EXTENDS Integers, FiniteSetsExt, SequencesExt

CONSTANTS Timers,    \* 0..NUM_TIMERS - 1
          Wrap,      \* 2^32 in the code
          Delays,    \* the dt that clients start timers with
          Backs,     \* how long ago the t0 is that they start them at
          MaxLag

MaxInt == Wrap \div 2 - 1

ASSUME TimersAssumption == Timers \subseteq Nat
ASSUME WrapAssumption == Wrap \in Nat \ {0} /\ Wrap % 2 = 0
ASSUME LagAssumption == MaxLag \in 0..MaxInt
ASSUME DelaysAssumption == Delays \subseteq 1..MaxInt - 1
ASSUME BacksAssumption == \A b \in Backs : b \in Nat /\ b + MaxLag <= MaxInt

NoAlarm == [t0 |-> 0, dt |-> 0]

VARIABLES now,       \* the clock
          m_timers,  \* the running timers: t0, dt and isoneshot of each
          alarm,     \* the t0 and dt the alarm is set to, or NoAlarm
          tasks,     \* the posted tasks of this component and of AlarmToTimerC
          lag,       \* the ticks since the processor was idle
          fired      \* the timer whose fired event was signaled last, if in the last step

vars == <<now, m_timers, alarm, tasks, lag, fired>>

NoTimer == -1

Init ==
    /\ now = 0 /\ lag = 0
    /\ m_timers = [t \in {} |-> {}]
    /\ alarm = NoAlarm
    /\ tasks = <<>>
    /\ fired = NoTimer

\* uint32_t and int32_t
Unsigned(n) == n % Wrap
Signed(n) == IF Unsigned(n) <= MaxInt THEN Unsigned(n) ELSE Unsigned(n) - Wrap

Elapsed(timer) == Unsigned(now - timer.t0)

\* Slip: the difference is unsigned, as the delays are.
RemainingUnsigned(timer) == Unsigned(timer.dt - Elapsed(timer))

\* remaining in updateFromTimer, negative when the timer is late.
Remaining(timer) == Signed(timer.dt - Elapsed(timer))

AlarmDue == alarm # NoAlarm /\ Elapsed(alarm) >= alarm.dt

Idle == tasks = <<>> /\ ~ AlarmDue

-----------------------------------------------------------------------------
Tick ==
    /\ Idle \/ lag < MaxLag
    /\ now' = Unsigned(now + 1)
    /\ lag' = IF Idle THEN 0 ELSE lag + 1
    /\ fired' = NoTimer
    /\ UNCHANGED <<m_timers, alarm, tasks>>

\* The interrupt of the alarm: Alarm.fired of AlarmToTimerC.
AlarmFired ==
    /\ AlarmDue
    /\ alarm' = NoAlarm
    /\ fired' = NoTimer
    /\ tasks' = IF Contains(tasks, "fired") THEN tasks ELSE Append(tasks, "fired")
    /\ UNCHANGED <<now, m_timers, lag>>

\* post updateFromTimer, by a task that leaves the tasks in rest.
Posted(rest) ==
    IF Contains(rest, "updateFromTimer") THEN rest ELSE Append(rest, "updateFromTimer")

-----------------------------------------------------------------------------
(* The clients' calls: Timer.startPeriodicAt and startOneShotAt, with t0   *)
(* the time now in startPeriodic and startOneShot.                         *)

CanCall == Idle \/ lag < MaxLag

Start(t, back, dt, isoneshot) ==
    /\ CanCall
    /\ fired' = NoTimer
    /\ m_timers' = [u \in DOMAIN m_timers \cup {t} |->
                       IF u = t
                       THEN [t0 |-> Unsigned(now - back), dt |-> dt, isoneshot |-> isoneshot]
                       ELSE m_timers[u]]
    /\ tasks' = Posted(tasks)
    /\ UNCHANGED <<now, alarm, lag>>

Stop(t) ==
    /\ CanCall
    /\ fired' = NoTimer
    /\ m_timers' = [u \in DOMAIN m_timers \ {t} |-> m_timers[u]]
    /\ UNCHANGED <<now, alarm, tasks, lag>>

-----------------------------------------------------------------------------
DueTimers == {t \in DOMAIN m_timers : Elapsed(m_timers[t]) >= m_timers[t].dt}

\* Slip: the next period begins when the timer is served.
FiredFromNow(t) ==
    /\ m_timers' = IF m_timers[t].isoneshot
                   THEN [u \in DOMAIN m_timers \ {t} |-> m_timers[u]]
                   ELSE [m_timers EXCEPT ![t].t0 = now]
    /\ fired' = t

\* Timer.fired of t
Fired(t) ==
    /\ m_timers' = IF m_timers[t].isoneshot
                   THEN [u \in DOMAIN m_timers \ {t} |-> m_timers[u]]
                   ELSE [m_timers EXCEPT ![t].t0 = Unsigned(@ + m_timers[t].dt)]
    /\ fired' = t

NothingFired == fired' = NoTimer /\ UNCHANGED m_timers

\* fireTimers stops after the first timer that is due (:93).
fireTimers ==
    /\ IF DueTimers = {} THEN NothingFired ELSE Fired(Min(DueTimers))
    /\ tasks' = Posted(Tail(tasks))

\* TimerFrom.fired, the task fired of AlarmToTimerC.
TimerFromFired ==
    /\ tasks # <<>> /\ Head(tasks) = "fired"
    /\ fireTimers
    /\ UNCHANGED <<now, alarm, lag>>

min_remaining == Min({MaxInt} \cup {Remaining(m_timers[t]) : t \in DOMAIN m_timers})

\* Slip: a timer with nothing left is not late yet.
SetAlarmBeforeLate(remaining) == remaining >= 0

\* The test in updateFromTimer for what it does with the alarm.
SetAlarm(remaining) == remaining > 0

updateFromTimer ==
    /\ tasks # <<>> /\ Head(tasks) = "updateFromTimer"
    /\ IF SetAlarm(min_remaining)
       THEN /\ alarm' = IF min_remaining = MaxInt THEN NoAlarm
                        ELSE [t0 |-> now, dt |-> min_remaining]
            /\ tasks' = Tail(tasks)
            /\ NothingFired
       ELSE alarm' = NoAlarm /\ fireTimers
    /\ UNCHANGED <<now, lag>>

-----------------------------------------------------------------------------
Calls ==
    \E t \in Timers :
        \/ \E back \in Backs, dt \in Delays, isoneshot \in BOOLEAN :
              Start(t, back, dt, isoneshot)
        \/ Stop(t)

Next == Tick \/ AlarmFired \/ TimerFromFired \/ updateFromTimer \/ Calls

Spec == Init /\ [][Next]_vars

\* Time goes on, the alarm interrupts and tasks run.
FairSpec ==
    Spec /\ WF_vars(Tick) /\ WF_vars(AlarmFired)
         /\ WF_vars(TimerFromFired) /\ WF_vars(updateFromTimer)

-----------------------------------------------------------------------------
\* The ticks until a timer, or the alarm, is due, negative when it is late.
Left(timer) == Signed(timer.dt - Elapsed(timer))

\* The variables have their types.
TypeOK ==
    /\ now \in 0..Wrap - 1 /\ lag \in 0..MaxLag
    /\ DOMAIN m_timers \subseteq Timers
    /\ \A t \in DOMAIN m_timers :
          m_timers[t] \in [t0 : 0..Wrap - 1, dt : Delays, isoneshot : BOOLEAN]
    /\ alarm = NoAlarm \/ alarm \in [t0 : 0..Wrap - 1, dt : 1..MaxInt - 1]
    /\ tasks \in Seq({"fired", "updateFromTimer"}) /\ IsInjective(tasks)
    /\ fired \in Timers \cup {NoTimer}

\* Whenever no task is to look at the timers, the alarm is set, and no later than for
\* the timer with the least time left: whichever timers were started, stopped or
\* restarted in between, by tasks that ran in whatever order before updateFromTimer,
\* and however far the clock has wrapped.
AlarmInTime ==
    tasks = <<>> =>
        \A t \in DOMAIN m_timers :
            /\ alarm # NoAlarm
            /\ Left(alarm) <= Left(m_timers[t])

(***************************************************************************)
(* The timers keep their promise, though they share one that fires late    *)
(* and a clock that wraps: none fires early or after it was stopped, none  *)
(* is later than the tasks ahead of it make it, a periodic one that is     *)
(* late catches up, and the break at :93 starves nobody.                   *)
(***************************************************************************)
MaxLate == Max(Backs \cup {0}) + MaxLag

Running ==
    [t \in DOMAIN m_timers |->
        [left |-> Left(m_timers[t]), dt |-> m_timers[t].dt,
         isoneshot |-> m_timers[t].isoneshot]]

Abstract == INSTANCE TimerService WITH running <- Running

ImplementsTimerService == Abstract!FairSpec
=============================================================================
