----------------------------- MODULE TOSThreads -----------------------------
(***************************************************************************)
(* Application threads over the thread scheduler: mutexes (MutexP),        *)
(* condition variables (ConditionVariableP), barriers (BarrierP), joins,   *)
(* blocking system calls (SystemCallP), preemption, and the task loop of   *)
(* the TinyOS thread (SchedulerBasicP of tosthreads).                      *)
(*                                                                         *)
(* A thread calls what it likes between two steps of its own; interrupts   *)
(* come then, and not in a call, as each is one atomic section.  Where a   *)
(* call suspends the thread, pc says what it does when it runs again; that *)
(* too is before interrupts are enabled.                                   *)
(*                                                                         *)
(* Threads keep these rules: a thread locks the mutex only when it is not  *)
(* in it, and unlocks it or waits for the condition only when it is; a     *)
(* barrier is reset when nobody blocks on it; a thread is started only     *)
(* when it is inactive, as Thread.start resets the record of a thread it   *)
(* finds running (StaticThreadP:51-71); and those that others may stop     *)
(* lock a mutex only when it is free.                                      *)
(***************************************************************************)
EXTENDS TinyThreadSchedulerP

CONSTANTS Code,          \* Code[t]: the calls thread t makes
          Stoppable,     \* the threads that others may stop
          BarrierSize,   \* the count a barrier is reset to
          CountModulus   \* mutex_count is a byte: 256 in the code

Calls == {"lock", "wait", "signal", "signalAll", "block", "reset", "join",
          "systemCall", "waitOnEvent", "start", "stop"}

ASSUME CodeAssumption == Code \in [Threads -> SUBSET Calls]
ASSUME StoppableAssumption == Stoppable \subseteq Threads
ASSUME BarrierAssumption == BarrierSize \in 1..255
ASSUME CountAssumption == CountModulus \in Nat \ {0, 1}

VARIABLES
    sched,                  \* the scheduler
    alarm, hardware,        \* PreemptionAlarm is set; so is the hardware timer for it
    tasks,                  \* the posted tasks
    current_call, started,  \* SystemCallP; the threads whose call is under way
    joinedOnMe,             \* joinedOnMe[t]: the threads that wait for t to end
    mutex, mutex_count,     \* a mutex; for each thread the number it holds
    condvar,                \* the threads that wait for the condition
    barrier,
    pc,                     \* what each thread does when it runs
    inside                  \* the threads whose lock returned, and did not unlock

syncVars == <<mutex, mutex_count, condvar, barrier, inside>>
callVars == <<current_call, started, joinedOnMe>>
vars == <<sched, alarm, hardware, tasks, callVars, syncVars, pc>>

Tasks == {"threadTask", "updateFromTimer", "alarmFired", "event"}
Nobody == TOS

Scheduler == INSTANCE TaskQueue WITH queue <- tasks, running <- Nobody, NoTask <- Nobody
PostTask(t) == Scheduler!LineUp(t) \/ (Scheduler!IsQueued(t) /\ UNCHANGED tasks)

Init ==
    /\ sched = Booted
    /\ alarm = FALSE /\ hardware = FALSE
    /\ tasks = <<>>
    /\ current_call = Nobody /\ started = {}
    /\ joinedOnMe = [t \in Threads |-> {}]
    /\ mutex = [lock |-> FALSE, queue |-> <<>>]
    /\ mutex_count = [t \in Threads |-> 0]
    /\ condvar = <<>>
    /\ barrier = [count |-> BarrierSize, queue |-> <<>>]
    /\ pc = [t \in Threads |-> "user"]
    /\ inside = {}

\* The code of thread t runs, between two calls, and may make this one.
Runs(t) == sched.current = t /\ ~ Asleep(sched) /\ pc[t] = "user"
MayCall(t, call) == Runs(t) /\ call \in Code[t]

TosRuns == sched.current = TOS /\ ~ Asleep(sched)

Goes(t, at) == pc' = [pc EXCEPT ![t] = at]

-----------------------------------------------------------------------------
\* Slip: unlock frees the mutex, though it has handed it over.
UnlockedMutexFree ==
    [lock |-> FALSE, queue |-> IF mutex.queue = <<>> THEN <<>> ELSE Tail(mutex.queue)]

\* Mutex.unlock hands the mutex to the thread that waits longest, and wakes it up.
UnlockedMutex ==
    IF mutex.queue = <<>> THEN [mutex EXCEPT !.lock = FALSE]
    ELSE [mutex EXCEPT !.queue = Tail(@)]

HandedOver(s) == IF mutex.queue = <<>> THEN s ELSE WakeUp(s, Head(mutex.queue))

UnlockMutex(t) ==
    /\ mutex' = UnlockedMutex
    /\ mutex_count' = [mutex_count EXCEPT ![t] = (@ + CountModulus - 1) % CountModulus]
    /\ inside' = inside \ {t}

\* The two outcomes of Mutex.lock.
TakeFreeMutex(t) ==
    /\ ~ mutex.lock
    /\ mutex' = [mutex EXCEPT !.lock = TRUE]
    /\ mutex_count' = [mutex_count EXCEPT ![t] = (@ + 1) % CountModulus]
    /\ inside' = inside \cup {t}
    /\ Goes(t, "user")
    /\ UNCHANGED sched

WaitForMutex(t) ==
    /\ mutex.lock
    /\ mutex' = [mutex EXCEPT !.queue = Append(@, t)]
    /\ sched' = Suspend(sched)
    /\ Goes(t, "locking")
    /\ UNCHANGED <<mutex_count, inside>>

LockMutex(t) == TakeFreeMutex(t) \/ WaitForMutex(t)

otherThanMutex == <<alarm, hardware, tasks, callVars, condvar, barrier>>

Lock(t) ==
    /\ MayCall(t, "lock") /\ t \notin inside
    /\ t \in Stoppable => ~ mutex.lock
    /\ LockMutex(t)
    /\ UNCHANGED otherThanMutex

Unlock(t) ==
    /\ Runs(t) /\ t \in inside
    /\ UnlockMutex(t)
    /\ sched' = HandedOver(sched)
    /\ UNCHANGED <<otherThanMutex, pc>>

\* The thread the mutex was handed to returns from lock, or from wait.
LockReturns(t) ==
    /\ sched.current = t /\ ~ Asleep(sched) /\ pc[t] = "locking"
    /\ inside' = inside \cup {t}
    /\ Goes(t, "user")
    /\ UNCHANGED <<otherThanMutex, sched, mutex, mutex_count>>

-----------------------------------------------------------------------------
\* ConditionVariable.wait, up to where the thread is suspended.
Wait(t) ==
    /\ MayCall(t, "wait") /\ t \in inside \ Stoppable
    /\ condvar' = Append(condvar, t)
    /\ UnlockMutex(t)
    /\ sched' = Suspend(HandedOver(sched))
    /\ Goes(t, "waiting")
    /\ UNCHANGED <<alarm, hardware, tasks, callVars, barrier>>

\* The rest of wait: the thread locks the mutex, and may wait again.
WaitRelocks(t) ==
    /\ sched.current = t /\ ~ Asleep(sched) /\ pc[t] = "waiting"
    /\ LockMutex(t)
    /\ UNCHANGED otherThanMutex

SignalNext(t) ==
    /\ MayCall(t, "signal") /\ condvar # <<>>
    /\ condvar' = Tail(condvar)
    /\ sched' = WakeUp(sched, Head(condvar))
    /\ UNCHANGED <<alarm, hardware, tasks, callVars, mutex, mutex_count, barrier, inside, pc>>

SignalAll(t) ==
    /\ MayCall(t, "signalAll") /\ condvar # <<>>
    /\ condvar' = <<>>
    /\ sched' = WakeUpAll(sched, condvar)
    /\ UNCHANGED <<alarm, hardware, tasks, callVars, mutex, mutex_count, barrier, inside, pc>>

-----------------------------------------------------------------------------
otherThanBarrier ==
    <<alarm, hardware, tasks, callVars, mutex, mutex_count, condvar, inside>>

\* Slip: the last thread blocks too.
BlockAtBarrierLast(t) ==
    /\ MayCall(t, "block") /\ barrier.count > 0
    /\ barrier' = [count |-> barrier.count - 1, queue |-> Append(barrier.queue, t)]
    /\ sched' = Suspend(sched)
    /\ Goes(t, "blocked")
    /\ UNCHANGED otherThanBarrier

\* Barrier.block of a thread that is not the last one, and of one that is.
BlockAtBarrier(t) ==
    /\ MayCall(t, "block") /\ barrier.count > 1
    /\ barrier' = [count |-> barrier.count - 1, queue |-> Append(barrier.queue, t)]
    /\ sched' = Suspend(sched)
    /\ Goes(t, "blocked")
    /\ UNCHANGED otherThanBarrier

OpenBarrier(t) ==
    /\ MayCall(t, "block") /\ barrier.count <= 1
    /\ barrier' = [barrier EXCEPT !.queue = <<>>]
    /\ sched' = WakeUpAll(sched, barrier.queue)
    /\ UNCHANGED <<otherThanBarrier, pc>>

ResetBarrier(t) ==
    /\ MayCall(t, "reset") /\ barrier.queue = <<>>
    /\ barrier' = [count |-> BarrierSize, queue |-> <<>>]
    /\ UNCHANGED <<otherThanBarrier, sched, pc>>

-----------------------------------------------------------------------------
\* PreemptionAlarm.startOneShot posts the task of the virtualized timer that sets
\* the hardware; stop only clears a flag (VirtualizeTimerC:144-167).
SetAlarm == alarm' = TRUE /\ PostTask("updateFromTimer")

\* Slip: the alarm is stopped for every thread that ends.
AlarmAfterStopAlways == alarm' = FALSE

\* The alarm after the number of threads went down.
AlarmAfterStop == alarm' = (alarm /\ sched'.num_runnable_threads # 1)

\* Thread.start, by a thread or by TinyOS.
StartThread(t) ==
    /\ TosRuns \/ \E u \in Threads : MayCall(u, "start")
    /\ sched.state[t] = "INACTIVE"
    /\ sched' = Start(sched, t)
    /\ IF sched'.num_runnable_threads = 2 THEN SetAlarm ELSE UNCHANGED <<alarm, tasks>>
    /\ mutex_count' = [mutex_count EXCEPT ![t] = 0]
    /\ joinedOnMe' = [joinedOnMe EXCEPT ![t] = {}]
    /\ Goes(t, "user")
    /\ UNCHANGED <<hardware, current_call, started, mutex, condvar, barrier, inside>>

\* Thread.stop of a thread that is ready and holds no mutex; of any other it fails.
StopThread(t) ==
    /\ TosRuns \/ \E u \in Threads : MayCall(u, "stop")
    /\ t \in Stoppable
    /\ sched.state[t] = "READY" /\ mutex_count[t] = 0
    /\ sched' = StopReady(sched, t, joinedOnMe[t])
    /\ AlarmAfterStop
    /\ joinedOnMe' = [joinedOnMe EXCEPT ![t] = {}]
    /\ Goes(t, "user")
    /\ UNCHANGED <<hardware, tasks, current_call, started, syncVars>>

\* The thread's function returns.
ThreadEnds(t) ==
    /\ Runs(t) /\ t \notin inside
    /\ sched' = End(sched, joinedOnMe[t])
    /\ AlarmAfterStop
    /\ joinedOnMe' = [joinedOnMe EXCEPT ![t] = {}]
    /\ UNCHANGED <<hardware, tasks, current_call, started, syncVars, pc>>

Join(t, u) ==
    /\ MayCall(t, "join")
    /\ sched.state[u] # "INACTIVE"
    /\ joinedOnMe' = [joinedOnMe EXCEPT ![u] = @ \cup {t}]
    /\ sched' = Suspend(sched)
    /\ Goes(t, "joining")
    /\ UNCHANGED <<alarm, hardware, tasks, current_call, started, syncVars>>

-----------------------------------------------------------------------------
\* SystemCall.start: the TinyOS thread is to perform the call.
SystemCall(t) ==
    /\ MayCall(t, "systemCall")
    /\ current_call' = t
    /\ PostTask("threadTask")
    /\ sched' = Suspend(WakeUp(sched, TOS))
    /\ Goes(t, "calling")
    /\ UNCHANGED <<alarm, hardware, started, joinedOnMe, syncVars>>

\* SystemCall.start with SYSCALL_WAIT_ON_EVENT: nothing is to be performed.
WaitOnEvent(t) ==
    /\ MayCall(t, "waitOnEvent")
    /\ current_call' = t
    /\ started' = started \cup {t}
    /\ sched' = Suspend(sched)
    /\ Goes(t, "calling")
    /\ UNCHANGED <<alarm, hardware, tasks, joinedOnMe, syncVars>>

\* A join, a barrier or a system call returns.
Returns(t) ==
    /\ sched.current = t /\ ~ Asleep(sched)
    /\ pc[t] \in {"joining", "blocked", "calling"}
    /\ Goes(t, "user")
    /\ UNCHANGED <<sched, alarm, hardware, tasks, callVars, syncVars>>

-----------------------------------------------------------------------------
(* The task loop of the TinyOS thread.                                     *)

NextTask(t) == TosRuns /\ tasks # <<>> /\ Head(tasks) = t

\* threadTask performs the call of current_call: an event is going to finish it.
ThreadTask ==
    /\ NextTask("threadTask")
    /\ tasks' = Tail(tasks)
    /\ started' = started \cup {current_call}
    /\ UNCHANGED <<sched, alarm, hardware, current_call, joinedOnMe, syncVars, pc>>

\* An event that a call of t waits for: SystemCall.finish.
Event(t) ==
    /\ NextTask("event")
    /\ t \in started
    /\ tasks' = Tail(tasks)
    /\ started' = started \ {t}
    /\ sched' = WakeUp(sched, t)
    /\ UNCHANGED <<alarm, hardware, current_call, joinedOnMe, syncVars, pc>>

UpdateFromTimer ==
    /\ NextTask("updateFromTimer")
    /\ tasks' = Tail(tasks)
    /\ hardware' = alarm
    /\ UNCHANGED <<sched, alarm, callVars, syncVars, pc>>

\* The hardware timer has fired.  PreemptionAlarm.fired sets the alarm again; it
\* interrupts the TinyOS thread, which is scheduled first.
AlarmFired ==
    /\ NextTask("alarmFired")
    /\ LET rest == Tail(tasks)
       IN  tasks' = IF Contains(rest, "updateFromTimer") THEN rest
                    ELSE Append(rest, "updateFromTimer")
    /\ sched' = IF alarm /\ sched.ready # <<>> THEN Interrupt(sched) ELSE sched
    /\ UNCHANGED <<alarm, hardware, callVars, syncVars, pc>>

TosSuspends ==
    /\ TosRuns /\ tasks = <<>>
    /\ sched' = Suspend(sched)
    /\ UNCHANGED <<alarm, hardware, tasks, callVars, syncVars, pc>>

-----------------------------------------------------------------------------
(* Interrupts: between two steps of a thread, of TinyOS, or in the sleep.  *)

Interruptible == Asleep(sched) \/ TosRuns \/ \E t \in Threads : Runs(t)

\* PlatformInterrupt.postAmble: with tasks to run, TinyOS takes the processor.
PostAmble ==
    sched' = IF tasks' # <<>> /\ sched.state[TOS] = "SUSPENDED"
             THEN Interrupt(WakeUp(sched, TOS)) ELSE sched

AlarmInterrupt ==
    /\ Interruptible /\ hardware
    /\ hardware' = FALSE
    /\ PostTask("alarmFired")
    /\ PostAmble
    /\ UNCHANGED <<alarm, callVars, syncVars, pc>>

EventInterrupt ==
    /\ Interruptible /\ started # {}
    /\ PostTask("event")
    /\ PostAmble
    /\ UNCHANGED <<alarm, hardware, callVars, syncVars, pc>>

\* Any other interrupt, as that of the counter of the clock, which posts nothing.
OtherInterrupt ==
    /\ Interruptible /\ tasks # <<>>
    /\ UNCHANGED tasks
    /\ PostAmble
    /\ UNCHANGED <<alarm, hardware, callVars, syncVars, pc>>

-----------------------------------------------------------------------------
ThreadStep(t) ==
    \/ Lock(t) \/ Unlock(t)
    \/ Wait(t) \/ SignalNext(t) \/ SignalAll(t)
    \/ BlockAtBarrier(t) \/ OpenBarrier(t) \/ ResetBarrier(t)
    \/ ThreadEnds(t)
    \/ \E u \in Threads : Join(t, u)
    \/ SystemCall(t) \/ WaitOnEvent(t)

\* What a thread that was suspended does before anything else.
Resumes(t) == LockReturns(t) \/ WaitRelocks(t) \/ Returns(t)

TosStep ==
    \/ ThreadTask \/ UpdateFromTimer \/ AlarmFired \/ TosSuspends
    \/ \E t \in Threads : Event(t)

Next ==
    \/ \E t \in Threads : ThreadStep(t) \/ Resumes(t) \/ StartThread(t) \/ StopThread(t)
    \/ TosStep
    \/ AlarmInterrupt \/ EventInterrupt \/ OtherInterrupt

Spec == Init /\ [][Next]_vars

(***************************************************************************)
(* The processor goes on with what it is doing in the scheduler and in the *)
(* TinyOS thread, which keeps up with the interrupts: it gets to the end   *)
(* of its tasks again and again, and does not stay there for ever.  The    *)
(* hardware timer fires when it is set, and the counter of the clock       *)
(* interrupts again and again.  An application thread may compute for ever.*)
(***************************************************************************)
Fairness ==
    /\ \A t \in Threads : WF_vars(Resumes(t))
    /\ SF_vars(TosStep) /\ SF_vars(TosSuspends) /\ []<>(tasks = <<>>)
    /\ SF_vars(AlarmInterrupt) /\ SF_vars(OtherInterrupt)

FairSpec == Spec /\ Fairness

-----------------------------------------------------------------------------
ThreadSeqs == Seq(Threads)

\* The variables have their types.
TypeOK ==
    /\ sched.current \in Threads \cup {TOS}
    /\ sched.state \in [Threads \cup {TOS} -> States]
    /\ sched.ready \in ThreadSeqs
    /\ sched.num_runnable_threads \in 0..Cardinality(Threads)
    /\ alarm \in BOOLEAN /\ hardware \in BOOLEAN
    /\ tasks \in Seq(Tasks)
    /\ current_call \in Threads \cup {Nobody} /\ started \subseteq Threads
    /\ joinedOnMe \in [Threads -> SUBSET Threads]
    /\ mutex \in [lock : BOOLEAN, queue : ThreadSeqs]
    /\ mutex_count \in [Threads -> 0..CountModulus - 1]
    /\ condvar \in ThreadSeqs
    /\ barrier \in [count : 1..BarrierSize, queue : ThreadSeqs]
    /\ pc \in [Threads -> {"user", "locking", "waiting", "blocked", "joining", "calling"}]
    /\ inside \subseteq Threads

\* The threads unlock has handed the mutex to, and that did not run since.
HandedMutex == {t \in Threads : pc[t] = "locking" /\ ~ Contains(mutex.queue, t)}

\* One thread at a time is in the mutex or has been handed it, and the mutex is
\* locked for as long as there is one: no thread that finds it free in between can
\* take it from the one it was handed to (MutexP:72-75).
OneHolder == Cardinality(inside \cup HandedMutex) = IF mutex.lock THEN 1 ELSE 0

\* What is going to wake thread t up.
Awaited(t) ==
    \/ pc[t] = "locking" /\ Contains(mutex.queue, t) /\ mutex.lock
    \/ pc[t] = "waiting" /\ Contains(condvar, t)
    \/ pc[t] = "blocked" /\ Contains(barrier.queue, t)
    \/ pc[t] = "joining" /\ \E u \in Threads : t \in joinedOnMe[u] /\ sched.state[u] # "INACTIVE"
    \/ pc[t] = "calling" /\ (t \in started \/ (t = current_call /\ Scheduler!IsQueued("threadTask")))

\* A thread that is suspended is where somebody will find it to wake it up, one that
\* is ready is in the ready queue, and no thread is in two queues, which would share
\* the one link there is in its record (thread.h): whatever threads stop, end, are
\* started again or are woken up by several others.
NoThreadStranded ==
    /\ \A t \in Threads : sched.state[t] = "SUSPENDED" => Awaited(t)
    /\ {t \in Threads : sched.state[t] = "READY"} = Range(sched.ready)
    /\ IsInjective(sched.ready \o mutex.queue \o condvar \o barrier.queue)

\* No thread runs between a system call and the task that performs it, so that none
\* can make a call that overwrites current_call: what the comment in SystemCallP:52-61
\* builds on, and what gives TinyOS its turn before threads that are ready.
CallsOneAtATime ==
    Scheduler!IsQueued("threadTask") =>
        /\ sched.current \notin Threads
        /\ sched.state[current_call] = "SUSPENDED"

\* A thread that is ready gets to run (or is stopped), even when another computes for
\* ever: while two threads or more are runnable the preemption alarm is never off
\* for good, however many are started, end or are stopped.
ReadyThreadsRun ==
    \A t \in Threads : sched.state[t] = "READY" ~> sched.state[t] # "READY"
=============================================================================
