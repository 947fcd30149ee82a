------------------------ MODULE TinyThreadSchedulerP ------------------------
(***************************************************************************)
(* The thread scheduler of TOSThreads, tos/lib/tosthreads/system/          *)
(* TinyThreadSchedulerP.nc.  TinyOS is one of the threads, TOS: it runs    *)
(* the tasks, goes before every other thread that is ready, and suspends   *)
(* itself when the task queue is empty.                                    *)
(*                                                                         *)
(* The scheduler runs in the calls of the others, several of its commands  *)
(* in one atomic section, so it is a record here, sched, and each command  *)
(* an operator from the record before to the record after.  A thread that  *)
(* suspends with no other to switch to sleeps on its own stack: then the   *)
(* state of sched.current is not ACTIVE.  TOSTHREADS_TIMER_OPTIMIZATION is *)
(* not defined.                                                            *)
(***************************************************************************)
EXTENDS Naturals, FiniteSets, SequencesExt

CONSTANTS Threads,    \* the ids of the threads of the application
          TOS         \* that of the thread TinyOS runs in

ASSUME ThreadIds == Threads \subseteq Nat /\ IsFiniteSet(Threads) /\ TOS \in Nat \ Threads

States == {"INACTIVE", "ACTIVE", "READY", "SUSPENDED"}

\* ThreadSchedulerBoot.booted
Booted ==
    [current |-> TOS,
     state   |-> [t \in Threads \cup {TOS} |-> IF t = TOS THEN "ACTIVE" ELSE "INACTIVE"],
     ready   |-> <<>>,
     num_runnable_threads |-> 0]

With(s, t, state) == [s EXCEPT !.state[t] = state]
Enqueued(s, t) == [s EXCEPT !.ready = Append(@, t)]

Idle(s) == s.ready = <<>> /\ s.state[TOS] # "READY"
Asleep(s) == s.state[s.current] # "ACTIVE"

\* Slip: the TinyOS thread waits until no other thread is ready.
ScheduleTosLast(s) ==
    IF s.ready = <<>>
    THEN With([s EXCEPT !.current = TOS], TOS, "ACTIVE")
    ELSE With([s EXCEPT !.current = Head(s.ready), !.ready = Tail(s.ready)],
              Head(s.ready), "ACTIVE")

\* scheduleNextThread
Schedule(s) ==
    IF s.state[TOS] = "READY"
    THEN With([s EXCEPT !.current = TOS], TOS, "ACTIVE")
    ELSE With([s EXCEPT !.current = Head(s.ready), !.ready = Tail(s.ready)],
              Head(s.ready), "ACTIVE")

\* sleepWhileIdle, and then the next thread
SleepOrSchedule(s) == IF Idle(s) THEN s ELSE Schedule(s)

\* suspendCurrentThread
Suspend(s) == SleepOrSchedule(With(s, s.current, "SUSPENDED"))

\* interruptCurrentThread; a processor that sleeps leaves sleepWhileIdle instead.
Interrupt(s) ==
    IF Asleep(s) THEN SleepOrSchedule(s)
    ELSE IF s.current = TOS THEN Schedule(With(s, TOS, "READY"))
    ELSE Schedule(Enqueued(With(s, s.current, "READY"), s.current))

\* The members of S one by one, by their places.
InOrder(S, place) ==
    CHOOSE q \in [1..Cardinality(S) -> S] :
        /\ Range(q) = S
        /\ \A i, j \in DOMAIN q : i < j => place[q[i]] < place[q[j]]

\* The threads of the queue q that are in S, in the order of q.
Picked(q, S) ==
    LET threads == S \cap Range(q)
    IN  InOrder(threads, [t \in threads |-> CHOOSE i \in DOMAIN q : q[i] = t])

\* wakeupThread of each thread of the queue q, in the order of q.
WakeUpAll(s, q) ==
    LET woken == {t \in Range(q) : s.state[t] = "SUSPENDED"}
    IN  [s EXCEPT !.state = [t \in DOMAIN @ |-> IF t \in woken THEN "READY" ELSE @[t]],
                  !.ready = @ \o Picked(q, woken \ {TOS})]

WakeUp(s, t) == WakeUpAll(s, <<t>>)

\* startThread of a thread that is INACTIVE.
Start(s, t) ==
    Enqueued(With([s EXCEPT !.num_runnable_threads = @ + 1], t, "READY"), t)

\* stop: those that joined t are woken up in the order of their ids.
Stop(s, t, joined) ==
    WakeUpAll(With([s EXCEPT !.num_runnable_threads = @ - 1], t, "INACTIVE"),
              InOrder(joined, [u \in joined |-> u]))

\* Slip: the thread stays in the ready queue.
StopReadyLeft(s, t, joined) == Stop(s, t, joined)

\* stopThread, and the end of a thread (threadWrapper).
StopReady(s, t, joined) == Stop([s EXCEPT !.ready = Picked(@, Threads \ {t})], t, joined)
End(s, joined) == SleepOrSchedule(Stop(s, s.current, joined))
=============================================================================
