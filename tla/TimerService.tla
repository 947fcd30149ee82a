---------------------------- MODULE TimerService ----------------------------
(***************************************************************************)
(* What timers promise (Timer.nc, TEP 102): each fires when its time has   *)
(* come and never before, none that is stopped fires, and a periodic one   *)
(* keeps its period even when it fires late.  A running timer is known     *)
(* by the ticks that are left, which go below zero while it is late.       *)
(***************************************************************************)
EXTENDS Integers

CONSTANTS Timers,
          MaxLate   \* the ticks a timer may be late

CONSTANT NoTimer    \* not one of Timers

VARIABLES running,  \* the running timers: the ticks left, the delay, the kind
          fired     \* the timer whose fired event was the last step, or NoTimer

vars == <<running, fired>>

Remove(t) == [u \in DOMAIN running \ {t} |-> running[u]]
Put(t, timer) ==
    [u \in DOMAIN running \cup {t} |-> IF u = t THEN timer ELSE running[u]]

Init == running = [t \in {} |-> {}] /\ fired = NoTimer

Start(t, left, dt, isoneshot) ==
    /\ left <= dt
    /\ running' = Put(t, [left |-> left, dt |-> dt, isoneshot |-> isoneshot])
    /\ fired' = NoTimer

Stop(t) == running' = Remove(t) /\ fired' = NoTimer

Fire(t) ==
    /\ t \in DOMAIN running /\ running[t].left <= 0
    /\ running' = IF running[t].isoneshot THEN Remove(t)
                  ELSE [running EXCEPT ![t].left = @ + running[t].dt]
    /\ fired' = t

Tick ==
    /\ \A t \in DOMAIN running : running[t].left > - MaxLate
    /\ running' = [t \in DOMAIN running |-> [running[t] EXCEPT !.left = @ - 1]]
    /\ fired' = NoTimer

\* The fired event is over.
Quiet == fired' = NoTimer /\ UNCHANGED running

\* Some start that explains the step: a step that is one leaves t a timer to read it from.
Started(t) ==
    /\ t \in DOMAIN running'
    /\ Start(t, running'[t].left, running'[t].dt, running'[t].isoneshot)

Next == Tick \/ Quiet \/ \E t \in Timers : Started(t) \/ Stop(t) \/ Fire(t)

Spec == Init /\ [][Next]_vars

\* A timer that is due fires.
FairSpec == Spec /\ \A t \in Timers : WF_vars(Fire(t))
=============================================================================
