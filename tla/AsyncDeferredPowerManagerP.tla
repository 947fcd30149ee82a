--------------------- MODULE AsyncDeferredPowerManagerP ---------------------
(***************************************************************************)
(* The power manager tos/lib/power/AsyncDeferredPowerManagerP.nc of a      *)
(* device with AsyncStdControl, which is powered down when nobody has      *)
(* requested it for a while.  Time is left out: a timer that runs may fire *)
(* whenever the processor is free for its event.                           *)
(*                                                                         *)
(* timerTask and stopTimerTask are one step each: they touch the timer,    *)
(* which no interrupt handler does, and stopTimer once.                    *)
(***************************************************************************)
EXTENDS ManagedArbiter

VARIABLES stopTimer,   \* the device is wanted; a late firing is ignored
          timer        \* TimerMilli runs

managerVars == <<stopTimer, timer>>
vars == <<managedVars, managerVars>>

Init ==
    /\ ManagedInit
    /\ build.manager = "AsyncDeferredPowerManagerP"
    /\ stopTimer = FALSE
    /\ timer = FALSE

\* ResourceDefaultOwner.requested and immediateRequested start the device, ...
Start(ctx) ==
    /\ \/ At(ctx, "requested") /\ GoTo(ctx, "requestStarted")
       \/ At(ctx, "immediateRequested") /\ GoTo(ctx, "immediateStarted")
    /\ stopTimer' = TRUE
    /\ PostTask("stopTimerTask")
    /\ power' = "on"
    /\ UNCHANGED <<queueVars, arbiterVars, running, clientVars, timer>>

\* ... and release the resource.
Started(ctx) ==
    /\ \/ At(ctx, "requestStarted") /\ Return(ctx)
       \/ At(ctx, "immediateStarted") /\ GoTo(ctx, "immediateCheck")
    /\ DefaultOwnerRelease
    /\ UNCHANGED <<queueVars, running, clientVars, power, managerVars>>

\* Resource.release, with ResourceDefaultOwner.granted in its atomic section.
Release(ctx, c) ==
    /\ \/ ReleaseToNext(ctx, c)
       \/ ReleaseToDefault(ctx, c) /\ PostTask("timerTask")
    /\ UNCHANGED <<power, managerVars>>

StopTimerTask ==
    /\ InTask("stopTimerTask")
    /\ timer' = FALSE
    /\ stopTimer' = FALSE
    /\ EndTask
    /\ UNCHANGED <<queueVars, arbiterVars, tasks, clientVars, power>>

TimerTask ==
    /\ InTask("timerTask")
    /\ timer' = (timer \/ ~ stopTimer)
    /\ EndTask
    /\ UNCHANGED <<queueVars, arbiterVars, tasks, clientVars, power, stopTimer>>

\* TimerMilli.fired reads stopTimer, ...
Fired ==
    /\ CanCall("main") /\ timer
    /\ timer' = FALSE
    /\ call' = [call EXCEPT !["main"] =
                    IF stopTimer THEN NoCall ELSE Frame("stop", NO_RES)]
    /\ UNCHANGED <<queueVars, arbiterVars, taskVars, clientVars, power, stopTimer>>

\* ... and stops the device, without an atomic section around the two.
Stop ==
    /\ At("main", "stop")
    /\ power' = "off"
    /\ Return("main")
    /\ UNCHANGED <<queueVars, arbiterVars, taskVars, clientVars, managerVars>>

-----------------------------------------------------------------------------
\* What goes on in a context by itself, once begun.
Continue(ctx) ==
    \/ Start(ctx) \/ Started(ctx)
    \/ FinishAsking(ctx) /\ UNCHANGED <<power, managerVars>>

TaskStep ==
    \/ Grant /\ UNCHANGED <<power, managerVars>>
    \/ StopTimerTask \/ TimerTask \/ Stop

StartNextTask == RunNextTask /\ UNCHANGED <<power, managerVars>>

Next ==
    \/ \E ctx \in Contexts :
          \/ AskManaged(ctx) /\ UNCHANGED managerVars
          \/ Continue(ctx)
          \/ \E c \in Clients : Release(ctx, c)
    \/ StartNextTask \/ TaskStep
    \/ Fired

Spec == Init /\ [][Next /\ UNCHANGED build]_vars

-----------------------------------------------------------------------------
ManagerFrames == {"requestStarted", "immediateStarted", "stop"}

TypeOK ==
    /\ SharedTypeOK
    /\ call \in [Contexts -> [at : Frames \cup ManagerFrames \cup {"none"},
                              id : Clients \cup {NO_RES}]]
    /\ power \in {"off", "on"}
    /\ stopTimer \in BOOLEAN
    /\ timer \in BOOLEAN
=============================================================================
