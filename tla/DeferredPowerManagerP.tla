----------------------- MODULE DeferredPowerManagerP -----------------------
(***************************************************************************)
(* The power manager tos/lib/power/DeferredPowerManagerP.nc: it powers the *)
(* device down when nobody has requested it for a while, with StdControl   *)
(* or SplitControl as in PowerManagerP.  Time is left out: a timer that    *)
(* runs may fire whenever the processor is free for its event.             *)
(*                                                                         *)
(* TimerMilli.fired is one atomic section.  With StdControl the whole of   *)
(* stopDone is inside it, and finds requested FALSE, as only a request     *)
(* that sees stopping TRUE sets it.                                        *)
(***************************************************************************)
EXTENDS ManagedArbiter

VARIABLES stopping, requested,   \* as in PowerManagerP
          stopTimer,             \* the device is wanted; a late firing is ignored
          timer                  \* TimerMilli runs

managerVars == <<stopping, requested, stopTimer, timer>>
vars == <<managedVars, managerVars>>

Init ==
    /\ ManagedInit
    /\ build.manager = "DeferredPowerManagerP"
    /\ stopping = FALSE
    /\ requested = FALSE
    /\ stopTimer = FALSE
    /\ timer = FALSE

-----------------------------------------------------------------------------
\* Slip: requested leaves the timer to startTask.
RequestedLate(ctx) ==
    /\ At(ctx, "requested")
    /\ \/ stopping = FALSE /\ PostTask("startTask") /\ UNCHANGED requested
       \/ stopping = TRUE /\ requested' = TRUE /\ UNCHANGED tasks
    /\ Return(ctx)
    /\ UNCHANGED <<queueVars, arbiterVars, running, clientVars, power,
                   stopping, stopTimer, timer>>

\* ResourceDefaultOwner.requested.
Requested(ctx) ==
    /\ At(ctx, "requested")
    /\ \/ /\ stopping = FALSE
          /\ stopTimer' = TRUE
          /\ PostTask("startTask")
          /\ UNCHANGED requested
       \/ /\ stopping = TRUE
          /\ requested' = TRUE
          /\ UNCHANGED <<tasks, stopTimer>>
    /\ Return(ctx)
    /\ UNCHANGED <<queueVars, arbiterVars, running, clientVars, power,
                   stopping, timer>>

\* Slip: startTask does not stop the timer.
StartTaskTimerRuns ==
    /\ InTask("startTask")
    /\ stopTimer' = FALSE
    /\ \/ SplitStart /\ power # "on" /\ EndTask
       \/ /\ \/ ~ Split /\ power' = "on"
             \/ Split /\ power = "on" /\ UNCHANGED power
          /\ call' = [call EXCEPT !["main"] = Frame("startDone", NO_RES)]
          /\ UNCHANGED running
    /\ UNCHANGED <<queueVars, arbiterVars, tasks, clientVars, stopping, requested, timer>>

\* Slip: startTask does not clear stopTimer.
StartTaskKeepsFlag ==
    /\ InTask("startTask")
    /\ timer' = FALSE
    /\ \/ SplitStart /\ power # "on" /\ EndTask
       \/ /\ \/ ~ Split /\ power' = "on"
             \/ Split /\ power = "on" /\ UNCHANGED power
          /\ call' = [call EXCEPT !["main"] = Frame("startDone", NO_RES)]
          /\ UNCHANGED running
    /\ UNCHANGED <<queueVars, arbiterVars, tasks, clientVars, stopping, requested, stopTimer>>

\* startTask: the device starts, or it is on still and is released at once.
StartTask ==
    /\ InTask("startTask")
    /\ timer' = FALSE
    /\ stopTimer' = FALSE
    /\ \/ SplitStart /\ power # "on" /\ EndTask
       \/ /\ \/ ~ Split /\ power' = "on"
             \/ Split /\ power = "on" /\ UNCHANGED power
          /\ call' = [call EXCEPT !["main"] = Frame("startDone", NO_RES)]
          /\ UNCHANGED running
    /\ UNCHANGED <<queueVars, arbiterVars, tasks, clientVars, stopping, requested>>

\* SplitControl.startDone, and the release of a device that was on.
StartDone ==
    /\ At("main", "startDone")
    /\ DefaultOwnerRelease
    /\ EndTask
    /\ UNCHANGED <<queueVars, clientVars, power, managerVars>>

-----------------------------------------------------------------------------
\* Resource.release, with ResourceDefaultOwner.granted in its atomic section.
Release(ctx, c) ==
    /\ \/ ReleaseToNext(ctx, c)
       \/ ReleaseToDefault(ctx, c) /\ PostTask("timerTask")
    /\ UNCHANGED <<power, managerVars>>

TimerTask ==
    /\ InTask("timerTask")
    /\ timer' = TRUE
    /\ EndTask
    /\ UNCHANGED <<queueVars, arbiterVars, tasks, clientVars, power,
                   stopping, requested, stopTimer>>

\* TimerMilli.fired; SplitControl.stop of a device that is off, as it failed to
\* start, returns EALREADY, and stopDone is signaled in the atomic section.
Fired ==
    /\ CanCall("main") /\ timer
    /\ timer' = FALSE
    /\ \/ stopTimer = TRUE /\ UNCHANGED <<power, stopping>>
       \/ /\ stopTimer = FALSE
          /\ \/ ~ Split /\ power' = "off" /\ UNCHANGED stopping
             \/ SplitStop /\ power # "off" /\ stopping' = TRUE
             \/ Split /\ power = "off" /\ UNCHANGED <<power, stopping>>
    /\ UNCHANGED <<queueVars, arbiterVars, taskVars, call, clientVars,
                   requested, stopTimer>>

\* SplitControl.stopDone reads requested, ...
StopDone ==
    /\ At("main", "stopDone")
    /\ GoTo("main", IF requested THEN "restart" ELSE "clear")
    /\ UNCHANGED <<queueVars, arbiterVars, taskVars, clientVars, power, managerVars>>

\* ... starts the device for a request that came in the meantime, ...
Restart ==
    /\ At("main", "restart")
    /\ SplitStart
    /\ GoTo("main", "clear")
    /\ UNCHANGED <<queueVars, arbiterVars, taskVars, clientVars, managerVars>>

\* ... and clears both flags, in an atomic section of its own.
Clear ==
    /\ At("main", "clear")
    /\ requested' = FALSE
    /\ stopping' = FALSE
    /\ EndTask
    /\ UNCHANGED <<queueVars, arbiterVars, tasks, clientVars, power,
                   stopTimer, timer>>

-----------------------------------------------------------------------------
\* What goes on in a context by itself, once begun.
Continue(ctx) ==
    \/ Requested(ctx)
    \/ IgnoreImmediateRequested(ctx) /\ UNCHANGED managerVars
    \/ FinishAsking(ctx) /\ UNCHANGED <<power, managerVars>>

TaskStep ==
    \/ Grant /\ UNCHANGED <<power, managerVars>>
    \/ StartTask \/ StartDone \/ TimerTask
    \/ StopDone \/ Restart \/ Clear

StartNextTask == RunNextTask /\ UNCHANGED <<power, managerVars>>
Device == (DeviceStarted \/ DeviceStopped) /\ UNCHANGED managerVars

Next ==
    \/ \E ctx \in Contexts :
          \/ AskManaged(ctx) /\ UNCHANGED managerVars
          \/ Continue(ctx)
          \/ \E c \in Clients : Release(ctx, c)
    \/ StartNextTask \/ TaskStep
    \/ Fired \/ Device

Spec == Init /\ [][Next /\ UNCHANGED build]_vars

-----------------------------------------------------------------------------
ManagerFrames == {"startDone", "stopDone", "restart", "clear"}

TypeOK ==
    /\ SharedTypeOK
    /\ call \in [Contexts -> [at : Frames \cup ManagerFrames \cup {"none"},
                              id : Clients \cup {NO_RES}]]
    /\ power \in Powers
    /\ stopping \in BOOLEAN /\ requested \in BOOLEAN
    /\ stopTimer \in BOOLEAN /\ timer \in BOOLEAN
=============================================================================
