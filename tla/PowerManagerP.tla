--------------------------- MODULE PowerManagerP ---------------------------
(***************************************************************************)
(* The power manager tos/lib/power/PowerManagerP.nc, the default owner of  *)
(* an ArbiterP: it powers the device down as soon as it is released and up *)
(* when it is requested.  The same code serves a device with SplitControl  *)
(* (SplitControlPowerManagerC) and one with StdControl, for which the      *)
(* default SplitControl commands signal startDone and stopDone at once     *)
(* (StdControlPowerManagerC).                                              *)
(***************************************************************************)
EXTENDS ManagedArbiter

VARIABLES stopping,   \* from ResourceDefaultOwner.granted to the end of stopDone
          requested   \* a request came in between

managerVars == <<stopping, requested>>
vars == <<managedVars, managerVars>>

Init ==
    /\ ManagedInit
    /\ build.manager = "PowerManagerP"
    /\ stopping = FALSE
    /\ requested = FALSE

-----------------------------------------------------------------------------
\* ResourceDefaultOwner.requested.
Requested(ctx) ==
    /\ At(ctx, "requested")
    /\ \/ stopping = FALSE /\ PostTask("startTask") /\ UNCHANGED requested
       \/ stopping = TRUE /\ requested' = TRUE /\ UNCHANGED tasks
    /\ Return(ctx)
    /\ UNCHANGED <<queueVars, arbiterVars, running, clientVars, power, stopping>>

\* Slip: the task goes on to startDone whether or not the device has started.
StartTaskEager ==
    /\ InTask("startTask")
    /\ SplitStart \/ (~ Split /\ power' = "on")
    /\ call' = [call EXCEPT !["main"] = Frame("startDone", NO_RES)]
    /\ UNCHANGED <<queueVars, arbiterVars, taskVars, clientVars, managerVars>>

\* startTask, which does not look at what SplitControl.start returns.
StartTask ==
    /\ InTask("startTask")
    /\ \/ /\ ~ Split
          /\ power' = "on"
          /\ call' = [call EXCEPT !["main"] = Frame("startDone", NO_RES)]
          /\ UNCHANGED running
       \/ SplitStart /\ EndTask
    /\ UNCHANGED <<queueVars, arbiterVars, tasks, clientVars, managerVars>>

\* SplitControl.startDone, whatever the device reports.  "If isOwner, release" is
\* one step: isOwner changes nothing, and release does nothing for another owner.
StartDone ==
    /\ At("main", "startDone")
    /\ DefaultOwnerRelease
    /\ EndTask
    /\ UNCHANGED <<queueVars, clientVars, power, managerVars>>

-----------------------------------------------------------------------------
\* Resource.release, with ResourceDefaultOwner.granted in its atomic section.
Release(ctx, c) ==
    \/ /\ ReleaseToNext(ctx, c)
       /\ UNCHANGED <<power, managerVars>>
    \/ /\ ReleaseToDefault(ctx, c)
       /\ stopping' = TRUE
       /\ PostTask("stopTask")
       /\ UNCHANGED <<power, requested>>

\* stopTask, which does not look at what SplitControl.stop returns.
StopTask ==
    /\ InTask("stopTask")
    /\ \/ /\ ~ Split
          /\ power' = "off"
          /\ call' = [call EXCEPT !["main"] = Frame("stopDone", NO_RES)]
          /\ UNCHANGED running
       \/ SplitStop /\ EndTask
    /\ UNCHANGED <<queueVars, arbiterVars, tasks, clientVars, managerVars>>

\* SplitControl.stopDone reads requested, ...
StopDone ==
    /\ At("main", "stopDone")
    /\ GoTo("main", IF requested THEN "restart" ELSE "clear")
    /\ UNCHANGED <<queueVars, arbiterVars, taskVars, clientVars, power, managerVars>>

\* ... starts the device for a request that came in the meantime, ...
Restart ==
    /\ At("main", "restart")
    /\ \/ ~ Split /\ power' = "on" /\ GoTo("main", "restarted")
       \/ SplitStart /\ GoTo("main", "clear")
    /\ UNCHANGED <<queueVars, arbiterVars, taskVars, clientVars, managerVars>>

\* (the startDone of the default SplitControl.start)
Restarted ==
    /\ At("main", "restarted")
    /\ DefaultOwnerRelease
    /\ GoTo("main", "clear")
    /\ UNCHANGED <<queueVars, running, clientVars, power, managerVars>>

\* Slip: stopDone does not clear stopping.
ClearRequested ==
    /\ At("main", "clear")
    /\ requested' = FALSE
    /\ EndTask
    /\ UNCHANGED <<queueVars, arbiterVars, tasks, clientVars, power, stopping>>

\* ... and clears both flags, in an atomic section of its own.
Clear ==
    /\ At("main", "clear")
    /\ requested' = FALSE
    /\ stopping' = FALSE
    /\ EndTask
    /\ UNCHANGED <<queueVars, arbiterVars, tasks, clientVars, power>>

-----------------------------------------------------------------------------
\* What goes on in a context by itself, once begun.
Continue(ctx) ==
    \/ Requested(ctx)
    \/ IgnoreImmediateRequested(ctx) /\ UNCHANGED managerVars
    \/ FinishAsking(ctx) /\ UNCHANGED <<power, managerVars>>

TaskStep ==
    \/ Grant /\ UNCHANGED <<power, managerVars>>
    \/ StartTask \/ StartDone
    \/ StopTask \/ StopDone \/ Restart \/ Restarted \/ Clear

StartNextTask == RunNextTask /\ UNCHANGED <<power, managerVars>>
Device == (DeviceStarted \/ DeviceStopped) /\ UNCHANGED managerVars

Next ==
    \/ \E ctx \in Contexts :
          \/ AskManaged(ctx) /\ UNCHANGED managerVars
          \/ Continue(ctx)
          \/ \E c \in Clients : Release(ctx, c)
    \/ StartNextTask \/ TaskStep
    \/ Device

Spec == Init /\ [][Next /\ UNCHANGED build]_vars

-----------------------------------------------------------------------------
ManagerFrames == {"startDone", "stopDone", "restart", "restarted", "clear"}

TypeOK ==
    /\ SharedTypeOK
    /\ call \in [Contexts -> [at : Frames \cup ManagerFrames \cup {"none"},
                              id : Clients \cup {NO_RES}]]
    /\ power \in Powers
    /\ stopping \in BOOLEAN
    /\ requested \in BOOLEAN
=============================================================================
