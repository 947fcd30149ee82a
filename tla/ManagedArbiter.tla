--------------------------- MODULE ManagedArbiter ---------------------------
(***************************************************************************)
(* An arbiter whose default owner is a power manager (TEP 115): what the   *)
(* managers of tos/lib/power have in common.  The device is external: it   *)
(* follows the table of TEP 115 for SplitControl, or switches at once, and *)
(* without fail, when it offers StdControl or AsyncStdControl.             *)
(***************************************************************************)
EXTENDS ArbiterP

CONSTANT Builds   \* the programs considered

Managers == {"PowerManagerP", "DeferredPowerManagerP",
             "AsyncPowerManagerP", "AsyncDeferredPowerManagerP"}

FailureKinds == {"startCall", "start", "stopCall", "stop"}

(***************************************************************************)
(* A build wires a manager to a device, which offers SplitControl (split)  *)
(* or not.  Its clients request from tasks, or from interrupt handlers     *)
(* too.  What may fail is a call of SplitControl ("startCall", "stopCall") *)
(* or the operation it began ("start", "stop").                            *)
(***************************************************************************)
ASSUME BuildsAssumption ==
    Builds \subseteq [manager : Managers, split : BOOLEAN, interrupts : BOOLEAN,
                      failures : SUBSET FailureKinds]

\* The tasks of the managers; each manager posts some of them.
ASSUME ManagerTasksAssumption ==
    {"startTask", "stopTask", "timerTask", "stopTimerTask"} \subseteq Tasks

VARIABLES power,   \* of the device: "off", "starting", "on" or "stopping"
          build    \* the program that runs; it never changes

Powers == {"off", "starting", "on", "stopping"}

managedVars == <<sharedVars, power, build>>

ManagedInit ==
    /\ SharedInit
    /\ power = "off"
    /\ build \in Builds

Split == build.split
Failures == build.failures

AskManaged(ctx) ==
    /\ ctx = "interrupt" => build.interrupts
    /\ Ask(ctx)
    /\ UNCHANGED power

\* The main context is done with the call, and with the task that made it, if any.
EndTask == Return("main") /\ running' = NoTask

\* SplitControl.start of a device that is off returns SUCCESS, and startDone is
\* going to be signaled, or FAIL; of another it changes nothing.
SplitStart ==
    /\ Split
    /\ \/ power = "off" /\ power' = "starting"
       \/ (power # "off" \/ "startCall" \in Failures) /\ UNCHANGED power

\* SplitControl.stop, the same way.
SplitStop ==
    /\ Split
    /\ \/ power = "on" /\ power' = "stopping"
       \/ (power # "on" \/ "stopCall" \in Failures) /\ UNCHANGED power

\* The device signals startDone, or stopDone, from a task of its own.
DeviceStarted ==
    /\ CanCall("main")
    /\ power = "starting"
    /\ \/ power' = "on"
       \/ "start" \in Failures /\ power' = "off"
    /\ call' = [call EXCEPT !["main"] = Frame("startDone", NO_RES)]
    /\ UNCHANGED <<queueVars, arbiterVars, taskVars, clientVars>>

DeviceStopped ==
    /\ CanCall("main")
    /\ power = "stopping"
    /\ \/ power' = "off"
       \/ "stop" \in Failures /\ power' = "on"
    /\ call' = [call EXCEPT !["main"] = Frame("stopDone", NO_RES)]
    /\ UNCHANGED <<queueVars, arbiterVars, taskVars, clientVars>>

\* A default owner that does nothing when it is asked for an immediate grant.
IgnoreImmediateRequested(ctx) ==
    /\ At(ctx, "immediateRequested")
    /\ GoTo(ctx, "immediateCheck")
    /\ UNCHANGED <<queueVars, arbiterVars, taskVars, clientVars, power>>

-----------------------------------------------------------------------------
(***************************************************************************)
(* The device is on for as long as a client has it, and when it is         *)
(* configured for a client (TEP 115: the manager "MUST wait until after    *)
(* the resource has been fully powered on before" it releases; the device  *)
(* "should be powered on whenever there is at least one active client").   *)
(***************************************************************************)
PoweredWhileHeld ==
    (\E c \in Clients : holds[c]) \/ configured # NO_RES => power = "on"

(***************************************************************************)
(* Once the arbiter has told the manager of a request, the resource is     *)
(* granted (TEP 115: the manager "MUST power up the resource" and "MUST    *)
(* release the ownership").                                                *)
(***************************************************************************)
RequestReleasesResource == state = "granting" ~> state = "busy"
=============================================================================
