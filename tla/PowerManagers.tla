--------------------------- MODULE PowerManagers ---------------------------
(***************************************************************************)
(* The four power managers of tos/lib/power side by side: a behaviour      *)
(* picks a build in its initial state, and runs the manager it wires.      *)
(* Each manager leaves the variables of the others alone.                  *)
(***************************************************************************)
EXTENDS ManagedArbiter

VARIABLES stopping, requested, stopTimer, timer

P == INSTANCE PowerManagerP
D == INSTANCE DeferredPowerManagerP
A == INSTANCE AsyncPowerManagerP
AD == INSTANCE AsyncDeferredPowerManagerP

vars == <<managedVars, stopping, requested, stopTimer, timer>>

Wired(manager) == build.manager = manager

Init ==
    /\ ManagedInit
    /\ stopping = FALSE
    /\ requested = FALSE
    /\ stopTimer = FALSE
    /\ timer = FALSE

\* The manager keeps to its own variables, and the build stays what it is.
OnlyP == Wired("PowerManagerP") /\ UNCHANGED <<build, stopTimer, timer>>
OnlyD == Wired("DeferredPowerManagerP") /\ UNCHANGED build
OnlyA ==
    /\ Wired("AsyncPowerManagerP")
    /\ UNCHANGED <<build, stopping, requested, stopTimer, timer>>
OnlyAD ==
    /\ Wired("AsyncDeferredPowerManagerP")
    /\ UNCHANGED <<build, stopping, requested>>

Next ==
    \/ OnlyP /\ P!Next
    \/ OnlyD /\ D!Next
    \/ OnlyA /\ A!Next
    \/ OnlyAD /\ AD!Next

Spec == Init /\ [][Next]_vars

-----------------------------------------------------------------------------
\* What goes on by itself in a context, once begun.
GoesOn(ctx) ==
    \/ OnlyP /\ P!Continue(ctx)
    \/ OnlyD /\ D!Continue(ctx)
    \/ OnlyA /\ A!Continue(ctx)
    \/ OnlyAD /\ AD!Continue(ctx)

MainGoesOn ==
    \/ GoesOn("main")
    \/ OnlyP /\ P!TaskStep
    \/ OnlyD /\ D!TaskStep
    \/ OnlyA /\ A!TaskStep
    \/ OnlyAD /\ AD!TaskStep

TaskStarts ==
    \/ OnlyP /\ P!StartNextTask
    \/ OnlyD /\ D!StartNextTask
    \/ OnlyA /\ A!StartNextTask
    \/ OnlyAD /\ AD!StartNextTask

TimerFires == (OnlyD /\ D!Fired) \/ (OnlyAD /\ AD!Fired)
DeviceCompletes == (OnlyP /\ P!Device) \/ (OnlyD /\ D!Device)

ClientReleases(c) ==
    \/ OnlyP /\ P!Release("main", c)
    \/ OnlyD /\ D!Release("main", c)
    \/ OnlyA /\ A!Release("main", c)
    \/ OnlyAD /\ AD!Release("main", c)

(***************************************************************************)
(* As for an unmanaged arbiter: handlers return, the main context goes on  *)
(* and its posted tasks run, and a client that has the resource releases   *)
(* it.  A device that accepted a start or a stop signals its completion    *)
(* (SplitControl.nc:91-97), and a timer that runs on fires.                *)
(***************************************************************************)
Fairness ==
    /\ WF_vars(GoesOn("interrupt"))
    /\ SF_vars(MainGoesOn)
    /\ SF_vars(TaskStarts)
    /\ SF_vars(TimerFires)
    /\ SF_vars(DeviceCompletes)
    /\ \A c \in Clients : SF_vars(ClientReleases(c))

FairSpec == Spec /\ Fairness

-----------------------------------------------------------------------------
TypeOK ==
    /\ build \in Builds
    /\ Wired("PowerManagerP") => P!TypeOK
    /\ Wired("DeferredPowerManagerP") => D!TypeOK
    /\ Wired("AsyncPowerManagerP") => A!TypeOK
    /\ Wired("AsyncDeferredPowerManagerP") => AD!TypeOK

(***************************************************************************)
(* PoweredWhileHeld, in every build but these: with the asynchronous       *)
(* deferred manager, whose timer may be started behind a client's back;    *)
(* and with a device that fails to start, as startDone does not look at    *)
(* its error (PowerManagerP.nc:102-105, DeferredPowerManagerP.nc:110-112). *)
(***************************************************************************)
PoweredUnlessStartFails ==
    ~ Wired("AsyncDeferredPowerManagerP") /\ "start" \notin Failures => PoweredWhileHeld

(***************************************************************************)
(* The timer that is going to power the device down never runs, nor waits  *)
(* to be started, behind the back of a client that has the device: a       *)
(* request's startTask comes after the timerTask of the release before it  *)
(* (DeferredPowerManagerP.nc:79-128).                                      *)
(***************************************************************************)
TimerOnlyWhenFree ==
    /\ Wired("DeferredPowerManagerP")
    /\ timer \/ Scheduler!IsQueued("timerTask")
    => \A c \in Clients : ~ holds[c]

(***************************************************************************)
(* While the device of a deferred manager powers down requests can see it, *)
(* and no startTask is under way: SplitControl.start would return EBUSY,   *)
(* which startTask does not look at, and the request would be lost         *)
(* (DeferredPowerManagerP.nc:79-97, 118-128).                              *)
(***************************************************************************)
StartsNotWhileStopping ==
    Wired("DeferredPowerManagerP") /\ power = "stopping" =>
        stopping /\ ~ Scheduler!IsQueued("startTask")

(***************************************************************************)
(* A device that nobody uses does not stay on (TEP 115: "As long as the    *)
(* resource ... has been fully released, the power mananger will be able   *)
(* to power down the resource"), unless it fails to stop, or the           *)
(* asynchronous deferred manager forgets to start its timer.               *)
(***************************************************************************)
PoweredDownWhenIdle ==
    ~ Wired("AsyncDeferredPowerManagerP") /\ Failures \cap {"stop", "stopCall"} = {} =>
        []<> (state # "controlled" \/ power = "off")

(***************************************************************************)
(* Every accepted request is granted (Resource.nc: "The granted() event    *)
(* will be signaled once you have control of the resource"), even though   *)
(* the manager must first power the device up, or first down and then up.  *)
(* Excepted are the builds where the code may lose a request: a device     *)
(* that fails, but for one whose start fails under the deferred manager;   *)
(* and requests from interrupt handlers of a manager that refuses          *)
(* immediate requests.                                                     *)
(***************************************************************************)
MayLoseRequests ==
    \/ Wired("PowerManagerP") /\ (build.interrupts \/ Failures # {})
    \/ Wired("DeferredPowerManagerP") /\ (build.interrupts \/ Failures \ {"start"} # {})

RequestsAreServed ==
    \A c \in Clients : ~ MayLoseRequests /\ pending[c] ~> holds[c]
=============================================================================
