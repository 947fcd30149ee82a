------------------------- MODULE AsyncPowerManagerP -------------------------
(***************************************************************************)
(* The power manager tos/lib/power/AsyncPowerManagerP.nc of a device with  *)
(* AsyncStdControl, which is switched in the context of the caller: it is  *)
(* on before a request returns, and off before the last release does.  It  *)
(* is the one manager without tasks that grants immediate requests.        *)
(***************************************************************************)
EXTENDS ManagedArbiter

vars == managedVars

Init == ManagedInit /\ build.manager = "AsyncPowerManagerP"

\* ResourceDefaultOwner.requested and immediateRequested start the device, ...
Start(ctx) ==
    /\ \/ At(ctx, "requested") /\ GoTo(ctx, "requestStarted")
       \/ At(ctx, "immediateRequested") /\ GoTo(ctx, "immediateStarted")
    /\ power' = "on"
    /\ UNCHANGED <<queueVars, arbiterVars, taskVars, clientVars>>

\* ... and release the resource.
Started(ctx) ==
    /\ \/ At(ctx, "requestStarted") /\ Return(ctx)
       \/ At(ctx, "immediateStarted") /\ GoTo(ctx, "immediateCheck")
    /\ DefaultOwnerRelease
    /\ UNCHANGED <<queueVars, running, clientVars, power>>

\* Resource.release, with ResourceDefaultOwner.granted in its atomic section.
Release(ctx, c) ==
    \/ ReleaseToNext(ctx, c) /\ UNCHANGED power
    \/ ReleaseToDefault(ctx, c) /\ power' = "off" /\ UNCHANGED tasks

-----------------------------------------------------------------------------
\* What goes on in a context by itself, once begun.
Continue(ctx) ==
    Start(ctx) \/ Started(ctx) \/ (FinishAsking(ctx) /\ UNCHANGED power)

TaskStep == Grant /\ UNCHANGED power
StartNextTask == RunNextTask /\ UNCHANGED power

Next ==
    \/ \E ctx \in Contexts :
          \/ AskManaged(ctx)
          \/ Continue(ctx)
          \/ \E c \in Clients : Release(ctx, c)
    \/ StartNextTask \/ TaskStep

Spec == Init /\ [][Next /\ UNCHANGED build]_vars

-----------------------------------------------------------------------------
ManagerFrames == {"requestStarted", "immediateStarted"}

TypeOK ==
    /\ SharedTypeOK
    /\ call \in [Contexts -> [at : Frames \cup ManagerFrames \cup {"none"},
                              id : Clients \cup {NO_RES}]]
    /\ power \in {"off", "on"}
=============================================================================
