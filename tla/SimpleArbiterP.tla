--------------------------- MODULE SimpleArbiterP ---------------------------
(***************************************************************************)
(* The arbiter without a default owner, tos/system/SimpleArbiterP.nc       *)
(* (SimpleFcfsArbiterC, SimpleRoundRobinArbiterC), and its clients.  Each  *)
(* of its asynchronous commands is one atomic section, so it makes no      *)
(* difference whether a task or an interrupt handler calls it; only the    *)
(* task that grants has two steps, and commands can come in between.       *)
(*                                                                         *)
(* Left out: ResourceRequested, signaled before a request does anything,   *)
(* and clients that repeat a request before it is granted (EBUSY, but for  *)
(* the client that is being granted, which is enqueued once more).         *)
(***************************************************************************)
EXTENDS ResourceQueue

NO_RES == 255

ASSUME ClientIdsFitInAByte == NumClients \in 1..NO_RES
ASSUME PolicyIsBoolean == RoundRobin \in BOOLEAN

VARIABLES
    state, resId,     \* the arbiter
    posted,           \* grantedTask waits in the task queue
    signaling,        \* grantedTask is past its atomic section
    holds, pending,   \* per client: it was given the resource; it was promised it
    configured        \* the client the resource is configured for, or NO_RES

vars == <<queueVars, state, resId, posted, signaling, holds, pending, configured>>

Init ==
    /\ QueueInit
    /\ state = "idle"
    /\ resId = NO_RES
    /\ posted = FALSE
    /\ signaling = FALSE
    /\ holds = [c \in Clients |-> FALSE]
    /\ pending = [c \in Clients |-> FALSE]
    /\ configured = NO_RES

RequestIdle(c) ==
    /\ state = "idle"
    /\ state' = "granting"
    /\ resId' = c
    /\ posted' = TRUE
    /\ pending' = [pending EXCEPT ![c] = TRUE]
    /\ UNCHANGED <<queueVars, signaling, holds, configured>>

\* Unlike ArbiterP's, a request of the owner is enqueued too.
RequestBusy(c) ==
    /\ state # "idle"
    /\ Enqueue(c)
    /\ pending' = [pending EXCEPT ![c] = TRUE]
    /\ UNCHANGED <<state, resId, posted, signaling, holds, configured>>

\* A client may ask for its next turn while it has the resource.
Request(c) ==
    /\ ~ pending[c]
    /\ RequestIdle(c) \/ RequestBusy(c)

\* Slip: immediateRequest looks at the owner, which is set before it is told.
ImmediateRequestUntold(c) ==
    /\ ~ pending[c] /\ ~ holds[c]
    /\ state # "busy"
    /\ state' = "busy"
    /\ resId' = c
    /\ configured' = c
    /\ holds' = [holds EXCEPT ![c] = TRUE]
    /\ UNCHANGED <<queueVars, posted, signaling, pending>>

\* Of a resource in use, immediateRequest fails and changes nothing.
ImmediateRequest(c) ==
    /\ ~ pending[c] /\ ~ holds[c]
    /\ state = "idle"
    /\ state' = "busy"
    /\ resId' = c
    /\ configured' = c
    /\ holds' = [holds EXCEPT ![c] = TRUE]
    /\ UNCHANGED <<queueVars, posted, signaling, pending>>

\* Slip: the resource is unconfigured only when it becomes idle.
ReleaseToNextConfigured(c) ==
    /\ holds[c] /\ state = "busy" /\ resId = c
    /\ Dequeue
    /\ resId' = NextUp
    /\ state' = "granting"
    /\ posted' = TRUE
    /\ holds' = [holds EXCEPT ![c] = FALSE]
    /\ UNCHANGED <<signaling, pending, configured>>

ReleaseToNext(c) ==
    /\ holds[c] /\ state = "busy" /\ resId = c
    /\ Dequeue
    /\ resId' = NextUp
    /\ state' = "granting"
    /\ posted' = TRUE
    /\ configured' = NO_RES
    /\ holds' = [holds EXCEPT ![c] = FALSE]
    /\ UNCHANGED <<signaling, pending>>

\* Slip: the queue is not looked at.
ReleaseForgetsQueue(c) ==
    /\ holds[c] /\ state = "busy" /\ resId = c
    /\ resId' = NO_RES
    /\ state' = "idle"
    /\ configured' = NO_RES
    /\ holds' = [holds EXCEPT ![c] = FALSE]
    /\ UNCHANGED <<queueVars, posted, signaling, pending>>

\* Slip: the free resource gets the id of ArbiterP's default owner.
ReleaseToDefaultOwner(c) ==
    /\ holds[c] /\ state = "busy" /\ resId = c
    /\ IsEmpty
    /\ resId' = NumClients
    /\ state' = "idle"
    /\ configured' = NO_RES
    /\ holds' = [holds EXCEPT ![c] = FALSE]
    /\ UNCHANGED <<queueVars, posted, signaling, pending>>

ReleaseToIdle(c) ==
    /\ holds[c] /\ state = "busy" /\ resId = c
    /\ IsEmpty
    /\ resId' = NO_RES
    /\ state' = "idle"
    /\ configured' = NO_RES
    /\ holds' = [holds EXCEPT ![c] = FALSE]
    /\ UNCHANGED <<queueVars, posted, signaling, pending>>

Release(c) == ReleaseToNext(c) \/ ReleaseToIdle(c)

\* grantedTask, first its atomic section, which configures the resource.
GrantedTask ==
    /\ posted /\ ~ signaling
    /\ posted' = FALSE
    /\ state' = "busy"
    /\ configured' = resId
    /\ signaling' = TRUE
    /\ UNCHANGED <<queueVars, resId, holds, pending>>

\* Resource.granted tells the client that it has the resource.
Granted ==
    /\ signaling
    /\ signaling' = FALSE
    /\ holds' = [holds EXCEPT ![resId] = TRUE]
    /\ pending' = [pending EXCEPT ![resId] = FALSE]
    /\ UNCHANGED <<queueVars, state, resId, posted, configured>>

Next ==
    \/ \E c \in Clients : Request(c) \/ ImmediateRequest(c) \/ Release(c)
    \/ GrantedTask \/ Granted

Spec == Init /\ [][Next]_vars

\* Posted tasks run, and a client that has the resource releases it.
Fairness ==
    /\ WF_vars(GrantedTask)
    /\ WF_vars(Granted)
    /\ \A c \in Clients : WF_vars(Release(c))

FairSpec == Spec /\ Fairness

-----------------------------------------------------------------------------
TypeOK ==
    /\ waiting \in Seq(Clients)
    /\ last \in Clients
    /\ state \in {"idle", "granting", "busy"}
    /\ resId \in Clients \cup {NO_RES}
    /\ posted \in BOOLEAN /\ signaling \in BOOLEAN
    /\ holds \in [Clients -> BOOLEAN]
    /\ pending \in [Clients -> BOOLEAN]
    /\ configured \in Clients \cup {NO_RES}

(***************************************************************************)
(* The resource is configured for exactly the client that the arbiter has  *)
(* on record as its owner, and for nobody while it is between owners;      *)
(* unconfigure comes before the next configure (SimpleArbiterP.nc:83-113,  *)
(* 149-155).                                                               *)
(***************************************************************************)
ConfiguredForOwner ==
    /\ configured = IF state = "busy" THEN resId ELSE NO_RES
    /\ \A c \in Clients : holds[c] => state = "busy" /\ resId = c

(***************************************************************************)
(* The clients see the shared resource of TEP 108, also when they ask for  *)
(* their next turn before they release.  grantedTask gives the resource    *)
(* away when it signals granted.                                           *)
(***************************************************************************)
Shared == INSTANCE SharedResource
              WITH Nobody <- NO_RES,
                   owner <- IF \E c \in Clients : holds[c]
                            THEN CHOOSE c \in Clients : holds[c] ELSE NO_RES,
                   asked <- {c \in Clients : pending[c]}
ImplementsSharedResource == Shared!Spec

(***************************************************************************)
(* Every accepted request is granted (Resource.nc: "The granted() event    *)
(* will be signaled once you have control of the resource").               *)
(***************************************************************************)
EveryRequestGranted == \A c \in Clients : pending[c] ~> ~ pending[c]
=============================================================================
