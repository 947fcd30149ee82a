------------------------------ MODULE ArbiterP ------------------------------
(***************************************************************************)
(* The resource arbiter tos/system/ArbiterP.nc, its clients, and the two   *)
(* contexts its asynchronous commands are called from: the main context    *)
(* (tasks, one after the other) and an interrupt handler, which preempts   *)
(* the main context anywhere outside an atomic section and runs to         *)
(* completion.  An atomic section is one action; a call that goes on after *)
(* its atomic section leaves a frame in its context.                       *)
(*                                                                         *)
(* The default owner of the resource is not here: the modules that extend  *)
(* this one say what its event handlers do (UnmanagedArbiter when nothing  *)
(* is wired to ResourceDefaultOwner, or one of the power managers).        *)
(*                                                                         *)
(* Left out: ResourceRequested, signaled before a request does anything. A *)
(* handler that releases the resource is a Release just before the request.*)
(***************************************************************************)
EXTENDS ResourceQueue

CONSTANTS Tasks,            \* the tasks of the arbiter and of the default owner
          NoTask,
          Requesters,       \* the contexts that clients request from
          RequestWhileOwner \* clients may ask for their next turn before they release

default_owner_id == NumClients
NO_RES == 255

ASSUME ClientIdsFitInAByte == NumClients \in 1..(NO_RES - 1)
ASSUME PolicyIsBoolean == RoundRobin \in BOOLEAN
ASSUME TasksAssumption == "grantedTask" \in Tasks /\ NoTask \notin Tasks
ASSUME RequestersAssumption == Requesters \subseteq {"main", "interrupt"}

VARIABLES
    state, resId, reqResId,  \* the arbiter
    tasks, running,          \* the scheduler: posted tasks, and the one that runs
    call,                    \* call[ctx]: the frame of the call in progress in ctx
    holds, pending,          \* per client: it was given the resource; it was promised it
    configured               \* the client the resource is configured for, or NO_RES

arbiterVars == <<state, resId, reqResId>>
taskVars == <<tasks, running>>
clientVars == <<holds, pending, configured>>
sharedVars == <<queueVars, arbiterVars, taskVars, call, clientVars>>

Scheduler == INSTANCE TaskQueue WITH queue <- tasks

States == {"controlled", "granting", "immGranting", "busy"}
Contexts == {"main", "interrupt"}

NoCall == [at |-> "none", id |-> NO_RES]
Frame(at, id) == [at |-> at, id |-> id]

-----------------------------------------------------------------------------
SharedInit ==
    /\ QueueInit
    /\ state = "controlled"
    /\ resId = default_owner_id
    /\ reqResId = 0
    /\ tasks = <<>>
    /\ running = NoTask
    /\ call = [ctx \in Contexts |-> NoCall]
    /\ holds = [c \in Clients |-> FALSE]
    /\ pending = [c \in Clients |-> FALSE]
    /\ configured = NO_RES

\* The context has the processor: an interrupt handler keeps it until it returns.
Runs(ctx) == ctx = "main" => call["interrupt"] = NoCall

\* The context can begin a call: in the main context, from a task of the client's.
CanCall(ctx) ==
    /\ Runs(ctx)
    /\ call[ctx] = NoCall
    /\ ctx = "main" => running = NoTask

At(ctx, at) == Runs(ctx) /\ call[ctx].at = at
GoTo(ctx, at) == call' = [call EXCEPT ![ctx] = Frame(at, @.id)]
Return(ctx) == call' = [call EXCEPT ![ctx] = NoCall]

\* A task runs in the main context and has made no call.
InTask(t) == Runs("main") /\ running = t /\ call["main"] = NoCall

\* A post of a task that waits already changes nothing.
PostTask(t) == Scheduler!LineUp(t) \/ (Scheduler!IsQueued(t) /\ UNCHANGED tasks)

RunNextTask ==
    /\ CanCall("main")
    /\ Scheduler!Start
    /\ UNCHANGED <<queueVars, arbiterVars, call, clientVars>>

\* A client that makes no other call begins one.
Asks(ctx, c) ==
    /\ CanCall(ctx) /\ ctx \in Requesters
    /\ \A other \in Contexts : call[other].id # c

\* Per TEP 108 a client may repeat a request, but not ask for an immediate one too.
MayRequest(ctx, c) == Asks(ctx, c) /\ (holds[c] => RequestWhileOwner)
MayRequestNow(ctx, c) == Asks(ctx, c) /\ ~ holds[c] /\ ~ pending[c]

-----------------------------------------------------------------------------
\* Resource.request of an idle resource goes on to ask the default owner.
RequestControlled(ctx, c) ==
    /\ MayRequest(ctx, c)
    /\ state = "controlled"
    /\ state' = "granting"
    /\ reqResId' = c
    /\ pending' = [pending EXCEPT ![c] = TRUE]
    /\ call' = [call EXCEPT ![ctx] = Frame("requested", c)]
    /\ UNCHANGED <<queueVars, resId, taskVars, holds, configured>>

\* The client asked for last gets SUCCESS, and is not enqueued.
RequestAgain(ctx, c) ==
    /\ MayRequest(ctx, c)
    /\ state # "controlled"
    /\ reqResId = c
    /\ pending' = [pending EXCEPT ![c] = TRUE]
    /\ UNCHANGED <<queueVars, arbiterVars, taskVars, call, holds, configured>>

\* Any other client is enqueued; when it is in the queue it gets EBUSY.
RequestBusy(ctx, c) ==
    /\ MayRequest(ctx, c)
    /\ state # "controlled"
    /\ reqResId # c
    /\ \/ Enqueue(c) /\ pending' = [pending EXCEPT ![c] = TRUE]
       \/ IsEnqueued(c) /\ UNCHANGED <<queueVars, pending>>
    /\ UNCHANGED <<arbiterVars, taskVars, call, holds, configured>>

Request(ctx, c) ==
    RequestControlled(ctx, c) \/ RequestAgain(ctx, c) \/ RequestBusy(ctx, c)

-----------------------------------------------------------------------------
\* Slip: immediateRequest also takes a resource that is being granted.
ImmediateRequestGranting(ctx, c) ==
    /\ MayRequestNow(ctx, c)
    /\ state # "busy"
    /\ state' = "immGranting"
    /\ reqResId' = c
    /\ call' = [call EXCEPT ![ctx] = Frame("immediateRequested", c)]
    /\ UNCHANGED <<queueVars, resId, taskVars, clientVars>>

\* Resource.immediateRequest; of a resource in use it fails and changes nothing.
ImmediateRequest(ctx, c) ==
    /\ MayRequestNow(ctx, c)
    /\ state = "controlled"
    /\ state' = "immGranting"
    /\ reqResId' = c
    /\ call' = [call EXCEPT ![ctx] = Frame("immediateRequested", c)]
    /\ UNCHANGED <<queueVars, resId, taskVars, clientVars>>

\* The default owner has let go of the resource: the client is configured and has it.
ImmediateGranted(ctx) ==
    LET c == call[ctx].id IN
    /\ At(ctx, "immediateCheck")
    /\ resId = c
    /\ configured' = c
    /\ holds' = [holds EXCEPT ![c] = TRUE]
    /\ Return(ctx)
    /\ UNCHANGED <<queueVars, arbiterVars, taskVars, pending>>

ImmediateRefused(ctx) ==
    /\ At(ctx, "immediateCheck")
    /\ resId # call[ctx].id
    /\ GoTo(ctx, "immediateFail")
    /\ UNCHANGED <<queueVars, arbiterVars, taskVars, clientVars>>

\* The atomic section at the end of immediateRequest, which returns FAIL.
ImmediateFail(ctx) ==
    /\ At(ctx, "immediateFail")
    /\ state' = "controlled"
    /\ Return(ctx)
    /\ UNCHANGED <<queueVars, resId, reqResId, taskVars, clientVars>>

-----------------------------------------------------------------------------
\* Resource.release with clients waiting: the next one is going to be granted.
ReleaseToNext(ctx, c) ==
    /\ CanCall(ctx) /\ holds[c]
    /\ state = "busy" /\ resId = c
    /\ Dequeue
    /\ reqResId' = NextUp
    /\ resId' = NO_RES
    /\ state' = "granting"
    /\ PostTask("grantedTask")
    /\ configured' = NO_RES
    /\ holds' = [holds EXCEPT ![c] = FALSE]
    /\ UNCHANGED <<running, call, pending>>

\* Slip: the owner's release does not look at the queue.
ReleaseForgetsQueue(ctx, c) ==
    /\ CanCall(ctx) /\ holds[c]
    /\ state = "busy" /\ resId = c
    /\ resId' = default_owner_id
    /\ state' = "controlled"
    /\ configured' = NO_RES
    /\ holds' = [holds EXCEPT ![c] = FALSE]
    /\ UNCHANGED <<queueVars, reqResId, running, call, pending>>

\* Slip: the release also clears the last request, with the wrong constant.
ReleaseClearsRequest(ctx, c) ==
    /\ CanCall(ctx) /\ holds[c]
    /\ state = "busy" /\ resId = c
    /\ IsEmpty
    /\ resId' = default_owner_id
    /\ reqResId' = NO_RES
    /\ state' = "controlled"
    /\ configured' = NO_RES
    /\ holds' = [holds EXCEPT ![c] = FALSE]
    /\ UNCHANGED <<queueVars, running, call, pending>>

\* Resource.release with nobody waiting, up to signaling ResourceDefaultOwner.granted,
\* which is part of the atomic section and may post (tasks).
ReleaseToDefault(ctx, c) ==
    /\ CanCall(ctx) /\ holds[c]
    /\ state = "busy" /\ resId = c
    /\ IsEmpty
    /\ resId' = default_owner_id
    /\ state' = "controlled"
    /\ configured' = NO_RES
    /\ holds' = [holds EXCEPT ![c] = FALSE]
    /\ UNCHANGED <<queueVars, reqResId, running, call, pending>>

-----------------------------------------------------------------------------
\* Slip: the client is told before the resource is configured for it.
GrantedTaskUnconfigured ==
    /\ InTask("grantedTask")
    /\ resId' = reqResId
    /\ state' = "busy"
    /\ call' = [call EXCEPT !["main"] = Frame("granted", NO_RES)]
    /\ UNCHANGED <<queueVars, reqResId, taskVars, clientVars>>

\* grantedTask, first its atomic section.
GrantedTask ==
    /\ InTask("grantedTask")
    /\ resId' = reqResId
    /\ state' = "busy"
    /\ call' = [call EXCEPT !["main"] = Frame("configure", NO_RES)]
    /\ UNCHANGED <<queueVars, reqResId, taskVars, clientVars>>

Configure ==
    /\ At("main", "configure")
    /\ configured' = resId
    /\ GoTo("main", "granted")
    /\ UNCHANGED <<queueVars, arbiterVars, taskVars, holds, pending>>

\* Resource.granted tells the client that it has the resource.
Granted ==
    /\ At("main", "granted")
    /\ holds' = [holds EXCEPT ![resId] = TRUE]
    /\ pending' = [pending EXCEPT ![resId] = FALSE]
    /\ Return("main")
    /\ Scheduler!Finish
    /\ UNCHANGED <<queueVars, arbiterVars, configured>>

-----------------------------------------------------------------------------
\* ResourceDefaultOwner.release: the part that changes something.
DefaultOwnerReleases ==
    /\ resId = default_owner_id
    /\ \/ /\ state = "granting"
          /\ PostTask("grantedTask")
          /\ UNCHANGED arbiterVars
       \/ /\ state = "immGranting"
          /\ resId' = reqResId
          /\ state' = "busy"
          /\ UNCHANGED <<reqResId, tasks>>

\* ResourceDefaultOwner.release returns FAIL.
CannotRelease == resId # default_owner_id \/ state \notin {"granting", "immGranting"}

DefaultOwnerRelease ==
    DefaultOwnerReleases \/ (CannotRelease /\ UNCHANGED <<arbiterVars, tasks>>)

-----------------------------------------------------------------------------
\* The steps that do not concern the default owner: what a client begins, ...
Ask(ctx) == \E c \in Clients : Request(ctx, c) \/ ImmediateRequest(ctx, c)

\* ... and what goes on by itself.
FinishAsking(ctx) ==
    ImmediateGranted(ctx) \/ ImmediateRefused(ctx) \/ ImmediateFail(ctx)
Grant == GrantedTask \/ Configure \/ Granted

-----------------------------------------------------------------------------
Frames == {"requested", "immediateRequested", "immediateCheck", "immediateFail",
           "configure", "granted"}

SharedTypeOK ==
    /\ waiting \in Seq(Clients)
    /\ last \in Clients
    /\ state \in States
    /\ resId \in Clients \cup {default_owner_id, NO_RES}
    /\ reqResId \in Clients
    /\ tasks \in Seq(Tasks)
    /\ running \in Tasks \cup {NoTask}
    /\ holds \in [Clients -> BOOLEAN]
    /\ pending \in [Clients -> BOOLEAN]
    /\ configured \in Clients \cup {NO_RES}

(***************************************************************************)
(* At most one client has the resource (TEP 108), whatever the order of    *)
(* grants by grantedTask, immediate requests from an interrupt and         *)
(* releases (ArbiterP.nc:77-148, 190-197).                                 *)
(***************************************************************************)
OneHolder == \A c, d \in Clients : holds[c] /\ holds[d] => c = d

(***************************************************************************)
(* A client that was given the resource is the one the arbiter has on      *)
(* record, so isOwner answers TRUE and release is going to work, and the   *)
(* resource is configured for it (ArbiterP.nc:102-131, 177-197).           *)
(***************************************************************************)
HolderOnRecord ==
    \A c \in Clients : holds[c] =>
        state = "busy" /\ resId = c /\ configured = c

(***************************************************************************)
(* The arbiter keeps its promises: a client that was told SUCCESS is in    *)
(* the queue, or the arbiter is about to grant it the resource.            *)
(***************************************************************************)
PromisesKept ==
    \A c \in Clients : pending[c] =>
        \/ IsEnqueued(c)
        \/ state = "granting" /\ reqResId = c
        \/ state = "busy" /\ resId = c /\ ~ holds[c]

\* A client has the resource from the atomic section that decides its immediate
\* request, or from its granted event, to its release.
Has(c) ==
    \/ holds[c]
    \/ \E ctx \in Contexts :
          /\ call[ctx].id = c
          /\ call[ctx].at \in {"immediateRequested", "immediateStarted", "immediateCheck"}

Shared == INSTANCE SharedResource
              WITH Nobody <- NO_RES,
                   owner <- IF \E c \in Clients : Has(c)
                            THEN CHOOSE c \in Clients : Has(c) ELSE NO_RES,
                   asked <- {c \in Clients : pending[c]}

(***************************************************************************)
(* The clients see the shared resource of TEP 108: one owner at a time, no *)
(* grant that was not asked for, no immediate grant past a waiting client, *)
(* whatever the order of requests and releases from an interrupt           *)
(* (ArbiterP.nc:77-148, 190-197).                                          *)
(***************************************************************************)
ImplementsSharedResource == Shared!Spec

(***************************************************************************)
(* First come, first served: requests are granted in the order in which    *)
(* they were accepted, also when the first one of them was granted by the  *)
(* default owner and the others by a release (TEP 108: "the next client in *)
(* the request queue is given access").                                    *)
(***************************************************************************)
Line == LET taken == {c \in Clients : pending[c] /\ ~ IsEnqueued(c)} IN
        IF taken = {} THEN waiting ELSE <<CHOOSE c \in taken : TRUE>> \o waiting

NoOvertaking ==
    [][\/ Line' = Line
       \/ \E c \in Clients : Line' = Append(Line, c)
       \/ Line # <<>> /\ Line' = Tail(Line) /\ holds'[Head(Line)]
      ]_sharedVars

(***************************************************************************)
(* Resource.nc: "The granted() event will be signaled once you have        *)
(* control of the resource": every accepted request is granted.            *)
(***************************************************************************)
EveryRequestGranted == \A c \in Clients : pending[c] ~> holds[c]
=============================================================================
