------------------------ MODULE PowerManagers_proofs ------------------------
(***************************************************************************)
(* Proofs about ArbiterP under the four power managers of tos/lib/power,   *)
(* for every number of clients that fits in a byte, both queue policies,   *)
(* every set of builds and whichever contexts clients request from.        *)
(*                                                                         *)
(* The first half is about the arbiter: whatever manager is wired, each of *)
(* its steps is one of the few kinds of Shared step below, and these keep  *)
(* the arbiter's invariant.  The second half is about one manager after    *)
(* the other: when it powers its device, and when it releases.             *)
(***************************************************************************)
EXTENDS PowerManagers, SequenceTheorems, WellFoundedInduction, TLAPS

LEMMA Owners ==
    /\ Clients \subseteq Nat
    /\ default_owner_id \notin Clients
    /\ NO_RES \notin Clients
    /\ NO_RES # default_owner_id
    /\ 0 \in Clients
  BY ClientIdsFitInAByte DEF Clients, default_owner_id, NO_RES

LEMMA SmallestNumber ==
    ASSUME NEW S, S \subseteq Nat, S # {}
    PROVE  \E m \in S : \A n \in S : m <= n
<1> DEFINE R == OpToRel(<, Nat)
<1>1. \E m \in S : \A n \in S : <<n, m>> \notin R
  <2>1. IsWellFoundedOn(R, Nat)
    BY NatLessThanWellFounded
  <2> HIDE DEF R
  <2>2. QED
    BY <2>1, WFMin
<1>2. \A m, n \in Nat : n < m => <<n, m>> \in R
  BY DEF OpToRel
<1>3. QED
  <2> HIDE DEF R
  <2>1. PICK m \in S : \A n \in S : <<n, m>> \notin R
    BY <1>1
  <2>2. \A n \in S : ~ (n < m)
    BY <2>1, <1>2
  <2>3. QED
    BY <2>2

-----------------------------------------------------------------------------
(* The queue of the arbiter. *)

QueueTypeOK == waiting \in Seq(Clients) /\ last \in Clients

LEMMA EnqueueAdds ==
    ASSUME QueueTypeOK, NEW c \in Clients, Enqueue(c)
    PROVE  /\ QueueTypeOK'
           /\ IsEnqueued(c)'
           /\ \A d \in Clients : IsEnqueued(d) => IsEnqueued(d)'
<1>1. waiting' = Append(waiting, c) /\ UNCHANGED last
  BY DEF Enqueue
<1>2. /\ Len(waiting) \in Nat /\ Len(waiting') = Len(waiting) + 1
      /\ \A i \in 1..Len(waiting) : waiting'[i] = waiting[i]
      /\ waiting'[Len(waiting) + 1] = c
      /\ waiting' \in Seq(Clients)
  BY <1>1 DEF QueueTypeOK
<1>3. QED
  BY <1>1, <1>2 DEF QueueTypeOK, IsEnqueued

\* The client to be served is one that waits.
LEMMA NextPlaceIsPlace ==
    ASSUME QueueTypeOK, waiting # <<>>
    PROVE  NextPlace \in 1..Len(waiting)
<1>1. Len(waiting) \in Nat /\ Len(waiting) > 0
  BY DEF QueueTypeOK
<1>2. CASE ~ RoundRobin
  BY <1>1, <1>2 DEF NextPlace
<1>3. CASE RoundRobin
  <2> DEFINE P1 == 1..Len(waiting)
             D1(i) == Distance(waiting[i])
             Distances == {D1(i) : i \in P1}
  <2>1. \A i \in P1 : D1(i) \in Nat
    BY Owners, ClientIdsFitInAByte DEF QueueTypeOK, Distance, Clients
  <2>2. Distances \subseteq Nat /\ Distances # {}
    BY <1>1, <2>1
  <2>3. PICK d \in Distances : \A e \in Distances : d <= e
    <3> HIDE DEF Distances
    <3>1. QED
      BY <2>2, SmallestNumber
  <2>4. QED
    BY <2>3, <1>3 DEF NextPlace
<1>4. QED
  BY <1>2, <1>3

\* A dequeue takes one client out of the queue, and leaves the others in it.
LEMMA DequeueLeavesOthers ==
    ASSUME QueueTypeOK, Dequeue
    PROVE  /\ QueueTypeOK' /\ NextUp \in Clients
           /\ \A d \in Clients : IsEnqueued(d) /\ d # NextUp => IsEnqueued(d)'
<1> DEFINE n == NextPlace
           front == SubSeq(waiting, 1, n - 1)
           back == SubSeq(waiting, n + 1, Len(waiting))
<1>1. n \in 1..Len(waiting) /\ Len(waiting) \in Nat /\ waiting' = front \o back
  BY NextPlaceIsPlace DEF Dequeue, QueueTypeOK
<1>2. NextUp = waiting[n] /\ last' = IF RoundRobin THEN NextUp ELSE last
  BY DEF Dequeue, NextUp
<1> HIDE DEF n
<1>3. /\ front \in Seq(Clients) /\ Len(front) = n - 1
      /\ \A i \in 1..(n - 1) : front[i] = waiting[i]
  BY <1>1 DEF QueueTypeOK
<1>4. /\ back \in Seq(Clients) /\ Len(back) = Len(waiting) - n
      /\ \A i \in 1..(Len(waiting) - n) : back[i] = waiting[n + i]
  BY <1>1 DEF QueueTypeOK
<1> HIDE DEF front, back
<1>5. /\ Len(waiting') = Len(front) + Len(back)
      /\ \A i \in 1..Len(front) : waiting'[i] = front[i]
      /\ \A i \in 1..Len(back) : waiting'[Len(front) + i] = back[i]
      /\ waiting' \in Seq(Clients)
  <2>1. /\ Len(waiting') = Len(front) + Len(back)
        /\ \A i \in 1..(Len(front) + Len(back)) :
              waiting'[i] = IF i <= Len(front) THEN front[i] ELSE back[i - Len(front)]
    BY <1>1, <1>3, <1>4, ConcatProperties
  <2>2. waiting' \in Seq(Clients)
    BY <1>1, <1>3, <1>4
  <2>3. Len(front) \in Nat /\ Len(back) \in Nat
    BY <1>3, <1>4
  <2>4. ASSUME NEW i \in 1..Len(back)
        PROVE  waiting'[Len(front) + i] = back[i]
    <3>1. /\ Len(front) + i \in 1..(Len(front) + Len(back))
          /\ ~ (Len(front) + i <= Len(front)) /\ (Len(front) + i) - Len(front) = i
      BY <2>3
    <3>2. QED
      BY <2>1, <3>1
  <2>5. QED
    BY <2>1, <2>2, <2>3, <2>4
<1>6. NextUp \in Clients /\ last' \in Clients
  BY <1>1, <1>2 DEF QueueTypeOK
<1>7. ASSUME NEW i \in 1..Len(waiting), i # n
      PROVE  \E j \in 1..Len(waiting') : waiting'[j] = waiting[i]
  <2>1. CASE i < n
    BY <1>1, <1>3, <1>4, <1>5, <2>1
  <2>2. CASE i > n
    <3>1. i - n \in 1..Len(back) /\ n + (i - n) = i
      BY <1>1, <1>4, <2>2
    <3>2. waiting'[Len(front) + (i - n)] = waiting[i]
      BY <3>1, <1>4, <1>5
    <3>3. Len(front) + (i - n) \in 1..Len(waiting')
      BY <1>1, <3>1, <1>3, <1>4, <1>5
    <3>4. QED
      BY <3>2, <3>3
  <2>3. QED
    BY <1>1, <1>7, <2>1, <2>2
<1>8. QED
  BY <1>2, <1>5, <1>6, <1>7 DEF QueueTypeOK, IsEnqueued

-----------------------------------------------------------------------------
(* The task queue: what a post and a start do to it. *)

TasksTypeOK == tasks \in Seq(Tasks) /\ running \in Tasks \cup {NoTask}

NoTaskTwice == \A i, j \in 1..Len(tasks) : tasks[i] = tasks[j] => i = j

Queued(t) == Scheduler!IsQueued(t)

LEMMA TaskNames ==
    /\ {"grantedTask", "startTask", "stopTask", "timerTask", "stopTimerTask"} \subseteq Tasks
    /\ NoTask \notin Tasks
  BY TasksAssumption, ManagerTasksAssumption

\* After a post the task waits, and of the others those that waited before.
LEMMA PostedOnce ==
    ASSUME TasksTypeOK, NoTaskTwice, NEW t \in Tasks, PostTask(t)
    PROVE  /\ tasks' \in Seq(Tasks) /\ NoTaskTwice' /\ Queued(t)'
           /\ \A u : u # t => (Queued(u)' <=> Queued(u))
<1>1. CASE Scheduler!LineUp(t)
  <2>1. /\ tasks' = Append(tasks, t) /\ \A i \in 1..Len(tasks) : tasks[i] # t
        /\ Len(tasks) \in Nat
    BY <1>1 DEF Scheduler!LineUp, Scheduler!IsQueued, TasksTypeOK
  <2>2. /\ Len(tasks') = Len(tasks) + 1
        /\ \A i \in 1..Len(tasks) : tasks'[i] = tasks[i]
        /\ tasks'[Len(tasks) + 1] = t
        /\ tasks' \in Seq(Tasks)
    BY <2>1 DEF TasksTypeOK
  <2>3. QED
    BY <2>1, <2>2 DEF NoTaskTwice, Queued, Scheduler!IsQueued
<1>2. CASE Scheduler!IsQueued(t) /\ UNCHANGED tasks
  BY <1>2 DEF TasksTypeOK, NoTaskTwice, Queued, Scheduler!IsQueued
<1>3. QED
  BY <1>1, <1>2 DEF PostTask

\* A task that starts waits no longer, and the others go on waiting.
LEMMA StartedOnce ==
    ASSUME TasksTypeOK, NoTaskTwice, Scheduler!Start
    PROVE  /\ TasksTypeOK' /\ NoTaskTwice'
           /\ running' \in Tasks /\ Queued(running')
           /\ \A u : Queued(u)' => Queued(u) /\ u # running'
<1> USE DEF TasksTypeOK, NoTaskTwice, Scheduler!Start, Queued, Scheduler!IsQueued
<1>1. /\ tasks # <<>> /\ tasks \in Seq(Tasks)
      /\ running' = tasks[1]
      /\ tasks' = Tail(tasks)
  OBVIOUS
<1>2. /\ Len(tasks') = Len(tasks) - 1 /\ Len(tasks) \in Nat \ {0}
      /\ \A i \in 1..Len(tasks') : i + 1 \in 1..Len(tasks) /\ tasks'[i] = tasks[i + 1]
      /\ tasks' \in Seq(Tasks)
  BY <1>1
<1>3. running' \in Tasks /\ Queued(running')
  BY <1>1, <1>2
<1>4. TasksTypeOK' /\ NoTaskTwice'
  <2>1. ASSUME NEW i \in 1..Len(tasks'), NEW j \in 1..Len(tasks'), tasks'[i] = tasks'[j]
        PROVE  i = j
    BY <1>2, <2>1
  <2>2. QED
    BY <1>2, <1>3, <2>1
<1>5. \A u : Queued(u)' => Queued(u)
  BY <1>2
<1>6. \A u : Queued(u)' => u # running'
  <2>1. ASSUME NEW i \in 1..Len(tasks'), tasks'[i] = tasks[1]
        PROVE  FALSE
    <3>1. i + 1 = 1
      BY <1>2, <2>1
    <3>2. QED
      BY <3>1, <1>2
  <2>2. QED
    BY <1>1, <2>1
<1>7. QED
  BY <1>3, <1>4, <1>5, <1>6

\* Nothing is queued or taken off the queue when it does not change.
LEMMA SameTasks ==
    ASSUME UNCHANGED tasks
    PROVE  (NoTaskTwice' <=> NoTaskTwice) /\ \A u : Queued(u)' <=> Queued(u)
  BY DEF NoTaskTwice, Queued, Scheduler!IsQueued

-----------------------------------------------------------------------------
(***************************************************************************)
(* The invariant of the arbiter.  A request of an idle resource, from      *)
(* whichever context, goes through these places; at any time one of them   *)
(* at most is taken, or a grant is due, or grantedTask is granting.        *)
(***************************************************************************)
ImmFrames == {"immediateRequested", "immediateStarted", "immediateCheck", "immediateFail"}
Asking == {"requested", "requestStarted"} \cup ImmFrames

\* Places of the main context in the events of a manager.
Managing == {"startDone", "stopDone", "restart", "restarted", "clear", "stop"}

Places == Asking \cup {"configure", "granted"} \cup Managing \cup {"none"}
FrameType == [at : Places, id : Clients \cup {NO_RES}]

FlatTypeOK ==
    /\ state \in States
    /\ resId \in Clients \cup {default_owner_id, NO_RES}
    /\ reqResId \in Clients
    /\ holds \in [Clients -> BOOLEAN]
    /\ pending \in [Clients -> BOOLEAN]
    /\ configured \in Clients \cup {NO_RES}
    /\ call \in [Contexts -> FrameType]

Granting == call["main"].at \in {"configure", "granted"}

\* grantedTask is going to grant the resource to reqResId.
GrantDue == Queued("grantedTask") \/ (running = "grantedTask" /\ ~ Granting)

FramesInv ==
    /\ call["interrupt"].at \in Asking \cup {"none"}
    /\ call["main"].at \in Managing => running # "grantedTask"
    /\ \A ctx \in Contexts : call[ctx].at = "none" => call[ctx] = NoCall

OneAsks ==
    \A a, b \in Contexts : call[a].at \in Asking /\ call[b].at \in Asking => a = b

\* The client whose call is at the place is on record, the resource is the default
\* owner's, and nobody else is being granted it.
AskingInv ==
    \A ctx \in Contexts :
        /\ call[ctx].at \in Asking =>
              /\ call[ctx].id \in Clients
              /\ reqResId = call[ctx].id
              /\ ~ GrantDue
        /\ call[ctx].at \in {"requested", "requestStarted"} =>
              state = "granting" /\ resId = default_owner_id
        /\ call[ctx].at \in ImmFrames \ {"immediateCheck"} =>
              state = "immGranting" /\ resId = default_owner_id
        /\ call[ctx].at = "immediateCheck" =>
              \/ state = "immGranting" /\ resId = default_owner_id
              \/ /\ state = "busy" /\ resId = call[ctx].id
                 /\ ~ Granting /\ \A c \in Clients : ~ holds[c]

ImmediateInv ==
    state = "immGranting" => \E ctx \in Contexts : call[ctx].at \in ImmFrames

IdleInv == state = "controlled" => resId = default_owner_id

GrantDueInv ==
    /\ GrantDue => state = "granting"
    /\ ~ (Queued("grantedTask") /\ running = "grantedTask")

GrantingInv ==
    Granting =>
        /\ running = "grantedTask"
        /\ state = "busy" /\ resId \in Clients
        /\ call["main"].at = "granted" => configured = resId
        /\ \A c \in Clients : ~ holds[c]

ConfiguredInv == configured # NO_RES => state = "busy"

Protocol ==
    /\ FramesInv /\ OneAsks /\ AskingInv /\ ImmediateInv
    /\ IdleInv /\ GrantDueInv /\ GrantingInv /\ ConfiguredInv
    /\ NoTaskTwice /\ HolderOnRecord

Types == QueueTypeOK /\ TasksTypeOK /\ FlatTypeOK

IInv == Types /\ Protocol

LEMMA InitIInv == Init => IInv
<1> SUFFICES ASSUME Init PROVE IInv
  OBVIOUS
<1> USE DEF Init, ManagedInit, SharedInit, QueueInit
<1>1. Types
  BY Owners DEF Types, QueueTypeOK, TasksTypeOK, FlatTypeOK, FrameType, Places, States,
                Contexts, NoCall
<1>2. ~ Granting /\ ~ GrantDue
  BY TaskNames DEF GrantDue, Granting, Queued, Scheduler!IsQueued, Contexts, NoCall
<1>3. Protocol
  BY <1>2 DEF Protocol, FramesInv, OneAsks, AskingInv, ImmediateInv, IdleInv, GrantDueInv,
              GrantingInv, ConfiguredInv, NoTaskTwice, HolderOnRecord, Contexts, NoCall,
              Asking, ImmFrames, Managing, Queued, Scheduler!IsQueued
<1>4. QED
  BY <1>1, <1>3 DEF IInv

-----------------------------------------------------------------------------
(***************************************************************************)
(* The kinds of step that managers take as far as the arbiter is concerned.*)
(* A manager posts tasks of its own, and goes on with a request that it    *)
(* was told of; or it answers it, with a release; or the main context is   *)
(* busy with one of its events, which may also release.                    *)
(***************************************************************************)
Posts == UNCHANGED tasks \/ \E t \in Tasks \ {"grantedTask"} : PostTask(t)

OwnerAsked(ctx) ==
    /\ \/ /\ call[ctx].at = "requested"
          /\ \/ call' = [call EXCEPT ![ctx] = NoCall]
             \/ call' = [call EXCEPT ![ctx] = Frame("requestStarted", call[ctx].id)]
       \/ /\ call[ctx].at = "immediateRequested"
          /\ \E at \in {"immediateStarted", "immediateCheck"} :
                call' = [call EXCEPT ![ctx] = Frame(at, call[ctx].id)]
    /\ Posts
    /\ UNCHANGED <<queueVars, arbiterVars, running, clientVars>>

OwnerAnswers(ctx) ==
    /\ \/ /\ call[ctx].at = "requestStarted"
          /\ call' = [call EXCEPT ![ctx] = NoCall]
       \/ /\ call[ctx].at = "immediateStarted"
          /\ call' = [call EXCEPT ![ctx] = Frame("immediateCheck", call[ctx].id)]
    /\ DefaultOwnerRelease
    /\ UNCHANGED <<queueVars, running, clientVars>>

OwnerWorks ==
    /\ call["interrupt"] = NoCall
    /\ call["main"].at \in Managing \cup {"none"}
    /\ running # "grantedTask"
    /\ \E f \in FrameType :
          /\ f.at \in Managing \/ f = NoCall
          /\ call' = [call EXCEPT !["main"] = f]
    /\ running' \in {running, NoTask}
    /\ DefaultOwnerRelease \/ UNCHANGED <<arbiterVars, tasks>>
    /\ UNCHANGED <<queueVars, clientVars>>

ClientReleased(ctx, c) == ReleaseToNext(ctx, c) \/ (ReleaseToDefault(ctx, c) /\ Posts)

SharedStep ==
    \/ \E ctx \in Contexts :
          \/ Ask(ctx) \/ FinishAsking(ctx)
          \/ OwnerAsked(ctx) \/ OwnerAnswers(ctx)
          \/ \E c \in Clients : ClientReleased(ctx, c)
    \/ RunNextTask \/ Grant \/ OwnerWorks

-----------------------------------------------------------------------------
\* Where the calls are after the context ctx has moved on.
LEMMA FrameMoves ==
    ASSUME FlatTypeOK, NEW ctx \in Contexts, NEW f \in FrameType,
           call' = [call EXCEPT ![ctx] = f]
    PROVE  /\ call'[ctx] = f
           /\ \A other \in Contexts : other # ctx => call'[other] = call[other]
           /\ call' \in [Contexts -> FrameType]
  BY DEF FlatTypeOK

LEMMA FrameHasType ==
    /\ NoCall \in FrameType
    /\ \A at \in Places, id \in Clients \cup {NO_RES} : Frame(at, id) \in FrameType
  BY DEF NoCall, Frame, FrameType, Places

\* Posts of a manager's tasks do not concern the grant.
LEMMA PostsKeepTasks ==
    ASSUME Types, NoTaskTwice, Posts
    PROVE  /\ tasks' \in Seq(Tasks) /\ NoTaskTwice'
           /\ Queued("grantedTask")' <=> Queued("grantedTask")
<1>1. TasksTypeOK
  BY DEF Types
<1>2. CASE UNCHANGED tasks
  BY <1>1, <1>2, SameTasks DEF TasksTypeOK
<1>3. CASE \E t \in Tasks \ {"grantedTask"} : PostTask(t)
  BY <1>1, <1>3, PostedOnce
<1>4. QED
  BY <1>2, <1>3 DEF Posts

\* While the arbiter is idle or in use nobody asks, and no grant is under way.
LEMMA NobodyAsks ==
    ASSUME IInv, NEW c \in Clients, state = "controlled" \/ holds[c]
    PROVE  /\ \A ctx \in Contexts : call[ctx].at \notin Asking
           /\ ~ GrantDue /\ ~ Granting
<1>1. Protocol
  BY DEF IInv
<1>2. ~ GrantDue /\ ~ Granting
  BY <1>1 DEF Protocol, GrantDueInv, GrantingInv, HolderOnRecord
<1>3. ASSUME NEW ctx \in Contexts, call[ctx].at \in Asking
      PROVE  FALSE
  <2>1. state # "controlled" /\ ~ holds[c]
    BY <1>1, <1>3 DEF Protocol, AskingInv, Asking, ImmFrames, HolderOnRecord
  <2>2. QED
    BY <2>1
<1>4. QED
  BY <1>2, <1>3

\* A client that asks while the arbiter is idle: the context is at the place it asks at.
LEMMA AsksIdle ==
    ASSUME IInv, NEW ctx \in Contexts, NEW c \in Clients,
           \/ RequestControlled(ctx, c)
           \/ ImmediateRequest(ctx, c)
    PROVE  IInv'
<1> USE Owners
<1>1. QueueTypeOK /\ TasksTypeOK /\ FlatTypeOK /\ Protocol
  BY DEF IInv, Types
<1>2. /\ CanCall(ctx) /\ state = "controlled" /\ reqResId' = c
      /\ UNCHANGED <<queueVars, resId, taskVars, holds, configured>>
      /\ pending' \in [Clients -> BOOLEAN]
  BY <1>1 DEF RequestControlled, ImmediateRequest, MayRequest, MayRequestNow, Asks, clientVars,
              FlatTypeOK
<1>3. PICK at \in Asking :
          /\ call' = [call EXCEPT ![ctx] = Frame(at, c)]
          /\ \/ at = "requested" /\ state' = "granting"
             \/ at = "immediateRequested" /\ state' = "immGranting"
  BY DEF RequestControlled, ImmediateRequest, Asking, ImmFrames
<1>4. /\ \A other \in Contexts : call[other].at \notin Asking
      /\ ~ GrantDue /\ ~ Granting
  BY <1>2, NobodyAsks
<1>5. /\ call'[ctx] = Frame(at, c)
      /\ \A other \in Contexts : other # ctx => call'[other] = call[other]
      /\ call' \in [Contexts -> FrameType]
  <2>1. Frame(at, c) \in FrameType
    BY FrameHasType DEF Places
  <2>2. QED
    BY <1>1, <1>3, <2>1, FrameMoves
<1>6. Types'
  BY <1>1, <1>2, <1>3, <1>5 DEF Types, QueueTypeOK, TasksTypeOK, FlatTypeOK, queueVars, taskVars,
        States
<1>7. /\ NoTaskTwice' /\ (Queued("grantedTask")' <=> Queued("grantedTask"))
  BY <1>1, <1>2, SameTasks DEF Protocol, taskVars
<1>8. ~ Granting' /\ ~ GrantDue'
  BY <1>2, <1>3, <1>4, <1>5, <1>7 DEF GrantDue, Granting, taskVars, Contexts, Frame, Asking, ImmFrames
<1>9. \A d \in Clients : ~ holds'[d]
  BY <1>1, <1>2 DEF Protocol, HolderOnRecord
<1>10. resId = default_owner_id /\ configured = NO_RES
  BY <1>1, <1>2 DEF Protocol, IdleInv, ConfiguredInv
<1>11. FramesInv'
  BY <1>1, <1>2, <1>3, <1>4, <1>5 DEF Protocol, FramesInv, taskVars, Frame, Contexts, Asking, ImmFrames, Managing
<1>12. OneAsks'
  BY <1>4, <1>5 DEF OneAsks
<1>13. AskingInv' /\ ImmediateInv'
  BY <1>2, <1>3, <1>4, <1>5, <1>8, <1>10 DEF AskingInv, ImmediateInv, Asking, ImmFrames, Frame
<1>14. /\ IdleInv' /\ GrantDueInv' /\ GrantingInv' /\ ConfiguredInv' /\ HolderOnRecord'
  BY <1>1, <1>2, <1>3, <1>7, <1>8, <1>9, <1>10 DEF Protocol, IdleInv, GrantDueInv, GrantingInv, ConfiguredInv,
        HolderOnRecord, taskVars
<1>15. QED
  BY <1>6, <1>7, <1>11, <1>12, <1>13, <1>14 DEF IInv, Protocol

\* Any other request leaves the arbiter as it is, but for its queue.
LEMMA AsksInVain ==
    ASSUME IInv, NEW ctx \in Contexts, NEW c \in Clients,
           RequestAgain(ctx, c) \/ RequestBusy(ctx, c)
    PROVE  IInv'
<1>1. QueueTypeOK /\ TasksTypeOK /\ FlatTypeOK /\ Protocol
  BY DEF IInv, Types
<1>2. /\ UNCHANGED <<arbiterVars, taskVars, call, holds, configured>>
      /\ pending' \in [Clients -> BOOLEAN]
      /\ Enqueue(c) \/ UNCHANGED queueVars
  BY <1>1 DEF RequestAgain, RequestBusy, FlatTypeOK
<1>3. QueueTypeOK'
  BY <1>1, <1>2, EnqueueAdds DEF QueueTypeOK, queueVars
<1>4. Types'
  BY <1>1, <1>2, <1>3 DEF Types, TasksTypeOK, FlatTypeOK, arbiterVars, taskVars
<1>5. /\ NoTaskTwice' /\ (Queued("grantedTask")' <=> Queued("grantedTask"))
  BY <1>1, <1>2, SameTasks DEF Protocol, taskVars
<1>6. (GrantDue' <=> GrantDue) /\ (Granting' <=> Granting)
  BY <1>2, <1>5 DEF GrantDue, Granting, taskVars
<1>7. QED
  BY <1>1, <1>2, <1>4, <1>5, <1>6 DEF IInv, Protocol, FramesInv, OneAsks, AskingInv, ImmediateInv,
        IdleInv, GrantDueInv, GrantingInv, ConfiguredInv, HolderOnRecord, arbiterVars, taskVars

\* The manager goes on with a request it was told of, and does not answer yet.
LEMMA OwnerAskedKeepsIInv ==
    ASSUME IInv, NEW ctx \in Contexts, OwnerAsked(ctx)
    PROVE  IInv'
<1> USE Owners
<1>1. QueueTypeOK /\ TasksTypeOK /\ FlatTypeOK /\ Protocol
  BY DEF IInv, Types
<1>2. PICK f \in FrameType :
          /\ call' = [call EXCEPT ![ctx] = f]
          /\ \/ call[ctx].at = "requested" /\ (f = NoCall \/ f = Frame("requestStarted", call[ctx].id))
             \/ /\ call[ctx].at = "immediateRequested"
                /\ f \in {Frame("immediateStarted", call[ctx].id), Frame("immediateCheck", call[ctx].id)}
  BY <1>1, FrameHasType DEF OwnerAsked, FlatTypeOK, FrameType, Places, Asking, ImmFrames
<1>3. /\ call'[ctx] = f
      /\ \A other \in Contexts : other # ctx => call'[other] = call[other]
      /\ call' \in [Contexts -> FrameType]
  BY <1>1, <1>2, FrameMoves
<1>4. UNCHANGED <<queueVars, arbiterVars, running, clientVars>>
  BY DEF OwnerAsked
<1>5. /\ tasks' \in Seq(Tasks) /\ NoTaskTwice'
      /\ Queued("grantedTask")' <=> Queued("grantedTask")
  BY <1>1, PostsKeepTasks DEF IInv, Protocol, OwnerAsked
<1>6. Types'
  BY <1>1, <1>3, <1>4, <1>5 DEF Types, QueueTypeOK, TasksTypeOK, FlatTypeOK, queueVars, arbiterVars,
        clientVars
<1>7. /\ call[ctx].at \in Asking /\ ~ GrantDue
      /\ \A other \in Contexts : other # ctx => call[other].at \notin Asking
  BY <1>1, <1>2 DEF Protocol, OneAsks, AskingInv, Asking, ImmFrames
<1>8. state \in {"granting", "immGranting"} /\ ~ Granting
  BY <1>1, <1>2 DEF Protocol, AskingInv, GrantingInv, ImmFrames
<1>9. ~ Granting' /\ ~ GrantDue'
  BY <1>2, <1>3, <1>4, <1>5, <1>7, <1>8 DEF Granting, GrantDue, NoCall, Frame, Contexts
<1>10. FramesInv'
  BY <1>1, <1>2, <1>3, <1>4 DEF Protocol, FramesInv, NoCall, Frame, Contexts, Asking, ImmFrames, Managing
<1>11. OneAsks'
  BY <1>3, <1>7 DEF OneAsks
<1>12. AskingInv' /\ ImmediateInv'
  <2>1. CASE call[ctx].at = "requested"
    <3>1. reqResId = call[ctx].id /\ call[ctx].id \in Clients /\ state = "granting" /\ resId = default_owner_id
      BY <1>1, <1>7, <2>1 DEF Protocol, AskingInv
    <3>2. f.at \in {"none", "requestStarted"} /\ (f.at = "requestStarted" => f.id = call[ctx].id)
      BY <1>2, <2>1 DEF NoCall, Frame
    <3>3. QED
      BY <1>3, <1>4, <1>7, <1>9, <3>1, <3>2 DEF AskingInv, ImmediateInv, Asking, ImmFrames, arbiterVars
  <2>2. CASE call[ctx].at = "immediateRequested"
    <3>1. reqResId = call[ctx].id /\ call[ctx].id \in Clients /\ state = "immGranting" /\ resId = default_owner_id
      BY <1>1, <1>7, <2>2 DEF Protocol, AskingInv, ImmFrames
    <3>2. f.at \in {"immediateStarted", "immediateCheck"} /\ f.id = call[ctx].id
      BY <1>2, <2>2 DEF Frame
    <3>3. QED
      BY <1>3, <1>4, <1>7, <1>9, <3>1, <3>2 DEF AskingInv, ImmediateInv, Asking, ImmFrames, arbiterVars
  <2>3. QED
    BY <1>2, <2>1, <2>2
<1>13. IdleInv' /\ GrantDueInv' /\ GrantingInv' /\ ConfiguredInv' /\ HolderOnRecord'
  BY <1>1, <1>4, <1>5, <1>9 DEF Protocol, IdleInv, GrantDueInv, GrantingInv, ConfiguredInv, HolderOnRecord,
        arbiterVars, clientVars
<1>14. QED
  BY <1>5, <1>6, <1>10, <1>11, <1>12, <1>13 DEF IInv, Protocol

\* What a release of the default owner does, by the state it finds.
LEMMA DefaultOwnerReleaseCases ==
    ASSUME IInv, DefaultOwnerRelease
    PROVE  \/ /\ state = "granting" /\ resId = default_owner_id
              /\ UNCHANGED arbiterVars
              /\ tasks' \in Seq(Tasks) /\ NoTaskTwice' /\ Queued("grantedTask")'
              /\ \A u : u # "grantedTask" => (Queued(u)' <=> Queued(u))
           \/ /\ state = "immGranting" /\ resId = default_owner_id
              /\ state' = "busy" /\ resId' = reqResId /\ UNCHANGED <<reqResId, tasks>>
           \/ CannotRelease /\ UNCHANGED <<arbiterVars, tasks>>
  BY PostedOnce, TaskNames DEF DefaultOwnerRelease, DefaultOwnerReleases, IInv, Types, Protocol

\* The manager answers a request in the context it was made in.
LEMMA OwnerAnswersKeepsIInv ==
    ASSUME IInv, NEW ctx \in Contexts, OwnerAnswers(ctx)
    PROVE  IInv'
<1> USE Owners
<1>1. QueueTypeOK /\ TasksTypeOK /\ FlatTypeOK /\ Protocol
  BY DEF IInv, Types
<1>2. /\ DefaultOwnerRelease
      /\ UNCHANGED <<queueVars, running, clientVars>>
  BY DEF OwnerAnswers
<1>3. /\ call[ctx].at \in {"requestStarted", "immediateStarted"} /\ call[ctx].at \in Asking
      /\ call[ctx].id \in Clients /\ reqResId = call[ctx].id /\ ~ GrantDue
      /\ resId = default_owner_id
      /\ state = IF call[ctx].at = "requestStarted" THEN "granting" ELSE "immGranting"
      /\ \A other \in Contexts : other # ctx => call[other].at \notin Asking
  BY <1>1 DEF OwnerAnswers, Protocol, OneAsks, AskingInv, Asking, ImmFrames
<1>4. ~ Granting /\ running # "grantedTask" /\ \A c \in Clients : ~ holds[c]
  BY <1>1, <1>3 DEF Protocol, GrantingInv, GrantDue, HolderOnRecord
<1>5. CASE call[ctx].at = "requestStarted"
  <2>1. call' = [call EXCEPT ![ctx] = NoCall]
    BY <1>5 DEF OwnerAnswers
  <2>2. /\ call'[ctx] = NoCall
        /\ \A other \in Contexts : other # ctx => call'[other] = call[other]
        /\ call' \in [Contexts -> FrameType]
    BY <1>1, <2>1, FrameMoves, FrameHasType
  <2>3. /\ state = "granting" /\ UNCHANGED arbiterVars
        /\ tasks' \in Seq(Tasks) /\ NoTaskTwice' /\ Queued("grantedTask")'
    BY <1>2, <1>3, <1>5, DefaultOwnerReleaseCases DEF CannotRelease
  <2>4. Types'
    BY <1>1, <1>2, <2>2, <2>3 DEF Types, QueueTypeOK, TasksTypeOK, FlatTypeOK, queueVars, arbiterVars,
          clientVars
  <2>5. ~ Granting' /\ running' # "grantedTask"
    BY <1>2, <1>4, <2>2 DEF Granting, NoCall, Contexts
  <2>6. FramesInv' /\ OneAsks' /\ AskingInv' /\ ImmediateInv'
    BY <1>1, <1>2, <1>3, <2>2, <2>3 DEF Protocol, FramesInv, OneAsks, AskingInv, ImmediateInv, NoCall,
          Contexts, Asking, ImmFrames, Managing, arbiterVars
  <2>7. IdleInv' /\ GrantDueInv' /\ GrantingInv' /\ ConfiguredInv' /\ HolderOnRecord'
    BY <1>1, <1>2, <2>3, <2>5 DEF Protocol, IdleInv, GrantDueInv, GrantingInv, ConfiguredInv, HolderOnRecord,
          arbiterVars, clientVars
  <2>8. QED
    BY <2>3, <2>4, <2>6, <2>7 DEF IInv, Protocol
<1>6. CASE call[ctx].at = "immediateStarted"
  <2> DEFINE f == Frame("immediateCheck", call[ctx].id)
  <2>1. call' = [call EXCEPT ![ctx] = f] /\ f \in FrameType
    BY <1>3, <1>6, FrameHasType DEF OwnerAnswers, Places, Asking, ImmFrames
  <2> HIDE DEF f
  <2>2. /\ call'[ctx] = f
        /\ \A other \in Contexts : other # ctx => call'[other] = call[other]
        /\ call' \in [Contexts -> FrameType]
    BY <1>1, <2>1, FrameMoves
  <2>3. f.at = "immediateCheck" /\ f.id = call[ctx].id
    BY DEF f, Frame
  <2>4. /\ state' = "busy" /\ resId' = reqResId /\ UNCHANGED <<reqResId, tasks>>
    BY <1>2, <1>3, <1>6, DefaultOwnerReleaseCases DEF CannotRelease
  <2>5. NoTaskTwice' /\ (Queued("grantedTask")' <=> Queued("grantedTask"))
    BY <1>1, <2>4, SameTasks DEF Protocol
  <2>6. Types'
    BY <1>1, <1>2, <2>2, <2>4 DEF Types, QueueTypeOK, TasksTypeOK, FlatTypeOK, queueVars, clientVars, States
  <2>7. ~ Granting' /\ ~ GrantDue'
    BY <1>2, <1>3, <1>4, <2>2, <2>3, <2>5 DEF Granting, GrantDue, Contexts
  <2>8. \A c \in Clients : ~ holds'[c]
    BY <1>2, <1>4 DEF clientVars
  <2>9. FramesInv' /\ OneAsks' /\ AskingInv' /\ ImmediateInv'
    BY <1>1, <1>2, <1>3, <2>2, <2>3, <2>4, <2>7, <2>8 DEF Protocol, FramesInv, OneAsks, AskingInv,
          ImmediateInv, Contexts, Asking, ImmFrames, Managing
  <2>10. IdleInv' /\ GrantDueInv' /\ GrantingInv' /\ ConfiguredInv' /\ HolderOnRecord'
    BY <1>2, <1>4, <2>4, <2>7, <2>8 DEF IdleInv, GrantDueInv, GrantingInv, ConfiguredInv, HolderOnRecord
  <2>11. QED
    BY <2>5, <2>6, <2>9, <2>10 DEF IInv, Protocol
<1>7. QED
  BY <1>3, <1>5, <1>6

\* The main context is busy with an event of the manager; no request is under way there.
LEMMA OwnerWorksKeepsIInv ==
    ASSUME IInv, OwnerWorks
    PROVE  IInv'
<1> USE Owners
<1>1. QueueTypeOK /\ TasksTypeOK /\ FlatTypeOK /\ Protocol
  BY DEF IInv, Types
<1>2. /\ call["interrupt"] = NoCall
      /\ call["main"].at \in Managing \cup {"none"}
      /\ running # "grantedTask" /\ running' \in {running, NoTask}
      /\ UNCHANGED <<queueVars, clientVars>>
  BY DEF OwnerWorks
<1>3. PICK f \in FrameType :
          /\ f.at \in Managing \/ f = NoCall
          /\ call' = [call EXCEPT !["main"] = f]
  BY DEF OwnerWorks
<1>4. /\ call'["main"] = f /\ call'["interrupt"] = NoCall
      /\ call' \in [Contexts -> FrameType]
  BY <1>1, <1>2, <1>3, FrameMoves DEF Contexts
<1>5. /\ \A ctx \in Contexts : call[ctx].at \notin Asking
      /\ \A ctx \in Contexts : call'[ctx].at \notin Asking
      /\ ~ Granting /\ ~ Granting'
  BY <1>2, <1>3, <1>4 DEF Contexts, NoCall, Asking, ImmFrames, Managing, Granting
<1>6. state # "immGranting"
  BY <1>1, <1>5 DEF Protocol, ImmediateInv, Asking
<1>7. /\ UNCHANGED arbiterVars
      /\ tasks' \in Seq(Tasks) /\ NoTaskTwice'
      /\ Queued("grantedTask")' => Queued("grantedTask") \/ state = "granting"
  <2>1. CASE DefaultOwnerRelease
    BY <1>1, <1>6, <2>1, DefaultOwnerReleaseCases, SameTasks DEF TasksTypeOK, Protocol
  <2>2. CASE UNCHANGED <<arbiterVars, tasks>>
    BY <1>1, <2>2, SameTasks DEF TasksTypeOK, Protocol
  <2>3. QED
    BY <2>1, <2>2 DEF OwnerWorks
<1>8. running' # "grantedTask" /\ running' \in Tasks \cup {NoTask}
  BY <1>1, <1>2, TaskNames DEF TasksTypeOK
<1>9. Types'
  BY <1>1, <1>2, <1>4, <1>7, <1>8 DEF Types, QueueTypeOK, TasksTypeOK, FlatTypeOK, queueVars, arbiterVars,
        clientVars
<1>10. FramesInv' /\ OneAsks' /\ AskingInv' /\ ImmediateInv'
  BY <1>1, <1>3, <1>4, <1>5, <1>6, <1>7, <1>8 DEF FramesInv, OneAsks, AskingInv, ImmediateInv, NoCall,
        Contexts, Asking, ImmFrames, Managing, arbiterVars
<1>11. GrantDueInv'
  BY <1>1, <1>7, <1>8 DEF Protocol, GrantDueInv, GrantDue, arbiterVars
<1>12. IdleInv' /\ GrantingInv' /\ ConfiguredInv' /\ HolderOnRecord'
  BY <1>1, <1>2, <1>5, <1>7 DEF Protocol, IdleInv, GrantingInv, ConfiguredInv, HolderOnRecord,
        arbiterVars, clientVars
<1>13. QED
  BY <1>7, <1>9, <1>10, <1>11, <1>12 DEF IInv, Protocol

\* An immediate request ends: with the resource, or with FAIL.
LEMMA FinishAskingKeepsIInv ==
    ASSUME IInv, NEW ctx \in Contexts, FinishAsking(ctx)
    PROVE  IInv'
<1> USE Owners
<1>1. QueueTypeOK /\ TasksTypeOK /\ FlatTypeOK /\ Protocol
  BY DEF IInv, Types
<1>2. /\ call[ctx].at \in {"immediateCheck", "immediateFail"} /\ call[ctx].at \in Asking
      /\ UNCHANGED <<queueVars, resId, reqResId, taskVars, pending>>
  BY DEF FinishAsking, ImmediateGranted, ImmediateRefused, ImmediateFail, At, Asking, ImmFrames,
         arbiterVars, clientVars
<1>3. /\ call[ctx].id \in Clients /\ reqResId = call[ctx].id /\ ~ GrantDue
      /\ \A other \in Contexts : other # ctx => call[other].at \notin Asking
  BY <1>1, <1>2 DEF Protocol, OneAsks, AskingInv
<1>4. /\ NoTaskTwice' /\ (Queued("grantedTask")' <=> Queued("grantedTask"))
      /\ QueueTypeOK' /\ TasksTypeOK'
  BY <1>1, <1>2, SameTasks DEF Protocol, QueueTypeOK, TasksTypeOK, queueVars, taskVars
<1>5. ~ Granting /\ \A c \in Clients : ~ holds[c]
  BY <1>1, <1>2 DEF Protocol, AskingInv, GrantingInv, HolderOnRecord, ImmFrames
<1>6. CASE ImmediateGranted(ctx)
  <2>1. /\ call[ctx].at = "immediateCheck" /\ resId = call[ctx].id
        /\ configured' = resId /\ holds' = [holds EXCEPT ![resId] = TRUE]
        /\ call' = [call EXCEPT ![ctx] = NoCall]
        /\ UNCHANGED state
    BY <1>6 DEF ImmediateGranted, At, Return, arbiterVars
  <2>2. /\ call'[ctx] = NoCall
        /\ \A other \in Contexts : other # ctx => call'[other] = call[other]
        /\ call' \in [Contexts -> FrameType]
    BY <1>1, <2>1, FrameMoves, FrameHasType
  <2>3. state = "busy"
    BY <1>1, <1>3, <2>1 DEF Protocol, AskingInv
  <2>4. Types'
    BY <1>1, <1>2, <1>3, <1>4, <2>1, <2>2 DEF Types, FlatTypeOK
  <2>5. ~ Granting' /\ ~ GrantDue'
    BY <1>2, <1>3, <1>4, <1>5, <2>2 DEF Granting, GrantDue, NoCall, Contexts, taskVars
  <2>6. HolderOnRecord'
    BY <1>1, <1>2, <1>3, <1>5, <2>1, <2>3 DEF HolderOnRecord, FlatTypeOK
  <2>7. FramesInv' /\ OneAsks' /\ AskingInv' /\ ImmediateInv'
    BY <1>1, <1>2, <1>3, <2>1, <2>2, <2>3 DEF Protocol, FramesInv, OneAsks, AskingInv, ImmediateInv,
          NoCall, Contexts, Asking, ImmFrames, Managing, taskVars
  <2>8. IdleInv' /\ GrantDueInv' /\ GrantingInv' /\ ConfiguredInv'
    BY <1>1, <1>2, <1>4, <2>1, <2>3, <2>5 DEF Protocol, IdleInv, GrantDueInv, GrantingInv, ConfiguredInv,
          taskVars
  <2>9. QED
    BY <1>4, <2>4, <2>6, <2>7, <2>8 DEF IInv, Protocol
<1>7. CASE ImmediateRefused(ctx)
  <2> DEFINE f == Frame("immediateFail", call[ctx].id)
  <2>1. /\ call[ctx].at = "immediateCheck" /\ resId # call[ctx].id
        /\ call' = [call EXCEPT ![ctx] = f] /\ f \in FrameType
        /\ UNCHANGED <<state, holds, configured>>
    BY <1>1, <1>3, <1>7, FrameHasType DEF ImmediateRefused, At, GoTo, arbiterVars, clientVars, Places, Asking,
          ImmFrames, FlatTypeOK
  <2>2. f.at = "immediateFail" /\ f.id = call[ctx].id
    BY DEF Frame
  <2> HIDE DEF f
  <2>3. /\ call'[ctx] = f
        /\ \A other \in Contexts : other # ctx => call'[other] = call[other]
        /\ call' \in [Contexts -> FrameType]
    BY <1>1, <2>1, FrameMoves
  <2>4. state = "immGranting" /\ resId = default_owner_id
    BY <1>1, <2>1 DEF Protocol, AskingInv
  <2>5. Types'
    BY <1>1, <1>2, <1>4, <2>1, <2>3 DEF Types, FlatTypeOK
  <2>6. ~ Granting' /\ ~ GrantDue'
    BY <1>2, <1>3, <1>4, <1>5, <2>2, <2>3 DEF Granting, GrantDue, Contexts, taskVars
  <2>7. FramesInv' /\ OneAsks' /\ AskingInv' /\ ImmediateInv'
    BY <1>1, <1>2, <1>3, <2>1, <2>2, <2>3, <2>4, <2>6 DEF Protocol, FramesInv, OneAsks, AskingInv,
          ImmediateInv, Contexts, Asking, ImmFrames, Managing, taskVars
  <2>8. IdleInv' /\ GrantDueInv' /\ GrantingInv' /\ ConfiguredInv' /\ HolderOnRecord'
    BY <1>1, <1>2, <1>4, <2>1, <2>4, <2>6 DEF Protocol, IdleInv, GrantDueInv, GrantingInv, ConfiguredInv,
          HolderOnRecord, taskVars
  <2>9. QED
    BY <1>4, <2>5, <2>7, <2>8 DEF IInv, Protocol
<1>8. CASE ImmediateFail(ctx)
  <2>1. /\ call[ctx].at = "immediateFail" /\ state' = "controlled"
        /\ call' = [call EXCEPT ![ctx] = NoCall]
        /\ UNCHANGED <<holds, configured>>
    BY <1>8 DEF ImmediateFail, At, Return, clientVars
  <2>2. /\ call'[ctx] = NoCall
        /\ \A other \in Contexts : other # ctx => call'[other] = call[other]
        /\ call' \in [Contexts -> FrameType]
    BY <1>1, <2>1, FrameMoves, FrameHasType
  <2>3. state = "immGranting" /\ resId = default_owner_id
    BY <1>1, <2>1 DEF Protocol, AskingInv, ImmFrames
  <2>4. Types'
    BY <1>1, <1>2, <1>4, <2>1, <2>2 DEF Types, FlatTypeOK, States
  <2>5. ~ Granting' /\ ~ GrantDue'
    BY <1>2, <1>3, <1>4, <1>5, <2>2 DEF Granting, GrantDue, NoCall, Contexts, taskVars
  <2>6. FramesInv' /\ OneAsks' /\ AskingInv' /\ ImmediateInv'
    BY <1>1, <1>2, <1>3, <2>1, <2>2 DEF Protocol, FramesInv, OneAsks, AskingInv, ImmediateInv,
          NoCall, Contexts, Asking, ImmFrames, Managing, taskVars
  <2>7. IdleInv' /\ GrantDueInv' /\ GrantingInv' /\ ConfiguredInv' /\ HolderOnRecord'
    BY <1>1, <1>2, <1>4, <1>5, <2>1, <2>3, <2>5 DEF Protocol, IdleInv, GrantDueInv, GrantingInv,
          ConfiguredInv, HolderOnRecord, taskVars
  <2>8. QED
    BY <1>4, <2>4, <2>6, <2>7 DEF IInv, Protocol
<1>9. QED
  BY <1>6, <1>7, <1>8 DEF FinishAsking

LEMMA ClientReleasedKeepsIInv ==
    ASSUME IInv, NEW ctx \in Contexts, NEW c \in Clients, ClientReleased(ctx, c)
    PROVE  IInv'
<1> USE Owners
<1>1. QueueTypeOK /\ TasksTypeOK /\ FlatTypeOK /\ Protocol
  BY DEF IInv, Types
<1>2. /\ CanCall(ctx) /\ holds[c] /\ state = "busy" /\ resId = c
      /\ configured' = NO_RES /\ holds' = [holds EXCEPT ![c] = FALSE]
      /\ UNCHANGED <<running, call, pending>>
  BY DEF ClientReleased, ReleaseToNext, ReleaseToDefault
<1>3. /\ \A other \in Contexts : call[other].at \notin Asking
      /\ ~ GrantDue /\ ~ Granting
  BY <1>2, NobodyAsks
<1>4. \A d \in Clients : ~ holds'[d]
  BY <1>1, <1>2 DEF Protocol, HolderOnRecord, FlatTypeOK
<1>5. ~ Granting' /\ running' # "grantedTask"
  BY <1>2, <1>3 DEF Granting, GrantDue
<1>6. /\ reqResId' \in Clients /\ resId' \in {default_owner_id, NO_RES}
      /\ QueueTypeOK'
      /\ tasks' \in Seq(Tasks) /\ NoTaskTwice'
      /\ \/ state' = "granting"
         \/ state' = "controlled" /\ resId' = default_owner_id /\ ~ Queued("grantedTask")'
  <2>1. CASE ReleaseToNext(ctx, c)
    <3>1. Dequeue /\ reqResId' = NextUp /\ resId' = NO_RES /\ state' = "granting"
          /\ PostTask("grantedTask")
      BY <2>1 DEF ReleaseToNext
    <3>2. QED
      BY <1>1, <3>1, DequeueLeavesOthers, PostedOnce, TaskNames DEF Protocol
  <2>2. CASE ReleaseToDefault(ctx, c) /\ Posts
    <3>1. /\ resId' = default_owner_id /\ state' = "controlled"
          /\ UNCHANGED <<queueVars, reqResId>>
      BY <2>2 DEF ReleaseToDefault
    <3>2. /\ tasks' \in Seq(Tasks) /\ NoTaskTwice'
          /\ Queued("grantedTask")' <=> Queued("grantedTask")
      BY <1>1, <2>2, PostsKeepTasks DEF IInv, Protocol
    <3>3. QED
      BY <1>1, <1>3, <3>1, <3>2 DEF QueueTypeOK, queueVars, GrantDue, FlatTypeOK
  <2>3. QED
    BY <2>1, <2>2 DEF ClientReleased
<1>7. Types'
  BY <1>1, <1>2, <1>6 DEF Types, TasksTypeOK, FlatTypeOK, States
<1>8. FramesInv' /\ OneAsks' /\ AskingInv' /\ ImmediateInv'
  BY <1>1, <1>2, <1>3, <1>6 DEF Protocol, FramesInv, OneAsks, AskingInv, ImmediateInv, Asking, ImmFrames
<1>9. IdleInv' /\ GrantDueInv' /\ GrantingInv' /\ ConfiguredInv' /\ HolderOnRecord'
  BY <1>2, <1>4, <1>5, <1>6 DEF IdleInv, GrantDueInv, GrantDue, GrantingInv, ConfiguredInv, HolderOnRecord
<1>10. QED
  BY <1>6, <1>7, <1>8, <1>9 DEF IInv, Protocol

LEMMA RunNextTaskKeepsIInv ==
    ASSUME IInv, RunNextTask
    PROVE  IInv'
<1>1. QueueTypeOK /\ TasksTypeOK /\ FlatTypeOK /\ Protocol
  BY DEF IInv, Types
<1>2. /\ Scheduler!Start
      /\ call["main"] = NoCall
      /\ UNCHANGED <<queueVars, arbiterVars, call, clientVars>>
  BY DEF RunNextTask, CanCall
<1>3. /\ TasksTypeOK' /\ NoTaskTwice'
      /\ Queued("grantedTask")' => Queued("grantedTask")
      /\ running' = "grantedTask" => Queued("grantedTask") /\ ~ Queued("grantedTask")'
  BY <1>1, <1>2, StartedOnce DEF Protocol
<1>4. Types'
  BY <1>1, <1>2, <1>3 DEF Types, QueueTypeOK, FlatTypeOK, queueVars, arbiterVars, clientVars
<1>5. ~ Granting /\ ~ Granting' /\ (GrantDue' => GrantDue)
  BY <1>2, <1>3 DEF GrantDue, Granting, NoCall
<1>6. FramesInv' /\ OneAsks' /\ AskingInv' /\ ImmediateInv'
  BY <1>1, <1>2, <1>5 DEF Protocol, FramesInv, OneAsks, AskingInv, ImmediateInv, NoCall, Managing,
        arbiterVars, clientVars
<1>7. IdleInv' /\ GrantDueInv' /\ GrantingInv' /\ ConfiguredInv' /\ HolderOnRecord'
  BY <1>1, <1>2, <1>3, <1>5 DEF Protocol, IdleInv, GrantDueInv, GrantingInv, ConfiguredInv, HolderOnRecord,
        arbiterVars, clientVars
<1>8. QED
  BY <1>3, <1>4, <1>6, <1>7 DEF IInv, Protocol

LEMMA GrantKeepsIInv ==
    ASSUME IInv, Grant
    PROVE  IInv'
<1> USE Owners
<1>1. QueueTypeOK /\ TasksTypeOK /\ FlatTypeOK /\ Protocol
  BY DEF IInv, Types
<1>2. CASE GrantedTask
  <2> DEFINE f == Frame("configure", NO_RES)
  <2>1. /\ running = "grantedTask" /\ call["main"] = NoCall /\ call["interrupt"] = NoCall
        /\ resId' = reqResId /\ state' = "busy"
        /\ call' = [call EXCEPT !["main"] = f] /\ f \in FrameType
        /\ UNCHANGED <<queueVars, reqResId, taskVars, clientVars>>
    BY <1>2, FrameHasType DEF GrantedTask, InTask, Runs, Places
  <2>2. GrantDue /\ state = "granting" /\ ~ Queued("grantedTask")
    BY <1>1, <2>1 DEF GrantDue, Granting, NoCall, Protocol, GrantDueInv
  <2>3. /\ \A ctx \in Contexts : call[ctx].at \notin Asking
        /\ \A c \in Clients : ~ holds[c]
    BY <1>1, <2>2 DEF Protocol, AskingInv, HolderOnRecord
  <2>4. f.at = "configure"
    BY DEF Frame
  <2> HIDE DEF f
  <2>5. /\ call'["main"] = f /\ call'["interrupt"] = NoCall
        /\ call' \in [Contexts -> FrameType]
    BY <1>1, <2>1, FrameMoves DEF Contexts
  <2>6. /\ NoTaskTwice' /\ ~ Queued("grantedTask")'
    BY <1>1, <2>1, <2>2, SameTasks DEF Protocol, taskVars
  <2>7. Types'
    BY <1>1, <2>1, <2>5 DEF Types, QueueTypeOK, TasksTypeOK, FlatTypeOK, States, queueVars, taskVars, clientVars
  <2>8. Granting' /\ ~ GrantDue'
    BY <2>4, <2>5, <2>6 DEF Granting, GrantDue
  <2>9. FramesInv' /\ OneAsks' /\ AskingInv' /\ ImmediateInv'
    BY <2>1, <2>4, <2>5 DEF FramesInv, OneAsks, AskingInv, ImmediateInv, Contexts, NoCall, Asking, ImmFrames,
          Managing
  <2>10. IdleInv' /\ GrantDueInv' /\ GrantingInv' /\ ConfiguredInv' /\ HolderOnRecord'
    BY <1>1, <2>1, <2>3, <2>4, <2>5, <2>6, <2>8 DEF IdleInv, GrantDueInv, GrantingInv, ConfiguredInv,
          HolderOnRecord, taskVars, clientVars, FlatTypeOK
  <2>11. QED
    BY <2>6, <2>7, <2>9, <2>10 DEF IInv, Protocol
<1>3. ASSUME Configure \/ Granted
      PROVE  IInv'
  <2>1. /\ Granting /\ call["interrupt"] = NoCall
        /\ UNCHANGED <<queueVars, arbiterVars, tasks>>
    BY <1>3 DEF Configure, Granted, At, Runs, Granting, taskVars, Scheduler!Finish
  <2>2. /\ running = "grantedTask" /\ state = "busy" /\ resId \in Clients
        /\ \A c \in Clients : ~ holds[c]
        /\ ~ GrantDue /\ ~ Queued("grantedTask")
    BY <1>1, <2>1 DEF Protocol, GrantingInv, GrantDueInv
  <2>3. /\ NoTaskTwice' /\ ~ Queued("grantedTask")'
    BY <1>1, <2>1, <2>2, SameTasks DEF Protocol
  <2>4. CASE Configure
    <3> DEFINE f == Frame("granted", call["main"].id)
    <3>1. /\ configured' = resId /\ call' = [call EXCEPT !["main"] = f] /\ f \in FrameType
          /\ UNCHANGED <<taskVars, holds, pending>>
      BY <1>1, <2>4, FrameHasType DEF Configure, GoTo, FlatTypeOK, FrameType, Contexts, Places
    <3>2. f.at = "granted"
      BY DEF Frame
    <3> HIDE DEF f
    <3>3. /\ call'["main"] = f /\ call'["interrupt"] = NoCall
          /\ call' \in [Contexts -> FrameType]
      BY <1>1, <2>1, <3>1, FrameMoves DEF Contexts
    <3>4. Types'
      BY <1>1, <2>1, <2>2, <3>1, <3>3 DEF Types, QueueTypeOK, TasksTypeOK, FlatTypeOK, queueVars, arbiterVars,
            taskVars
    <3>5. Granting' /\ ~ GrantDue'
      BY <2>3, <3>2, <3>3 DEF Granting, GrantDue
    <3>6. FramesInv' /\ OneAsks' /\ AskingInv' /\ ImmediateInv'
      BY <2>1, <2>2, <3>2, <3>3 DEF FramesInv, OneAsks, AskingInv, ImmediateInv, Contexts, NoCall, Asking,
            ImmFrames, Managing, arbiterVars
    <3>7. IdleInv' /\ GrantDueInv' /\ GrantingInv' /\ ConfiguredInv' /\ HolderOnRecord'
      BY <2>1, <2>2, <2>3, <3>1, <3>5 DEF IdleInv, GrantDueInv, GrantingInv, ConfiguredInv,
            HolderOnRecord, taskVars, arbiterVars
    <3>8. QED
      BY <2>3, <3>4, <3>6, <3>7 DEF IInv, Protocol
  <2>5. CASE Granted
    <3>1. /\ call["main"].at = "granted" /\ call' = [call EXCEPT !["main"] = NoCall]
          /\ holds' = [holds EXCEPT ![resId] = TRUE] /\ pending' = [pending EXCEPT ![resId] = FALSE]
          /\ running' = NoTask /\ UNCHANGED configured
      BY <2>5 DEF Granted, At, Return, Scheduler!Finish
    <3>2. configured = resId
      BY <1>1, <2>1, <3>1 DEF Protocol, GrantingInv
    <3>3. /\ call'["main"] = NoCall /\ call'["interrupt"] = NoCall
          /\ call' \in [Contexts -> FrameType]
      BY <1>1, <2>1, <3>1, FrameMoves, FrameHasType DEF Contexts
    <3>4. Types'
      BY <1>1, <2>1, <2>2, <3>1, <3>3 DEF Types, QueueTypeOK, TasksTypeOK, FlatTypeOK, queueVars, arbiterVars
    <3>5. ~ Granting' /\ ~ GrantDue'
      BY <2>3, <3>1, <3>3, TaskNames DEF Granting, GrantDue, NoCall
    <3>6. FramesInv' /\ OneAsks' /\ AskingInv' /\ ImmediateInv'
      BY <2>1, <2>2, <3>3 DEF FramesInv, OneAsks, AskingInv, ImmediateInv, Contexts, NoCall, Asking,
            ImmFrames, Managing, arbiterVars
    <3>7. HolderOnRecord'
      BY <1>1, <2>1, <2>2, <3>1, <3>2 DEF HolderOnRecord, arbiterVars, FlatTypeOK
    <3>8. IdleInv' /\ GrantDueInv' /\ GrantingInv' /\ ConfiguredInv'
      BY <2>1, <2>2, <2>3, <3>1, <3>5 DEF IdleInv, GrantDueInv, GrantingInv, ConfiguredInv, arbiterVars
    <3>9. QED
      BY <2>3, <3>4, <3>6, <3>7, <3>8 DEF IInv, Protocol
  <2>6. QED
    BY <1>3, <2>4, <2>5
<1>4. QED
  BY <1>2, <1>3 DEF Grant

(***************************************************************************)
(* No step of any of these kinds breaks the arbiter's invariant.           *)
(***************************************************************************)
LEMMA SharedStepKeepsIInv ==
    ASSUME IInv, SharedStep
    PROVE  IInv'
<1>1. ASSUME NEW ctx \in Contexts, Ask(ctx)
      PROVE  IInv'
  BY <1>1, AsksIdle, AsksInVain DEF Ask, Request
<1>2. QED
  BY <1>1, FinishAskingKeepsIInv, OwnerAskedKeepsIInv, OwnerAnswersKeepsIInv, ClientReleasedKeepsIInv,
     RunNextTaskKeepsIInv, GrantKeepsIInv, OwnerWorksKeepsIInv DEF SharedStep

LEMMA StutterKeepsIInv ==
    ASSUME IInv, UNCHANGED sharedVars
    PROVE  IInv'
<1>1. UNCHANGED <<waiting, last, state, resId, reqResId, tasks, running, call, holds, pending, configured>>
  BY DEF sharedVars, queueVars, arbiterVars, taskVars, clientVars
<1>2. (Granting' <=> Granting) /\ (GrantDue' <=> GrantDue) /\ (Queued("grantedTask")' <=> Queued("grantedTask"))
  BY <1>1, SameTasks DEF Granting, GrantDue
<1>3. Types'
  BY <1>1 DEF IInv, Types, QueueTypeOK, TasksTypeOK, FlatTypeOK
<1>4. Protocol'
  BY <1>1, <1>2 DEF IInv, Protocol, FramesInv, OneAsks, AskingInv, ImmediateInv, IdleInv, GrantDueInv,
        GrantingInv, ConfiguredInv, NoTaskTwice, HolderOnRecord
<1>5. QED
  BY <1>3, <1>4 DEF IInv

-----------------------------------------------------------------------------
(***************************************************************************)
(* The managers are instances: what they take over from ManagedArbiter is  *)
(* the same in each.                                                       *)
(***************************************************************************)
LEMMA SameP ==
    /\ \A ctx : P!AskManaged(ctx) <=> AskManaged(ctx)
    /\ \A ctx : P!FinishAsking(ctx) <=> FinishAsking(ctx)
    /\ P!Grant <=> Grant
    /\ P!RunNextTask <=> RunNextTask
    /\ \A ctx, c : P!ReleaseToNext(ctx, c) <=> ReleaseToNext(ctx, c)
    /\ \A ctx, c : P!ReleaseToDefault(ctx, c) <=> ReleaseToDefault(ctx, c)
    /\ P!DefaultOwnerRelease <=> DefaultOwnerRelease
    /\ \A t : P!PostTask(t) <=> PostTask(t)
    /\ \A t : P!InTask(t) <=> InTask(t)
    /\ \A ctx : P!CanCall(ctx) <=> CanCall(ctx)
    /\ \A ctx, at : P!At(ctx, at) <=> At(ctx, at)
    /\ \A ctx, at : P!GoTo(ctx, at) <=> GoTo(ctx, at)
    /\ \A ctx : P!Return(ctx) <=> Return(ctx)
    /\ P!EndTask <=> EndTask
    /\ P!SplitStart <=> SplitStart
    /\ P!SplitStop <=> SplitStop
    /\ P!DeviceStarted <=> DeviceStarted
    /\ P!DeviceStopped <=> DeviceStopped
    /\ \A ctx : P!IgnoreImmediateRequested(ctx) <=> IgnoreImmediateRequested(ctx)
    /\ P!Split <=> Split
  BY DEF P!AskManaged, AskManaged, P!Ask, Ask, P!Clients, Clients, P!Request, Request,
    P!RequestControlled, RequestControlled, P!MayRequest, MayRequest, P!Asks, Asks, P!CanCall,
    CanCall, P!Runs, Runs, P!NoCall, NoCall, P!NO_RES, NO_RES, P!Contexts, Contexts, P!Frame,
    Frame, P!queueVars, queueVars, P!taskVars, taskVars, P!RequestAgain, RequestAgain,
    P!arbiterVars, arbiterVars, P!RequestBusy, RequestBusy, P!Enqueue, Enqueue, P!IsEnqueued,
    IsEnqueued, P!ImmediateRequest, ImmediateRequest, P!MayRequestNow, MayRequestNow,
    P!clientVars, clientVars, P!FinishAsking, FinishAsking, P!ImmediateGranted,
    ImmediateGranted, P!At, At, P!Return, Return, P!ImmediateRefused, ImmediateRefused, P!GoTo,
    GoTo, P!ImmediateFail, ImmediateFail, P!Grant, Grant, P!GrantedTask, GrantedTask, P!InTask,
    InTask, P!Configure, Configure, P!Granted, Granted, P!Scheduler!Finish, Scheduler!Finish,
    P!RunNextTask, RunNextTask, P!Scheduler!Start, Scheduler!Start, P!ReleaseToNext,
    ReleaseToNext, P!Dequeue, Dequeue, P!NextPlace, NextPlace, P!Distance, Distance, P!NextUp,
    NextUp, P!PostTask, PostTask, P!Scheduler!LineUp, Scheduler!LineUp, P!Scheduler!IsQueued,
    Scheduler!IsQueued, P!ReleaseToDefault, ReleaseToDefault, P!IsEmpty, IsEmpty,
    P!default_owner_id, default_owner_id, P!DefaultOwnerRelease, DefaultOwnerRelease,
    P!DefaultOwnerReleases, DefaultOwnerReleases, P!CannotRelease, CannotRelease, P!EndTask,
    EndTask, P!SplitStart, SplitStart, P!Split, Split, P!Failures, Failures, P!SplitStop,
    SplitStop, P!DeviceStarted, DeviceStarted, P!DeviceStopped, DeviceStopped,
    P!IgnoreImmediateRequested, IgnoreImmediateRequested

LEMMA SameD ==
    /\ \A ctx : D!AskManaged(ctx) <=> AskManaged(ctx)
    /\ \A ctx : D!FinishAsking(ctx) <=> FinishAsking(ctx)
    /\ D!Grant <=> Grant
    /\ D!RunNextTask <=> RunNextTask
    /\ \A ctx, c : D!ReleaseToNext(ctx, c) <=> ReleaseToNext(ctx, c)
    /\ \A ctx, c : D!ReleaseToDefault(ctx, c) <=> ReleaseToDefault(ctx, c)
    /\ D!DefaultOwnerRelease <=> DefaultOwnerRelease
    /\ \A t : D!PostTask(t) <=> PostTask(t)
    /\ \A t : D!InTask(t) <=> InTask(t)
    /\ \A ctx : D!CanCall(ctx) <=> CanCall(ctx)
    /\ \A ctx, at : D!At(ctx, at) <=> At(ctx, at)
    /\ \A ctx, at : D!GoTo(ctx, at) <=> GoTo(ctx, at)
    /\ \A ctx : D!Return(ctx) <=> Return(ctx)
    /\ D!EndTask <=> EndTask
    /\ D!SplitStart <=> SplitStart
    /\ D!SplitStop <=> SplitStop
    /\ D!DeviceStarted <=> DeviceStarted
    /\ D!DeviceStopped <=> DeviceStopped
    /\ \A ctx : D!IgnoreImmediateRequested(ctx) <=> IgnoreImmediateRequested(ctx)
    /\ D!Split <=> Split
    /\ D!Failures = Failures
  BY DEF D!AskManaged, AskManaged, D!Ask, Ask, D!Clients, Clients, D!Request, Request,
    D!RequestControlled, RequestControlled, D!MayRequest, MayRequest, D!Asks, Asks, D!CanCall,
    CanCall, D!Runs, Runs, D!NoCall, NoCall, D!NO_RES, NO_RES, D!Contexts, Contexts, D!Frame,
    Frame, D!queueVars, queueVars, D!taskVars, taskVars, D!RequestAgain, RequestAgain,
    D!arbiterVars, arbiterVars, D!RequestBusy, RequestBusy, D!Enqueue, Enqueue, D!IsEnqueued,
    IsEnqueued, D!ImmediateRequest, ImmediateRequest, D!MayRequestNow, MayRequestNow,
    D!clientVars, clientVars, D!FinishAsking, FinishAsking, D!ImmediateGranted,
    ImmediateGranted, D!At, At, D!Return, Return, D!ImmediateRefused, ImmediateRefused, D!GoTo,
    GoTo, D!ImmediateFail, ImmediateFail, D!Grant, Grant, D!GrantedTask, GrantedTask, D!InTask,
    InTask, D!Configure, Configure, D!Granted, Granted, D!Scheduler!Finish, Scheduler!Finish,
    D!RunNextTask, RunNextTask, D!Scheduler!Start, Scheduler!Start, D!ReleaseToNext,
    ReleaseToNext, D!Dequeue, Dequeue, D!NextPlace, NextPlace, D!Distance, Distance, D!NextUp,
    NextUp, D!PostTask, PostTask, D!Scheduler!LineUp, Scheduler!LineUp, D!Scheduler!IsQueued,
    Scheduler!IsQueued, D!ReleaseToDefault, ReleaseToDefault, D!IsEmpty, IsEmpty,
    D!default_owner_id, default_owner_id, D!DefaultOwnerRelease, DefaultOwnerRelease,
    D!DefaultOwnerReleases, DefaultOwnerReleases, D!CannotRelease, CannotRelease, D!EndTask,
    EndTask, D!SplitStart, SplitStart, D!Split, Split, D!Failures, Failures, D!SplitStop,
    SplitStop, D!DeviceStarted, DeviceStarted, D!DeviceStopped, DeviceStopped,
    D!IgnoreImmediateRequested, IgnoreImmediateRequested

LEMMA SameA ==
    /\ \A ctx : A!AskManaged(ctx) <=> AskManaged(ctx)
    /\ \A ctx : A!FinishAsking(ctx) <=> FinishAsking(ctx)
    /\ A!Grant <=> Grant
    /\ A!RunNextTask <=> RunNextTask
    /\ \A ctx, c : A!ReleaseToNext(ctx, c) <=> ReleaseToNext(ctx, c)
    /\ \A ctx, c : A!ReleaseToDefault(ctx, c) <=> ReleaseToDefault(ctx, c)
    /\ A!DefaultOwnerRelease <=> DefaultOwnerRelease
    /\ \A t : A!PostTask(t) <=> PostTask(t)
    /\ \A t : A!InTask(t) <=> InTask(t)
    /\ \A ctx : A!CanCall(ctx) <=> CanCall(ctx)
    /\ \A ctx, at : A!At(ctx, at) <=> At(ctx, at)
    /\ \A ctx, at : A!GoTo(ctx, at) <=> GoTo(ctx, at)
    /\ \A ctx : A!Return(ctx) <=> Return(ctx)
  BY DEF A!AskManaged, AskManaged, A!Ask, Ask, A!Clients, Clients, A!Request, Request,
    A!RequestControlled, RequestControlled, A!MayRequest, MayRequest, A!Asks, Asks, A!CanCall,
    CanCall, A!Runs, Runs, A!NoCall, NoCall, A!NO_RES, NO_RES, A!Contexts, Contexts, A!Frame,
    Frame, A!queueVars, queueVars, A!taskVars, taskVars, A!RequestAgain, RequestAgain,
    A!arbiterVars, arbiterVars, A!RequestBusy, RequestBusy, A!Enqueue, Enqueue, A!IsEnqueued,
    IsEnqueued, A!ImmediateRequest, ImmediateRequest, A!MayRequestNow, MayRequestNow,
    A!clientVars, clientVars, A!FinishAsking, FinishAsking, A!ImmediateGranted,
    ImmediateGranted, A!At, At, A!Return, Return, A!ImmediateRefused, ImmediateRefused, A!GoTo,
    GoTo, A!ImmediateFail, ImmediateFail, A!Grant, Grant, A!GrantedTask, GrantedTask, A!InTask,
    InTask, A!Configure, Configure, A!Granted, Granted, A!Scheduler!Finish, Scheduler!Finish,
    A!RunNextTask, RunNextTask, A!Scheduler!Start, Scheduler!Start, A!ReleaseToNext,
    ReleaseToNext, A!Dequeue, Dequeue, A!NextPlace, NextPlace, A!Distance, Distance, A!NextUp,
    NextUp, A!PostTask, PostTask, A!Scheduler!LineUp, Scheduler!LineUp, A!Scheduler!IsQueued,
    Scheduler!IsQueued, A!ReleaseToDefault, ReleaseToDefault, A!IsEmpty, IsEmpty,
    A!default_owner_id, default_owner_id, A!DefaultOwnerRelease, DefaultOwnerRelease,
    A!DefaultOwnerReleases, DefaultOwnerReleases, A!CannotRelease, CannotRelease

LEMMA SameAD ==
    /\ \A ctx : AD!AskManaged(ctx) <=> AskManaged(ctx)
    /\ \A ctx : AD!FinishAsking(ctx) <=> FinishAsking(ctx)
    /\ AD!Grant <=> Grant
    /\ AD!RunNextTask <=> RunNextTask
    /\ \A ctx, c : AD!ReleaseToNext(ctx, c) <=> ReleaseToNext(ctx, c)
    /\ \A ctx, c : AD!ReleaseToDefault(ctx, c) <=> ReleaseToDefault(ctx, c)
    /\ AD!DefaultOwnerRelease <=> DefaultOwnerRelease
    /\ \A t : AD!PostTask(t) <=> PostTask(t)
    /\ \A t : AD!InTask(t) <=> InTask(t)
    /\ \A ctx : AD!CanCall(ctx) <=> CanCall(ctx)
    /\ \A ctx, at : AD!At(ctx, at) <=> At(ctx, at)
    /\ \A ctx, at : AD!GoTo(ctx, at) <=> GoTo(ctx, at)
    /\ \A ctx : AD!Return(ctx) <=> Return(ctx)
    /\ AD!EndTask <=> EndTask
  BY DEF AD!AskManaged, AskManaged, AD!Ask, Ask, AD!Clients, Clients, AD!Request, Request,
    AD!RequestControlled, RequestControlled, AD!MayRequest, MayRequest, AD!Asks, Asks,
    AD!CanCall, CanCall, AD!Runs, Runs, AD!NoCall, NoCall, AD!NO_RES, NO_RES, AD!Contexts,
    Contexts, AD!Frame, Frame, AD!queueVars, queueVars, AD!taskVars, taskVars, AD!RequestAgain,
    RequestAgain, AD!arbiterVars, arbiterVars, AD!RequestBusy, RequestBusy, AD!Enqueue, Enqueue,
    AD!IsEnqueued, IsEnqueued, AD!ImmediateRequest, ImmediateRequest, AD!MayRequestNow,
    MayRequestNow, AD!clientVars, clientVars, AD!FinishAsking, FinishAsking,
    AD!ImmediateGranted, ImmediateGranted, AD!At, At, AD!Return, Return, AD!ImmediateRefused,
    ImmediateRefused, AD!GoTo, GoTo, AD!ImmediateFail, ImmediateFail, AD!Grant, Grant,
    AD!GrantedTask, GrantedTask, AD!InTask, InTask, AD!Configure, Configure, AD!Granted,
    Granted, AD!Scheduler!Finish, Scheduler!Finish, AD!RunNextTask, RunNextTask,
    AD!Scheduler!Start, Scheduler!Start, AD!ReleaseToNext, ReleaseToNext, AD!Dequeue, Dequeue,
    AD!NextPlace, NextPlace, AD!Distance, Distance, AD!NextUp, NextUp, AD!PostTask, PostTask,
    AD!Scheduler!LineUp, Scheduler!LineUp, AD!Scheduler!IsQueued, Scheduler!IsQueued,
    AD!ReleaseToDefault, ReleaseToDefault, AD!IsEmpty, IsEmpty, AD!default_owner_id,
    default_owner_id, AD!DefaultOwnerRelease, DefaultOwnerRelease, AD!DefaultOwnerReleases,
    DefaultOwnerReleases, AD!CannotRelease, CannotRelease, AD!EndTask, EndTask

-----------------------------------------------------------------------------
(* Every step of a manager is of one of the shared kinds. *)

\* The manager has the main context: in its task, in its event, or between tasks.
ManagersTurn ==
    \/ \E t \in Tasks \ {"grantedTask"} : InTask(t)
    \/ \E at \in Managing : At("main", at)
    \/ CanCall("main")

\* ... and leaves it, or goes on to another place of its event.
MovesOn ==
    \/ UNCHANGED call /\ call["main"] = NoCall
    \/ Return("main")
    \/ \E at \in Managing : \/ GoTo("main", at)
                            \/ call' = [call EXCEPT !["main"] = Frame(at, NO_RES)]

OwnersMove ==
    /\ ManagersTurn /\ MovesOn
    /\ running' \in {running, NoTask}
    /\ DefaultOwnerRelease \/ UNCHANGED <<arbiterVars, tasks>>
    /\ UNCHANGED <<queueVars, clientVars>>

LEMMA ManagersTurnFacts ==
    ASSUME IInv, ManagersTurn
    PROVE  /\ call["interrupt"] = NoCall
           /\ call["main"].at \in Managing \cup {"none"}
           /\ running # "grantedTask"
           /\ call = [call EXCEPT !["main"] = call["main"]]
           /\ call["main"].id \in Clients \cup {NO_RES}
<1>1. FramesInv /\ FlatTypeOK
  BY DEF IInv, Types, Protocol
<1>2. call = [call EXCEPT !["main"] = call["main"]] /\ call["main"].id \in Clients \cup {NO_RES}
  BY <1>1 DEF FlatTypeOK, FrameType, Contexts
<1>3. QED
  BY <1>1, <1>2, TaskNames DEF ManagersTurn, InTask, At, CanCall, Runs, FramesInv, NoCall, Contexts

LEMMA OwnersMoveIsWork ==
    ASSUME IInv, OwnersMove
    PROVE  OwnerWorks
<1>1. /\ call["interrupt"] = NoCall
      /\ call["main"].at \in Managing \cup {"none"}
      /\ running # "grantedTask"
      /\ call = [call EXCEPT !["main"] = call["main"]]
      /\ call["main"].id \in Clients \cup {NO_RES}
  BY ManagersTurnFacts DEF OwnersMove
<1>2. \E f \in FrameType : /\ f.at \in Managing \/ f = NoCall
                           /\ call' = [call EXCEPT !["main"] = f]
  <2>1. CASE UNCHANGED call /\ call["main"] = NoCall
    BY <1>1, <2>1, FrameHasType
  <2>2. CASE Return("main")
    BY <2>2, FrameHasType DEF Return
  <2>3. ASSUME NEW at \in Managing, NEW id \in Clients \cup {NO_RES},
               call' = [call EXCEPT !["main"] = Frame(at, id)]
        PROVE  \E f \in FrameType : /\ f.at \in Managing \/ f = NoCall
                                    /\ call' = [call EXCEPT !["main"] = f]
    <3>1. Frame(at, id) \in FrameType /\ Frame(at, id).at = at
      BY FrameHasType DEF Places, Frame
    <3>2. QED
      BY <2>3, <3>1
  <2>4. ASSUME NEW at \in Managing, GoTo("main", at)
        PROVE  call' = [call EXCEPT !["main"] = Frame(at, call["main"].id)]
    BY <2>4 DEF GoTo
  <2>5. QED
    BY <1>1, <2>1, <2>2, <2>3, <2>4 DEF OwnersMove, MovesOn
<1>3. QED
  BY <1>1, <1>2 DEF OwnerWorks, OwnersMove

LEMMA DeviceMoves ==
    ASSUME DeviceStarted \/ DeviceStopped
    PROVE  OwnersMove
  BY DEF DeviceStarted, DeviceStopped, OwnersMove, ManagersTurn, MovesOn, Managing, taskVars

\* A manager that ignores an immediate request lets it go on to fail.
LEMMA IgnoredIsAsked ==
    ASSUME NEW ctx, IgnoreImmediateRequested(ctx)
    PROVE  OwnerAsked(ctx)
  BY DEF IgnoreImmediateRequested, OwnerAsked, Posts, At, GoTo, taskVars

\* The steps of PowerManagerP in the main context.
LEMMA MovesOfP ==
    ASSUME \/ P!StartTask \/ P!StartDone \/ P!StopTask \/ P!StopDone
           \/ P!Restart \/ P!Restarted \/ P!Clear \/ P!Device
    PROVE  OwnersMove
<1> USE SameP, TaskNames
    DEF OwnersMove, ManagersTurn, MovesOn, Managing, EndTask, P!queueVars, queueVars, P!arbiterVars,
        arbiterVars, P!clientVars, clientVars, P!taskVars, taskVars,
        P!Frame, Frame, P!NO_RES, NO_RES
<1>1. CASE P!StartTask
  BY <1>1 DEF P!StartTask
<1>2. CASE P!StartDone
  BY <1>2 DEF P!StartDone
<1>3. CASE P!StopTask
  BY <1>3 DEF P!StopTask
<1>4. CASE P!StopDone
  BY <1>4 DEF P!StopDone
<1>5. CASE P!Restart
  BY <1>5 DEF P!Restart
<1>6. CASE P!Restarted
  BY <1>6 DEF P!Restarted
<1>7. CASE P!Clear
  BY <1>7 DEF P!Clear
<1>8. CASE P!Device
  BY <1>8, DeviceMoves DEF P!Device
<1>9. QED
  BY <1>1, <1>2, <1>3, <1>4, <1>5, <1>6, <1>7, <1>8

LEMMA StepsOfP ==
    ASSUME IInv, P!Next
    PROVE  SharedStep
<1> USE SameP DEF SharedStep
<1>1. ASSUME NEW ctx \in Contexts, AskManaged(ctx)
      PROVE  SharedStep
  BY <1>1 DEF AskManaged
<1>2. ASSUME NEW ctx \in Contexts, P!Continue(ctx)
      PROVE  SharedStep
  <2>1. CASE P!Requested(ctx)
    <3>1. OwnerAsked(ctx)
      BY <2>1, TaskNames DEF P!Requested, OwnerAsked, Posts, At, Return,
         P!queueVars, queueVars, P!arbiterVars,
         arbiterVars, P!clientVars, clientVars, P!taskVars, taskVars
    <3>2. QED
      BY <3>1
  <2>2. CASE IgnoreImmediateRequested(ctx)
    BY <2>2, IgnoredIsAsked
  <2>3. QED
    BY <1>2, <2>1, <2>2 DEF P!Continue
<1>3. ASSUME NEW ctx \in Contexts, NEW c \in Clients, P!Release(ctx, c)
      PROVE  SharedStep
  <2>1. ClientReleased(ctx, c)
    BY <1>3, TaskNames DEF P!Release, ClientReleased, Posts
  <2>2. QED
    BY <2>1
<1>4. ASSUME OwnersMove
      PROVE  SharedStep
  BY <1>4, OwnersMoveIsWork
<1>5. QED
  BY <1>1, <1>2, <1>3, <1>4, MovesOfP
     DEF P!Next, P!TaskStep, P!StartNextTask, P!Contexts, Contexts, P!Clients, Clients

\* The steps of DeferredPowerManagerP in the main context.
LEMMA MovesOfD ==
    ASSUME \/ D!StartTask \/ D!StartDone \/ D!TimerTask \/ D!Fired
           \/ D!StopDone \/ D!Restart \/ D!Clear \/ D!Device
    PROVE  OwnersMove
<1> USE SameD, TaskNames
    DEF OwnersMove, ManagersTurn, MovesOn, Managing, EndTask, D!queueVars, queueVars, D!arbiterVars,
        arbiterVars, D!clientVars, clientVars, D!taskVars, taskVars,
        D!Frame, Frame, D!NO_RES, NO_RES
<1>1. CASE D!StartTask
  BY <1>1 DEF D!StartTask
<1>2. CASE D!StartDone
  BY <1>2 DEF D!StartDone
<1>3. CASE D!TimerTask
  BY <1>3 DEF D!TimerTask
<1>4. CASE D!Fired
  BY <1>4 DEF D!Fired, CanCall
<1>5. CASE D!StopDone
  BY <1>5 DEF D!StopDone
<1>6. CASE D!Restart
  BY <1>6 DEF D!Restart
<1>7. CASE D!Clear
  BY <1>7 DEF D!Clear
<1>8. CASE D!Device
  BY <1>8, DeviceMoves DEF D!Device
<1>9. QED
  BY <1>1, <1>2, <1>3, <1>4, <1>5, <1>6, <1>7, <1>8

LEMMA StepsOfD ==
    ASSUME IInv, D!Next
    PROVE  SharedStep
<1> USE SameD DEF SharedStep
<1>1. ASSUME NEW ctx \in Contexts, AskManaged(ctx)
      PROVE  SharedStep
  BY <1>1 DEF AskManaged
<1>2. ASSUME NEW ctx \in Contexts, D!Continue(ctx)
      PROVE  SharedStep
  <2>1. CASE D!Requested(ctx)
    <3>1. OwnerAsked(ctx)
      BY <2>1, TaskNames DEF D!Requested, OwnerAsked, Posts, At, Return,
         D!queueVars, queueVars, D!arbiterVars,
         arbiterVars, D!clientVars, clientVars, D!taskVars, taskVars
    <3>2. QED
      BY <3>1
  <2>2. CASE IgnoreImmediateRequested(ctx)
    BY <2>2, IgnoredIsAsked
  <2>3. QED
    BY <1>2, <2>1, <2>2 DEF D!Continue
<1>3. ASSUME NEW ctx \in Contexts, NEW c \in Clients, D!Release(ctx, c)
      PROVE  SharedStep
  <2>1. ClientReleased(ctx, c)
    BY <1>3, TaskNames DEF D!Release, ClientReleased, Posts
  <2>2. QED
    BY <2>1
<1>4. ASSUME OwnersMove
      PROVE  SharedStep
  BY <1>4, OwnersMoveIsWork
<1>5. QED
  BY <1>1, <1>2, <1>3, <1>4, MovesOfD
     DEF D!Next, D!TaskStep, D!StartNextTask, D!Contexts, Contexts, D!Clients, Clients

LEMMA StepsOfA ==
    ASSUME IInv, A!Next
    PROVE  SharedStep
<1> USE SameA DEF SharedStep
<1>1. ASSUME NEW ctx \in Contexts, AskManaged(ctx)
      PROVE  SharedStep
  BY <1>1 DEF AskManaged
<1>2. ASSUME NEW ctx \in Contexts, A!Continue(ctx)
      PROVE  SharedStep
  <2>1. CASE A!Start(ctx)
    <3>1. OwnerAsked(ctx)
      BY <2>1, TaskNames DEF A!Start, OwnerAsked, Posts, At, GoTo,
         A!queueVars, queueVars, A!arbiterVars,
         arbiterVars, A!clientVars, clientVars, A!taskVars, taskVars
    <3>2. QED
      BY <3>1
  <2>2. CASE A!Started(ctx)
    <3>1. OwnerAnswers(ctx)
      BY <2>2 DEF A!Started, OwnerAnswers, At, GoTo, Return,
         A!queueVars, queueVars, A!arbiterVars,
         arbiterVars, A!clientVars, clientVars, A!taskVars, taskVars
    <3>2. QED
      BY <3>1
  <2>3. QED
    BY <1>2, <2>1, <2>2 DEF A!Continue
<1>3. ASSUME NEW ctx \in Contexts, NEW c \in Clients, A!Release(ctx, c)
      PROVE  SharedStep
  <2>1. ClientReleased(ctx, c)
    BY <1>3, TaskNames DEF A!Release, ClientReleased, Posts
  <2>2. QED
    BY <2>1
<1>4. ASSUME OwnersMove
      PROVE  SharedStep
  BY <1>4, OwnersMoveIsWork
<1>5. QED
  BY <1>1, <1>2, <1>3, <1>4
     DEF A!Next, A!TaskStep, A!StartNextTask, A!Contexts, Contexts, A!Clients, Clients

\* The steps of AsyncDeferredPowerManagerP in the main context.
LEMMA MovesOfAD ==
    ASSUME AD!StopTimerTask \/ AD!TimerTask \/ AD!Stop \/ AD!Fired
    PROVE  OwnersMove
<1> USE SameAD, TaskNames
    DEF OwnersMove, ManagersTurn, MovesOn, Managing, EndTask, AD!queueVars, queueVars, AD!arbiterVars,
        arbiterVars, AD!clientVars, clientVars, AD!taskVars, taskVars,
        AD!Frame, Frame, AD!NO_RES, NO_RES
<1>1. CASE AD!StopTimerTask
  BY <1>1 DEF AD!StopTimerTask
<1>2. CASE AD!TimerTask
  BY <1>2 DEF AD!TimerTask
<1>3. CASE AD!Stop
  BY <1>3 DEF AD!Stop
<1>4. CASE AD!Fired
  BY <1>4 DEF AD!Fired, Return, AD!NoCall, NoCall
<1>5. QED
  BY <1>1, <1>2, <1>3, <1>4

LEMMA StepsOfAD ==
    ASSUME IInv, AD!Next
    PROVE  SharedStep
<1> USE SameAD DEF SharedStep
<1>1. ASSUME NEW ctx \in Contexts, AskManaged(ctx)
      PROVE  SharedStep
  BY <1>1 DEF AskManaged
<1>2. ASSUME NEW ctx \in Contexts, AD!Continue(ctx)
      PROVE  SharedStep
  <2>1. CASE AD!Start(ctx)
    <3>1. OwnerAsked(ctx)
      BY <2>1, TaskNames DEF AD!Start, OwnerAsked, Posts, At, GoTo,
         AD!queueVars, queueVars, AD!arbiterVars,
         arbiterVars, AD!clientVars, clientVars, AD!taskVars, taskVars
    <3>2. QED
      BY <3>1
  <2>2. CASE AD!Started(ctx)
    <3>1. OwnerAnswers(ctx)
      BY <2>2 DEF AD!Started, OwnerAnswers, At, GoTo, Return,
         AD!queueVars, queueVars, AD!arbiterVars,
         arbiterVars, AD!clientVars, clientVars, AD!taskVars, taskVars
    <3>2. QED
      BY <3>1
  <2>3. QED
    BY <1>2, <2>1, <2>2 DEF AD!Continue
<1>3. ASSUME NEW ctx \in Contexts, NEW c \in Clients, AD!Release(ctx, c)
      PROVE  SharedStep
  <2>1. ClientReleased(ctx, c)
    BY <1>3, TaskNames DEF AD!Release, ClientReleased, Posts
  <2>2. QED
    BY <2>1
<1>4. ASSUME OwnersMove
      PROVE  SharedStep
  BY <1>4, OwnersMoveIsWork
<1>5. QED
  BY <1>1, <1>2, <1>3, <1>4, MovesOfAD
     DEF AD!Next, AD!TaskStep, AD!StartNextTask, AD!Contexts, Contexts, AD!Clients, Clients

(***************************************************************************)
(* The arbiter's invariant, under any manager.                             *)
(***************************************************************************)
LEMMA NextKeepsIInv ==
    ASSUME IInv, [Next]_vars
    PROVE  IInv'
<1>1. CASE Next
  BY <1>1, StepsOfP, StepsOfD, StepsOfA, StepsOfAD, SharedStepKeepsIInv DEF Next
<1>2. CASE UNCHANGED vars
  BY <1>2, StutterKeepsIInv DEF vars, managedVars
<1>3. QED
  BY <1>1, <1>2


-----------------------------------------------------------------------------
(* The build, the device and the manager's own variables keep their types. *)

ManagerFramesOf ==
    IF Wired("PowerManagerP") THEN P!ManagerFrames
    ELSE IF Wired("DeferredPowerManagerP") THEN D!ManagerFrames
    ELSE IF Wired("AsyncPowerManagerP") THEN A!ManagerFrames
    ELSE AD!ManagerFrames

FramesFit == \A ctx \in Contexts : call[ctx].at \in Frames \cup ManagerFramesOf \cup {"none"}

OwnTypes ==
    /\ power \in Powers
    /\ Wired("AsyncPowerManagerP") \/ Wired("AsyncDeferredPowerManagerP") => power \in {"off", "on"}
    /\ stopping \in BOOLEAN /\ requested \in BOOLEAN
    /\ stopTimer \in BOOLEAN /\ timer \in BOOLEAN

ManagerTypes == build \in Builds /\ FramesFit /\ OwnTypes

\* The steps that no manager has a part in.
OwnerApart ==
    \/ \E ctx \in Contexts : \/ AskManaged(ctx) \/ FinishAsking(ctx)
                             \/ \E c \in Clients : ReleaseToNext(ctx, c) \/ ReleaseToDefault(ctx, c)
    \/ RunNextTask \/ Grant

\* What becomes of the places of the calls when one context goes on.
LEMMA PlacesMove ==
    ASSUME IInv, NEW ctx \in Contexts, NEW f, call' = [call EXCEPT ![ctx] = f]
    PROVE  \A other \in Contexts : call'[other] = IF other = ctx THEN f ELSE call[other]
  BY DEF IInv, Types, FlatTypeOK

LEMMA OwnerApartKeepsFrames ==
    ASSUME IInv, FramesFit, UNCHANGED build, OwnerApart
    PROVE  FramesFit'
<1>1. ManagerFramesOf' = ManagerFramesOf
  BY DEF ManagerFramesOf, Wired, P!ManagerFrames, D!ManagerFrames, A!ManagerFrames, AD!ManagerFrames
<1>2. \/ UNCHANGED call
      \/ \E id : \E ctx \in Contexts, at \in Frames \cup {"none"} :
            call' = [call EXCEPT ![ctx] = Frame(at, id)]
  BY DEF OwnerApart, AskManaged, Ask, Request, RequestControlled, RequestAgain, RequestBusy, ImmediateRequest,
         FinishAsking, ImmediateGranted, ImmediateRefused, ImmediateFail, ReleaseToNext, ReleaseToDefault,
         RunNextTask, Grant, GrantedTask, Configure, Granted, GoTo, Return, Frames, Contexts, Frame, NoCall
<1>3. QED
  BY <1>1, <1>2, PlacesMove DEF FramesFit, Frame

LEMMA OwnersMovesKeepFrames ==
    ASSUME IInv, FramesFit, UNCHANGED build, NEW ctx \in Contexts, NEW at, NEW id,
           call' = [call EXCEPT ![ctx] = Frame(at, id)],
           at \in Frames \cup ManagerFramesOf \cup {"none"}
    PROVE  FramesFit'
<1>1. ManagerFramesOf' = ManagerFramesOf
  BY DEF ManagerFramesOf, Wired, P!ManagerFrames, D!ManagerFrames, A!ManagerFrames, AD!ManagerFrames
<1>2. QED
  BY <1>1, PlacesMove DEF FramesFit, Frame

LEMMA FramesStay ==
    ASSUME FramesFit, UNCHANGED <<build, call>>
    PROVE  FramesFit'
  BY DEF FramesFit, ManagerFramesOf, Wired, P!ManagerFrames, D!ManagerFrames, A!ManagerFrames,
         AD!ManagerFrames

LEMMA ManagerTypesOfP ==
    ASSUME IInv, ManagerTypes, OnlyP, P!Next
    PROVE  ManagerTypes'
<1>1. /\ Wired("PowerManagerP") /\ UNCHANGED build
      /\ FramesFit /\ OwnTypes
  BY DEF OnlyP, ManagerTypes
<1>2. UNCHANGED <<stopTimer, timer>>
  BY DEF OnlyP
<1>3. ManagerFramesOf = P!ManagerFrames
  BY <1>1 DEF ManagerFramesOf, Wired
<1>4. ~ Wired("AsyncPowerManagerP")' /\ ~ Wired("AsyncDeferredPowerManagerP")'
  BY <1>1 DEF Wired
<1> USE SameP, OwnersMovesKeepFrames
    DEF Return, GoTo, P!ManagerFrames, Frames, NoCall, Frame, OwnTypes, Powers, Contexts, P!managerVars
<1>5. ASSUME NEW ctx \in Contexts, P!Requested(ctx)
      PROVE  FramesFit' /\ OwnTypes'
  BY <1>1, <1>2, <1>3, <1>4, <1>5 DEF P!Requested
<1>6. ASSUME NEW ctx \in Contexts, IgnoreImmediateRequested(ctx), UNCHANGED P!managerVars
      PROVE  FramesFit' /\ OwnTypes'
  BY <1>1, <1>2, <1>3, <1>4, <1>6 DEF IgnoreImmediateRequested
<1>7. ASSUME P!StartTask
      PROVE  FramesFit' /\ OwnTypes'
  BY <1>1, <1>2, <1>3, <1>4, <1>7 DEF P!StartTask, P!Frame, EndTask, SplitStart
<1>8. ASSUME P!StartDone
      PROVE  FramesFit' /\ OwnTypes'
  BY <1>1, <1>2, <1>3, <1>4, <1>8 DEF P!StartDone, EndTask
<1>9. ASSUME P!StopTask
      PROVE  FramesFit' /\ OwnTypes'
  BY <1>1, <1>2, <1>3, <1>4, <1>9 DEF P!StopTask, P!Frame, EndTask, SplitStop
<1>10. ASSUME P!StopDone
      PROVE  FramesFit' /\ OwnTypes'
  BY <1>1, <1>2, <1>3, <1>4, <1>10 DEF P!StopDone
<1>11. ASSUME P!Restart
      PROVE  FramesFit' /\ OwnTypes'
  BY <1>1, <1>2, <1>3, <1>4, <1>11 DEF P!Restart, SplitStart
<1>12. ASSUME P!Restarted
      PROVE  FramesFit' /\ OwnTypes'
  BY <1>1, <1>2, <1>3, <1>4, <1>12 DEF P!Restarted
<1>13. ASSUME P!Clear
      PROVE  FramesFit' /\ OwnTypes'
  BY <1>1, <1>2, <1>3, <1>4, <1>13 DEF P!Clear, EndTask
<1>14. ASSUME P!Device
      PROVE  FramesFit' /\ OwnTypes'
  BY <1>1, <1>2, <1>3, <1>4, <1>14 DEF P!Device, DeviceStarted, DeviceStopped
<1>15. ASSUME OwnerApart, power' \in {power, "off"},
             stopping' \in {stopping, TRUE}, UNCHANGED requested
      PROVE  FramesFit' /\ OwnTypes'
  BY <1>1, <1>2, <1>3, <1>4, <1>15, OwnerApartKeepsFrames
<1>16. QED
  BY <1>1, <1>5, <1>6, <1>7, <1>8, <1>9, <1>10, <1>11, <1>12, <1>13, <1>14, <1>15
     DEF P!Next, P!Continue, P!TaskStep, P!StartNextTask, P!Release,
         AskManaged, OwnerApart, P!Contexts, P!Clients, Clients, ManagerTypes

LEMMA ManagerTypesOfD ==
    ASSUME IInv, ManagerTypes, OnlyD, D!Next
    PROVE  ManagerTypes'
<1>1. /\ Wired("DeferredPowerManagerP") /\ UNCHANGED build
      /\ FramesFit /\ OwnTypes
  BY DEF OnlyD, ManagerTypes
<1>2. ManagerFramesOf = D!ManagerFrames
  BY <1>1 DEF ManagerFramesOf, Wired
<1>3. ~ Wired("AsyncPowerManagerP")' /\ ~ Wired("AsyncDeferredPowerManagerP")'
  BY <1>1 DEF Wired
<1> USE SameD, OwnersMovesKeepFrames
    DEF Return, GoTo, D!ManagerFrames, Frames, NoCall, Frame, OwnTypes, Powers, Contexts, D!managerVars
<1>4. ASSUME NEW ctx \in Contexts, D!Requested(ctx)
      PROVE  FramesFit' /\ OwnTypes'
  BY <1>1, <1>2, <1>3, <1>4 DEF D!Requested
<1>5. ASSUME NEW ctx \in Contexts, IgnoreImmediateRequested(ctx), UNCHANGED D!managerVars
      PROVE  FramesFit' /\ OwnTypes'
  BY <1>1, <1>2, <1>3, <1>5 DEF IgnoreImmediateRequested
<1>6. ASSUME D!StartTask
      PROVE  FramesFit' /\ OwnTypes'
  BY <1>1, <1>2, <1>3, <1>6 DEF D!StartTask, D!Frame, EndTask, SplitStart
<1>7. ASSUME D!StartDone
      PROVE  FramesFit' /\ OwnTypes'
  BY <1>1, <1>2, <1>3, <1>7 DEF D!StartDone, EndTask
<1>8. ASSUME D!TimerTask
      PROVE  FramesFit' /\ OwnTypes'
  BY <1>1, <1>2, <1>3, <1>8 DEF D!TimerTask, EndTask
<1>9. ASSUME D!Fired
      PROVE  FramesFit' /\ OwnTypes'
  BY <1>1, <1>2, <1>3, <1>9, FramesStay DEF D!Fired, SplitStop
<1>10. ASSUME D!StopDone
      PROVE  FramesFit' /\ OwnTypes'
  BY <1>1, <1>2, <1>3, <1>10 DEF D!StopDone
<1>11. ASSUME D!Restart
      PROVE  FramesFit' /\ OwnTypes'
  BY <1>1, <1>2, <1>3, <1>11 DEF D!Restart, SplitStart
<1>12. ASSUME D!Clear
      PROVE  FramesFit' /\ OwnTypes'
  BY <1>1, <1>2, <1>3, <1>12 DEF D!Clear, EndTask
<1>13. ASSUME D!Device
      PROVE  FramesFit' /\ OwnTypes'
  BY <1>1, <1>2, <1>3, <1>13 DEF D!Device, DeviceStarted, DeviceStopped
<1>14. ASSUME OwnerApart, power' \in {power, "off"}, UNCHANGED D!managerVars
      PROVE  FramesFit' /\ OwnTypes'
  BY <1>1, <1>2, <1>3, <1>14, OwnerApartKeepsFrames
<1>15. QED
  BY <1>1, <1>4, <1>5, <1>6, <1>7, <1>8, <1>9, <1>10, <1>11, <1>12, <1>13, <1>14
     DEF D!Next, D!Continue, D!TaskStep, D!StartNextTask, D!Release,
         AskManaged, OwnerApart, D!Contexts, D!Clients, Clients, ManagerTypes

LEMMA ManagerTypesOfA ==
    ASSUME IInv, ManagerTypes, OnlyA, A!Next
    PROVE  ManagerTypes'
<1>1. /\ Wired("AsyncPowerManagerP") /\ UNCHANGED build
      /\ FramesFit /\ OwnTypes
  BY DEF OnlyA, ManagerTypes
<1>2. UNCHANGED <<stopping, requested, stopTimer, timer>>
  BY DEF OnlyA
<1>3. ManagerFramesOf = A!ManagerFrames
  BY <1>1 DEF ManagerFramesOf, Wired
<1>4. power \in {"off", "on"}
  BY <1>1 DEF Wired, OwnTypes
<1> USE SameA, OwnersMovesKeepFrames
    DEF Return, GoTo, A!ManagerFrames, Frames, NoCall, Frame, OwnTypes, Powers, Contexts
<1>5. ASSUME NEW ctx \in Contexts, A!Start(ctx)
      PROVE  FramesFit' /\ OwnTypes'
  BY <1>1, <1>2, <1>3, <1>4, <1>5 DEF A!Start
<1>6. ASSUME NEW ctx \in Contexts, A!Started(ctx)
      PROVE  FramesFit' /\ OwnTypes'
  BY <1>1, <1>2, <1>3, <1>4, <1>6 DEF A!Started
<1>7. ASSUME OwnerApart, power' \in {power, "off"}
      PROVE  FramesFit' /\ OwnTypes'
  BY <1>1, <1>2, <1>3, <1>4, <1>7, OwnerApartKeepsFrames
<1>8. QED
  BY <1>1, <1>5, <1>6, <1>7
     DEF A!Next, A!Continue, A!TaskStep, A!StartNextTask, A!Release,
         AskManaged, OwnerApart, A!Contexts, A!Clients, Clients, ManagerTypes

LEMMA ManagerTypesOfAD ==
    ASSUME IInv, ManagerTypes, OnlyAD, AD!Next
    PROVE  ManagerTypes'
<1>1. /\ Wired("AsyncDeferredPowerManagerP") /\ UNCHANGED build
      /\ FramesFit /\ OwnTypes
  BY DEF OnlyAD, ManagerTypes
<1>2. UNCHANGED <<stopping, requested>>
  BY DEF OnlyAD
<1>3. ManagerFramesOf = AD!ManagerFrames
  BY <1>1 DEF ManagerFramesOf, Wired
<1>4. power \in {"off", "on"}
  BY <1>1 DEF Wired, OwnTypes
<1> USE SameAD, OwnersMovesKeepFrames
    DEF Return, GoTo, AD!ManagerFrames, Frames, NoCall, Frame, OwnTypes, Powers, Contexts, AD!managerVars
<1>5. ASSUME NEW ctx \in Contexts, AD!Start(ctx)
      PROVE  FramesFit' /\ OwnTypes'
  BY <1>1, <1>2, <1>3, <1>4, <1>5 DEF AD!Start
<1>6. ASSUME NEW ctx \in Contexts, AD!Started(ctx)
      PROVE  FramesFit' /\ OwnTypes'
  BY <1>1, <1>2, <1>3, <1>4, <1>6 DEF AD!Started
<1>7. ASSUME AD!StopTimerTask
      PROVE  FramesFit' /\ OwnTypes'
  BY <1>1, <1>2, <1>3, <1>4, <1>7 DEF AD!StopTimerTask, EndTask
<1>8. ASSUME AD!TimerTask
      PROVE  FramesFit' /\ OwnTypes'
  BY <1>1, <1>2, <1>3, <1>4, <1>8 DEF AD!TimerTask, EndTask
<1>9. ASSUME AD!Stop
      PROVE  FramesFit' /\ OwnTypes'
  BY <1>1, <1>2, <1>3, <1>4, <1>9 DEF AD!Stop
<1>10. ASSUME AD!Fired
      PROVE  FramesFit' /\ OwnTypes'
  <2>1. call' = [call EXCEPT !["main"] = Frame("none", NO_RES)]
        \/ call' = [call EXCEPT !["main"] = Frame("stop", NO_RES)]
    BY <1>10 DEF AD!Fired, AD!NoCall, AD!Frame, AD!NO_RES, NO_RES
  <2>2. FramesFit'
    BY <1>1, <1>2, <1>3, <1>4, <2>1
  <2>3. QED
    BY <1>1, <1>2, <1>3, <1>4, <1>10, <2>2 DEF AD!Fired
<1>11. ASSUME OwnerApart, power' \in {power, "off"}, UNCHANGED AD!managerVars
      PROVE  FramesFit' /\ OwnTypes'
  BY <1>1, <1>2, <1>3, <1>4, <1>11, OwnerApartKeepsFrames
<1>12. QED
  BY <1>1, <1>5, <1>6, <1>7, <1>8, <1>9, <1>10, <1>11
     DEF AD!Next, AD!Continue, AD!TaskStep, AD!StartNextTask, AD!Release,
         AskManaged, OwnerApart, AD!Contexts, AD!Clients, Clients, ManagerTypes


LEMMA InitManagerTypes == Init => ManagerTypes
<1> SUFFICES ASSUME Init PROVE ManagerTypes
  OBVIOUS
<1>1. \A ctx \in Contexts : call[ctx].at = "none"
  BY DEF Init, ManagedInit, SharedInit, NoCall
<1>2. QED
  BY <1>1 DEF Init, ManagedInit, ManagerTypes, FramesFit, OwnTypes, Powers

LEMMA NextKeepsManagerTypes ==
    ASSUME IInv, ManagerTypes, [Next]_vars
    PROVE  ManagerTypes'
<1>1. CASE Next
  BY <1>1, ManagerTypesOfP, ManagerTypesOfD, ManagerTypesOfA, ManagerTypesOfAD DEF Next
<1>2. CASE UNCHANGED vars
  <2>1. UNCHANGED <<build, call, power, stopping, requested, stopTimer, timer>>
    BY <1>2 DEF vars, managedVars, sharedVars
  <2>2. QED
    BY <2>1, FramesStay DEF ManagerTypes, OwnTypes, Wired
<1>3. QED
  BY <1>1, <1>2

\* An instance's type invariant, from the shared one.
LEMMA TypesOfInstances ==
    ASSUME IInv, ManagerTypes
    PROVE  TypeOK
<1>1. SharedTypeOK
  BY DEF IInv, Types, QueueTypeOK, TasksTypeOK, FlatTypeOK, SharedTypeOK
<1>2. call \in [Contexts -> [at : Frames \cup ManagerFramesOf \cup {"none"}, id : Clients \cup {NO_RES}]]
  BY DEF IInv, Types, FlatTypeOK, FrameType, ManagerTypes, FramesFit
<1> USE <1>1, <1>2 DEF ManagerTypes, OwnTypes, ManagerFramesOf, Wired, SharedTypeOK, Frames, Contexts, States,
        Clients, default_owner_id, NO_RES, Powers
<1>3. Wired("PowerManagerP") => P!TypeOK
  BY DEF P!TypeOK, P!SharedTypeOK, P!Frames, P!Contexts, P!States, P!Clients, P!default_owner_id, P!NO_RES,
         P!Powers
<1>4. Wired("DeferredPowerManagerP") => D!TypeOK
  BY DEF D!TypeOK, D!SharedTypeOK, D!Frames, D!Contexts, D!States, D!Clients, D!default_owner_id, D!NO_RES,
         D!Powers
<1>5. Wired("AsyncPowerManagerP") => A!TypeOK
  BY DEF A!TypeOK, A!SharedTypeOK, A!Frames, A!Contexts, A!States, A!Clients, A!default_owner_id, A!NO_RES
<1>6. Wired("AsyncDeferredPowerManagerP") => AD!TypeOK
  BY DEF AD!TypeOK, AD!SharedTypeOK, AD!Frames, AD!Contexts, AD!States, AD!Clients, AD!default_owner_id,
         AD!NO_RES
<1>7. QED
  BY <1>3, <1>4, <1>5, <1>6 DEF TypeOK

LEMMA ManagedInvariant == Spec => [](IInv /\ ManagerTypes)
<1>1. IInv /\ ManagerTypes /\ [Next]_vars => (IInv /\ ManagerTypes)'
  BY NextKeepsIInv, NextKeepsManagerTypes
<1>2. QED
  BY <1>1, InitIInv, InitManagerTypes, PTL DEF Spec

(***************************************************************************)
(* Every variable keeps its type, under any manager.                       *)
(***************************************************************************)
THEOREM TypeCorrect == Spec => []TypeOK
  BY ManagedInvariant, TypesOfInstances, PTL

-----------------------------------------------------------------------------
(***************************************************************************)
(* The arbiter keeps its promises, under any manager.  The invariant says  *)
(* besides that a resource in use is with the client asked for last, and   *)
(* that a client in an immediate request has not been promised a grant.    *)
(***************************************************************************)
PromiseInv ==
    /\ state = "busy" => resId = reqResId
    /\ \A ctx \in Contexts : call[ctx].at \in ImmFrames => ~ pending[call[ctx].id]
    /\ PromisesKept

LEMMA InitPromise == Init => PromiseInv
<1> SUFFICES ASSUME Init PROVE PromiseInv
  OBVIOUS
<1>1. \A ctx \in Contexts : call[ctx].at \notin ImmFrames
  BY DEF Init, ManagedInit, SharedInit, NoCall, ImmFrames
<1>2. QED
  BY <1>1 DEF Init, ManagedInit, SharedInit, PromiseInv, PromisesKept

\* The clients that wait are the same when the queue is.
LEMMA SameQueue ==
    ASSUME UNCHANGED queueVars
    PROVE  \A c \in Clients : IsEnqueued(c)' <=> IsEnqueued(c)
  BY DEF queueVars, IsEnqueued

LEMMA AskKeepsPromises ==
    ASSUME ~ RequestWhileOwner, IInv, PromiseInv, NEW ctx \in Contexts, Ask(ctx)
    PROVE  PromiseInv'
<1>1. /\ FlatTypeOK /\ QueueTypeOK /\ Protocol
  BY DEF IInv, Types
<1>2. ASSUME NEW c \in Clients, RequestControlled(ctx, c)
      PROVE  PromiseInv'
  <2>1. /\ state = "controlled" /\ state' = "granting" /\ reqResId' = c
        /\ pending' = [pending EXCEPT ![c] = TRUE]
        /\ call' = [call EXCEPT ![ctx] = Frame("requested", c)]
        /\ UNCHANGED queueVars
    BY <1>2 DEF RequestControlled
  <2>2. \A other \in Contexts : call[other].at \notin Asking
    BY <2>1, NobodyAsks
  <2>3. \A other \in Contexts : call'[other].at \notin ImmFrames
    BY <2>1, <2>2, PlacesMove DEF Frame, Asking, ImmFrames
  <2>4. PromisesKept'
    BY <1>1, <2>1, SameQueue DEF PromiseInv, PromisesKept, FlatTypeOK
  <2>5. QED
    BY <2>1, <2>3, <2>4 DEF PromiseInv
<1>3. ASSUME NEW c \in Clients, RequestAgain(ctx, c) \/ RequestBusy(ctx, c)
      PROVE  PromiseInv'
  <2>1. /\ ~ holds[c] /\ state # "controlled"
        /\ \A other \in Contexts : call[other].id # c
        /\ UNCHANGED <<arbiterVars, call, holds>>
    BY <1>3 DEF RequestAgain, RequestBusy, MayRequest, Asks
  <2>2. \A other \in Contexts : call[other].at \in ImmFrames =>
            call[other].id \in Clients /\ reqResId = call[other].id
    BY <1>1 DEF Protocol, AskingInv, Asking
  <2>3. \/ /\ pending' = pending \/ pending' = [pending EXCEPT ![c] = TRUE]
           /\ IsEnqueued(c)' /\ \A d \in Clients : IsEnqueued(d) => IsEnqueued(d)'
        \/ /\ reqResId = c /\ pending' = [pending EXCEPT ![c] = TRUE]
           /\ UNCHANGED queueVars
    BY <1>1, <1>3, EnqueueAdds, SameQueue DEF RequestAgain, RequestBusy
  <2>4. \A d \in Clients : d # c => (pending'[d] <=> pending[d])
    BY <1>1, <2>3 DEF FlatTypeOK
  <2>5. \A other \in Contexts : call'[other].at \in ImmFrames => ~ pending'[call'[other].id]
    BY <2>1, <2>2, <2>4 DEF PromiseInv
  <2>6. reqResId = c => state \in {"granting", "busy"}
    <3>1. state # "immGranting" \/ reqResId # c
      BY <1>1, <2>1, <2>2 DEF Protocol, ImmediateInv
    <3>2. QED
      BY <1>1, <2>1, <3>1 DEF FlatTypeOK, States
  <2>7. PromisesKept'
    <3> SUFFICES ASSUME NEW d \in Clients, pending'[d]
                 PROVE  \/ IsEnqueued(d)'
                        \/ state' = "granting" /\ reqResId' = d
                        \/ state' = "busy" /\ resId' = d /\ ~ holds'[d]
      BY DEF PromisesKept
    <3>1. CASE d = c
      BY <2>1, <2>3, <2>6, <3>1 DEF arbiterVars, PromiseInv, PromisesKept
    <3>2. CASE d # c
      BY <2>1, <2>3, <2>4, <3>2, SameQueue DEF arbiterVars, PromiseInv, PromisesKept
    <3>3. QED
      BY <3>1, <3>2
  <2>8. QED
    BY <2>1, <2>5, <2>7 DEF PromiseInv, arbiterVars
<1>4. ASSUME NEW c \in Clients, ImmediateRequest(ctx, c)
      PROVE  PromiseInv'
  <2>1. /\ state = "controlled" /\ state' = "immGranting" /\ reqResId' = c
        /\ call' = [call EXCEPT ![ctx] = Frame("immediateRequested", c)]
        /\ UNCHANGED <<queueVars, clientVars>> /\ ~ pending[c]
    BY <1>4 DEF ImmediateRequest, MayRequestNow
  <2>2. \A other \in Contexts : call[other].at \notin Asking
    BY <2>1, NobodyAsks
  <2>3. \A other \in Contexts : call'[other].at \in ImmFrames => ~ pending'[call'[other].id]
    BY <2>1, <2>2, PlacesMove DEF Frame, Asking, clientVars
  <2>4. PromisesKept'
    BY <1>1, <2>1, SameQueue DEF PromiseInv, PromisesKept, clientVars
  <2>5. QED
    BY <2>1, <2>3, <2>4 DEF PromiseInv
<1>5. QED
  BY <1>2, <1>3, <1>4 DEF Ask, Request

LEMMA FinishAskingKeepsPromises ==
    ASSUME IInv, PromiseInv, NEW ctx \in Contexts, FinishAsking(ctx)
    PROVE  PromiseInv'
<1>1. FlatTypeOK /\ Protocol
  BY DEF IInv, Types
<1>2. /\ call[ctx].at \in ImmFrames
      /\ UNCHANGED <<queueVars, resId, reqResId, pending>>
      /\ \/ call' = [call EXCEPT ![ctx] = NoCall]
         \/ call' = [call EXCEPT ![ctx] = Frame("immediateFail", call[ctx].id)]
  BY DEF FinishAsking, ImmediateGranted, ImmediateRefused, ImmediateFail, At, GoTo, Return, ImmFrames,
         arbiterVars, clientVars
<1>3. /\ call[ctx].id \in Clients /\ reqResId = call[ctx].id /\ ~ pending[call[ctx].id]
      /\ \A c \in Clients : ~ holds[c]
      /\ state \in {"busy", "immGranting"}
  BY <1>1, <1>2 DEF Protocol, AskingInv, HolderOnRecord, PromiseInv, Asking
<1>4. \A other \in Contexts : call'[other].at \in ImmFrames => ~ pending'[call'[other].id]
  BY <1>2, <1>3, PlacesMove DEF PromiseInv, Frame, NoCall, ImmFrames
<1>5. state' = state \/ state' = "controlled"
  BY DEF FinishAsking, ImmediateGranted, ImmediateRefused, ImmediateFail, arbiterVars
<1>6. PromisesKept'
  <2> SUFFICES ASSUME NEW d \in Clients, pending[d]
               PROVE  IsEnqueued(d)
    BY <1>2, SameQueue DEF PromisesKept
  <2>1. d # reqResId
    BY <1>3
  <2>2. QED
    BY <1>3, <2>1 DEF PromiseInv, PromisesKept
<1>7. QED
  BY <1>2, <1>4, <1>5, <1>6 DEF PromiseInv

LEMMA ReleaseKeepsPromises ==
    ASSUME IInv, PromiseInv, NEW ctx \in Contexts, NEW c \in Clients, ClientReleased(ctx, c)
    PROVE  PromiseInv'
<1>1. FlatTypeOK /\ QueueTypeOK /\ Protocol
  BY DEF IInv, Types
<1>2. /\ holds[c] /\ state = "busy" /\ resId = c
      /\ UNCHANGED <<call, pending>>
  BY DEF ClientReleased, ReleaseToNext, ReleaseToDefault
<1>3. \A d \in Clients : pending[d] => IsEnqueued(d)
  BY <1>2 DEF PromiseInv, PromisesKept
<1>4. state' # "busy" /\ PromisesKept'
  <2>1. CASE ReleaseToNext(ctx, c)
    <3>1. Dequeue /\ state' = "granting" /\ reqResId' = NextUp
      BY <2>1 DEF ReleaseToNext
    <3>2. QED
      BY <1>1, <1>2, <1>3, <3>1, DequeueLeavesOthers DEF PromisesKept
  <2>2. CASE ReleaseToDefault(ctx, c)
    <3>1. UNCHANGED queueVars /\ state' = "controlled"
      BY <2>2 DEF ReleaseToDefault
    <3>2. QED
      BY <1>2, <1>3, <3>1, SameQueue DEF PromisesKept
  <2>3. QED
    BY <2>1, <2>2 DEF ClientReleased
<1>5. QED
  BY <1>2, <1>4 DEF PromiseInv

LEMMA GrantKeepsPromises ==
    ASSUME IInv, PromiseInv, Grant
    PROVE  PromiseInv'
<1>1. FlatTypeOK /\ Protocol
  BY DEF IInv, Types
<1>2. UNCHANGED queueVars
  BY DEF Grant, GrantedTask, Configure, Granted
<1>3. \A ctx \in Contexts : call'[ctx].at \notin ImmFrames
  <2>1. PICK f : f.at \notin ImmFrames /\ call' = [call EXCEPT !["main"] = f]
    BY DEF Grant, GrantedTask, Configure, Granted, GoTo, Return, Frame, NoCall, ImmFrames
  <2>2. call["interrupt"] = NoCall
    BY DEF Grant, GrantedTask, Configure, Granted, InTask, At, Runs
  <2>3. call'["main"] = f /\ call'["interrupt"] = NoCall
    BY <2>1, <2>2, PlacesMove DEF Contexts
  <2>4. QED
    BY <2>1, <2>3 DEF Contexts, NoCall, ImmFrames
<1>4. CASE GrantedTask
  <2>1. /\ running = "grantedTask" /\ ~ Granting
        /\ state' = "busy" /\ resId' = reqResId /\ UNCHANGED <<reqResId, clientVars>>
    BY <1>4 DEF GrantedTask, InTask, Granting, NoCall
  <2>2. state = "granting" /\ \A d \in Clients : ~ holds[d]
    BY <1>1, <2>1 DEF Protocol, GrantDueInv, GrantDue, HolderOnRecord
  <2>3. PromisesKept'
    BY <1>2, <2>1, <2>2, SameQueue DEF PromiseInv, PromisesKept, clientVars
  <2>4. QED
    BY <1>3, <2>1, <2>3 DEF PromiseInv
<1>5. CASE Configure
  <2>1. UNCHANGED <<arbiterVars, holds, pending>>
    BY <1>5 DEF Configure
  <2>2. PromisesKept'
    BY <1>2, <2>1, SameQueue DEF PromiseInv, PromisesKept, arbiterVars
  <2>3. QED
    BY <1>3, <2>1, <2>2 DEF PromiseInv, arbiterVars
<1>6. CASE Granted
  <2>1. /\ UNCHANGED arbiterVars /\ state = "busy" /\ resId \in Clients
        /\ holds' = [holds EXCEPT ![resId] = TRUE]
        /\ pending' = [pending EXCEPT ![resId] = FALSE]
    BY <1>1, <1>6 DEF Granted, At, Protocol, GrantingInv, Granting
  <2>2. PromisesKept'
    BY <1>1, <1>2, <2>1, SameQueue DEF PromiseInv, PromisesKept, arbiterVars, FlatTypeOK
  <2>3. QED
    BY <1>3, <2>1, <2>2 DEF PromiseInv, arbiterVars
<1>7. QED
  BY <1>4, <1>5, <1>6 DEF Grant

\* The manager's steps, and those that leave the arbiter and its clients alone.
LEMMA OwnerKeepsPromises ==
    ASSUME IInv, PromiseInv,
           \/ \E ctx \in Contexts : OwnerAsked(ctx) \/ OwnerAnswers(ctx)
           \/ OwnerWorks \/ RunNextTask
    PROVE  PromiseInv'
<1>1. FlatTypeOK
  BY DEF IInv, Types
<1>2. UNCHANGED <<queueVars, clientVars>> /\ (UNCHANGED arbiterVars \/ DefaultOwnerRelease)
  BY DEF OwnerAsked, OwnerAnswers, OwnerWorks, RunNextTask
<1>3. \/ UNCHANGED arbiterVars
      \/ state = "immGranting" /\ state' = "busy" /\ resId' = reqResId /\ UNCHANGED reqResId
  BY <1>2, DefaultOwnerReleaseCases
<1>4. PromisesKept'
  BY <1>2, <1>3, SameQueue DEF PromiseInv, PromisesKept, arbiterVars, clientVars
<1>5. \A ctx \in Contexts : call'[ctx].at \in ImmFrames =>
          call[ctx].at \in ImmFrames /\ call'[ctx].id = call[ctx].id
  <2>1. \/ UNCHANGED call
        \/ \E f : \E ctx \in Contexts :
              /\ call' = [call EXCEPT ![ctx] = f]
              /\ f.at \in ImmFrames => call[ctx].at \in ImmFrames /\ f.id = call[ctx].id
    <3>1. ASSUME NEW ctx \in Contexts, OwnerAsked(ctx) \/ OwnerAnswers(ctx)
          PROVE  \E f : /\ call' = [call EXCEPT ![ctx] = f]
                        /\ f.at \in ImmFrames => call[ctx].at \in ImmFrames /\ f.id = call[ctx].id
      BY <3>1 DEF OwnerAsked, OwnerAnswers, Frame, NoCall, ImmFrames
    <3>2. CASE OwnerWorks
      BY <3>2 DEF OwnerWorks, NoCall, ImmFrames, Managing, Contexts
    <3>3. CASE RunNextTask
      BY <3>3 DEF RunNextTask
    <3>4. QED
      BY <3>1, <3>2, <3>3
  <2>2. QED
    BY <2>1, PlacesMove
<1>6. QED
  BY <1>2, <1>3, <1>4, <1>5 DEF PromiseInv, arbiterVars, clientVars

LEMMA NextKeepsPromises ==
    ASSUME ~ RequestWhileOwner, IInv, PromiseInv, [Next]_vars
    PROVE  PromiseInv'
<1>1. CASE Next
  <2>1. SharedStep
    BY <1>1, StepsOfP, StepsOfD, StepsOfA, StepsOfAD DEF Next
  <2>2. QED
    BY <2>1, AskKeepsPromises, FinishAskingKeepsPromises, ReleaseKeepsPromises, GrantKeepsPromises,
       OwnerKeepsPromises DEF SharedStep
<1>2. CASE UNCHANGED vars
  <2>1. UNCHANGED <<queueVars, arbiterVars, clientVars, call>>
    BY <1>2 DEF vars, managedVars, sharedVars
  <2>2. QED
    BY <2>1, SameQueue DEF PromiseInv, PromisesKept, arbiterVars, clientVars
<1>3. QED
  BY <1>1, <1>2

(***************************************************************************)
(* Under any manager a client that was told SUCCESS is in the queue, or is *)
(* the one being granted the resource - if no client asks again while it   *)
(* has the resource: the arbiter forgets such a request.                   *)
(***************************************************************************)
THEOREM PromisesAreKept ==
    ASSUME ~ RequestWhileOwner
    PROVE  Spec => []PromisesKept
<1>1. (IInv /\ PromiseInv) /\ [Next]_vars => (IInv /\ PromiseInv)'
  BY NextKeepsIInv, NextKeepsPromises
<1>2. Init => IInv /\ PromiseInv
  BY InitIInv, InitPromise
<1>3. IInv /\ PromiseInv => PromisesKept
  BY DEF PromiseInv
<1>4. QED
  BY <1>1, <1>2, <1>3, PTL DEF Spec

-----------------------------------------------------------------------------
(***************************************************************************)
(* What the managers of this half see of the arbiter: whether a request    *)
(* waits for them, which of their tasks are due, where the main context is *)
(* in their events, and whether the resource is in use or about to be.     *)
(***************************************************************************)
OwnTasks == {"startTask", "stopTask", "timerTask"}

Place == call["main"].at
Requesting == \E ctx \in Contexts : call[ctx].at = "requested"
InUse == state = "busy" \/ GrantDue

\* The task is going to do its work, or it waits again before it has done it.
Due(t) == Queued(t) \/ (running = t /\ Place \notin Managing)
Twice(t) == Queued(t) /\ running = t /\ Place \notin Managing

\* The timerTask of a release comes before the startTask of the next request.
TimerFirst ==
    /\ \A i, j \in 1..Len(tasks) : tasks[i] = "startTask" /\ tasks[j] = "timerTask" => j < i
    /\ running = "startTask" => ~ Due("timerTask")

\* A step that changes none of that, but for the arbiter's part of it.
Quiet ==
    /\ \A t \in OwnTasks : (Due(t)' => Due(t)) /\ (Twice(t)' => Twice(t))
    /\ Place' = Place \/ (Place \notin Managing /\ Place' \notin Managing)
    /\ InUse' => InUse
    /\ state' = "busy" => state = "busy" \/ Place' \notin Managing
    /\ state = "granting" /\ ~ GrantDue => state' = "granting" /\ ~ GrantDue'
    /\ Requesting' => Requesting \/ (state = "controlled" /\ state' = "granting" /\ ~ GrantDue')
    /\ TimerFirst => TimerFirst'

\* Posting grantedTask, or nothing, leaves the order of the manager's tasks.
LEMMA OrderStays ==
    ASSUME TasksTypeOK, NoTaskTwice, UNCHANGED tasks \/ PostTask("grantedTask")
    PROVE  /\ \A t \in OwnTasks : Queued(t)' <=> Queued(t)
           /\ (\A i, j \in 1..Len(tasks) : tasks[i] = "startTask" /\ tasks[j] = "timerTask" => j < i)
              => (\A i, j \in 1..Len(tasks) : tasks[i] = "startTask" /\ tasks[j] = "timerTask" => j < i)'
<1>1. CASE UNCHANGED tasks
  BY <1>1, SameTasks
<1>2. CASE Scheduler!LineUp("grantedTask")
  <2>1. tasks' = Append(tasks, "grantedTask") /\ Len(tasks) \in Nat
    BY <1>2 DEF Scheduler!LineUp, TasksTypeOK
  <2>2. /\ Len(tasks') = Len(tasks) + 1
        /\ \A i \in 1..Len(tasks) : tasks'[i] = tasks[i]
        /\ tasks'[Len(tasks) + 1] = "grantedTask"
    BY <2>1 DEF TasksTypeOK
  <2>3. \A t \in OwnTasks : Queued(t)' <=> Queued(t)
    BY <2>1, <2>2 DEF Queued, Scheduler!IsQueued, OwnTasks
  <2>4. QED
    BY <2>1, <2>2, <2>3
<1>3. QED
  BY <1>1, <1>2, SameTasks DEF PostTask

LEMMA OwnTasksStay ==
    ASSUME TasksTypeOK, NoTaskTwice, UNCHANGED tasks \/ PostTask("grantedTask"),
           running' = running \/ running' \notin OwnTasks,
           Place' = Place \/ (Place \notin Managing /\ Place' \notin Managing)
    PROVE  /\ \A t \in OwnTasks : (Due(t)' => Due(t)) /\ (Twice(t)' => Twice(t))
           /\ TimerFirst => TimerFirst'
<1>1. \A t \in OwnTasks : Queued(t)' <=> Queued(t)
  BY OrderStays
<1>2. \A t \in OwnTasks : (Due(t)' => Due(t)) /\ (Twice(t)' => Twice(t))
  BY <1>1 DEF Due, Twice
<1>3. ASSUME TimerFirst PROVE TimerFirst'
  <2>1. running' = "startTask" => ~ Due("timerTask")'
    BY <1>2, <1>3 DEF TimerFirst, OwnTasks
  <2>2. QED
    BY <1>3, <2>1, OrderStays DEF TimerFirst
<1>4. QED
  BY <1>2, <1>3

\* A task that starts was due; the one behind timerTask finds it done.
LEMMA StartIsQuiet ==
    ASSUME IInv, RunNextTask
    PROVE  Quiet
<1>1. /\ Types /\ Protocol /\ TasksTypeOK /\ NoTaskTwice
      /\ Scheduler!Start /\ UNCHANGED <<queueVars, arbiterVars, call, clientVars>>
      /\ call["main"] = NoCall /\ running = NoTask
  BY DEF IInv, Types, Protocol, RunNextTask, CanCall
<1>2. /\ running' \in Tasks /\ Queued(running')
      /\ \A u : Queued(u)' => Queued(u) /\ u # running'
  BY <1>1, StartedOnce
<1>3. \A u : (Due(u)' => Due(u)) /\ ~ Twice(u)'
  BY <1>2 DEF Due, Twice
<1>4. Place' = Place /\ (Requesting' <=> Requesting) /\ state' = state
  BY <1>1 DEF Place, Requesting, arbiterVars
<1>5. GrantDue' => GrantDue
  BY <1>1, <1>2 DEF GrantDue, Granting, NoCall
<1>6. ASSUME TimerFirst PROVE TimerFirst'
  <2>1. /\ tasks \in Seq(Tasks) /\ tasks # <<>>
        /\ running' = tasks[1] /\ tasks' = Tail(tasks)
    BY <1>1 DEF Scheduler!Start, TasksTypeOK
  <2>2. /\ Len(tasks') = Len(tasks) - 1 /\ Len(tasks) \in Nat \ {0}
        /\ \A i \in 1..Len(tasks') : i + 1 \in 1..Len(tasks) /\ tasks'[i] = tasks[i + 1]
    BY <2>1
  <2>3. \A i, j \in 1..Len(tasks') : tasks'[i] = "startTask" /\ tasks'[j] = "timerTask" => j < i
    <3>1. ASSUME NEW i \in 1..Len(tasks'), NEW j \in 1..Len(tasks'),
                 tasks'[i] = "startTask" /\ tasks'[j] = "timerTask"
          PROVE  j < i
      <4>1. j + 1 < i + 1
        BY <3>1, <2>2, <1>6 DEF TimerFirst
      <4>2. Len(tasks') \in Nat
        BY <2>2
      <4>3. QED
        BY <4>1, <4>2
    <3>2. QED
      BY <3>1
  <2>4. ASSUME running' = "startTask" PROVE ~ Due("timerTask")'
    <3>1. ASSUME NEW j \in 1..Len(tasks), tasks[j] = "timerTask" PROVE FALSE
      <4>1. 1 \in 1..Len(tasks) /\ tasks[1] = "startTask"
        BY <2>1, <2>2, <2>4
      <4>2. j < 1
        BY <3>1, <4>1, <1>6 DEF TimerFirst
      <4>3. QED
        BY <4>2, <2>2
    <3>2. ~ Queued("timerTask")
      BY <3>1 DEF Queued, Scheduler!IsQueued
    <3>3. QED
      BY <3>2, <1>2, <2>4 DEF Due
  <2>5. QED
    BY <2>3, <2>4 DEF TimerFirst
<1>7. QED
  BY <1>3, <1>4, <1>5, <1>6 DEF Quiet, InUse

\* A request: of an idle resource, or in vain.
LEMMA AskIsQuiet ==
    ASSUME IInv, NEW ctx \in Contexts, AskManaged(ctx)
    PROVE  Quiet
<1>1. /\ Types /\ Protocol /\ TasksTypeOK /\ NoTaskTwice /\ FlatTypeOK
  BY DEF IInv, Types, Protocol
<1>2. PICK c \in Clients : Request(ctx, c) \/ ImmediateRequest(ctx, c)
  BY DEF AskManaged, Ask
<1>3. CASE RequestAgain(ctx, c) \/ RequestBusy(ctx, c)
  <2>1. UNCHANGED <<arbiterVars, taskVars, call>>
    BY <1>3 DEF RequestAgain, RequestBusy
  <2>2. /\ Place' = Place /\ (Requesting' <=> Requesting) /\ state' = state
        /\ UNCHANGED <<tasks, running>>
    BY <2>1 DEF Place, Requesting, arbiterVars, taskVars
  <2>3. GrantDue' <=> GrantDue
    BY <2>1, SameTasks DEF GrantDue, Granting, taskVars
  <2>4. QED
    BY <1>1, <2>2, <2>3, OwnTasksStay DEF Quiet, InUse
<1>4. CASE RequestControlled(ctx, c) \/ ImmediateRequest(ctx, c)
  <2>1. /\ CanCall(ctx) /\ state = "controlled" /\ UNCHANGED <<tasks, running>>
    BY <1>4 DEF RequestControlled, ImmediateRequest, MayRequest, MayRequestNow, Asks, taskVars
  <2>2. PICK at \in Asking :
            /\ call' = [call EXCEPT ![ctx] = Frame(at, c)]
            /\ \/ at = "requested" /\ state' = "granting"
               \/ at = "immediateRequested" /\ state' = "immGranting"
    BY <1>4 DEF RequestControlled, ImmediateRequest, Asking, ImmFrames
  <2>3. /\ \A other \in Contexts : call[other].at \notin Asking
        /\ ~ GrantDue /\ ~ Granting
    BY <2>1, <1>2, NobodyAsks
  <2>4. \A other \in Contexts : call'[other] = IF other = ctx THEN Frame(at, c) ELSE call[other]
    BY <2>2, PlacesMove
  <2>5. Place' = Place \/ (Place \notin Managing /\ Place' \notin Managing)
    BY <2>1, <2>4 DEF Place, CanCall, NoCall, Contexts, Frame, Asking, ImmFrames, Managing
  <2>6. ~ Granting' /\ ~ GrantDue'
    BY <2>1, <2>3, <2>4, SameTasks DEF Granting, GrantDue, Contexts, Frame, Asking, ImmFrames
  <2>7. Requesting' => state' = "granting"
    BY <2>2, <2>3, <2>4 DEF Requesting, Frame, Asking, ImmFrames
  <2>8. QED
    BY <1>1, <2>1, <2>2, <2>5, <2>6, <2>7, OwnTasksStay DEF Quiet, InUse
<1>5. QED
  BY <1>2, <1>3, <1>4 DEF Request

\* Where the context is after a step of an immediate request, ...
LEMMA FinishPlaces ==
    ASSUME NEW ctx, FinishAsking(ctx) \/ IgnoreImmediateRequested(ctx)
    PROVE  \E f : /\ call' = [call EXCEPT ![ctx] = f]
                  /\ f.at \in {"none", "immediateCheck", "immediateFail"}
<1>0. \A id : \A at \in {"none", "immediateCheck", "immediateFail"} :
         Frame(at, id).at \in {"none", "immediateCheck", "immediateFail"}
  BY DEF Frame
<1>1. CASE ImmediateGranted(ctx) \/ ImmediateFail(ctx)
  <2>1. call' = [call EXCEPT ![ctx] = Frame("none", NO_RES)]
    BY <1>1 DEF ImmediateGranted, ImmediateFail, Return, NoCall, Frame
  <2>2. QED
    BY <2>1, <1>0
<1>2. CASE ImmediateRefused(ctx)
  <2>1. call' = [call EXCEPT ![ctx] = Frame("immediateFail", call[ctx].id)]
    BY <1>2 DEF ImmediateRefused, GoTo
  <2>2. QED
    BY <2>1, <1>0
<1>3. CASE IgnoreImmediateRequested(ctx)
  <2>1. call' = [call EXCEPT ![ctx] = Frame("immediateCheck", call[ctx].id)]
    BY <1>3 DEF IgnoreImmediateRequested, GoTo
  <2>2. QED
    BY <2>1, <1>0
<1>4. QED
  BY <1>1, <1>2, <1>3 DEF FinishAsking

\* ... and after one of grantedTask.
LEMMA GrantPlaces ==
    ASSUME Grant
    PROVE  \E f : /\ call' = [call EXCEPT !["main"] = f]
                  /\ f.at \in {"none", "configure", "granted"}
<1>0. \A id : \A at \in {"none", "configure", "granted"} :
         Frame(at, id).at \in {"none", "configure", "granted"}
  BY DEF Frame
<1>1. CASE GrantedTask
  <2>1. call' = [call EXCEPT !["main"] = Frame("configure", NO_RES)]
    BY <1>1 DEF GrantedTask
  <2>2. QED
    BY <2>1, <1>0
<1>2. CASE Configure
  <2>1. call' = [call EXCEPT !["main"] = Frame("granted", call["main"].id)]
    BY <1>2 DEF Configure, GoTo
  <2>2. QED
    BY <2>1, <1>0
<1>3. CASE Granted
  <2>1. call' = [call EXCEPT !["main"] = Frame("none", NO_RES)]
    BY <1>3 DEF Granted, Return, NoCall, Frame
  <2>2. QED
    BY <2>1, <1>0
<1>4. QED
  BY <1>1, <1>2, <1>3 DEF Grant

\* An immediate request goes on, or ends.
LEMMA FinishIsQuiet ==
    ASSUME IInv, NEW ctx \in Contexts, FinishAsking(ctx) \/ IgnoreImmediateRequested(ctx)
    PROVE  Quiet
<1>1. /\ Types /\ Protocol /\ TasksTypeOK /\ NoTaskTwice /\ FlatTypeOK
  BY DEF IInv, Types, Protocol
<1>2. /\ call[ctx].at \in ImmFrames /\ call[ctx].at \in Asking
      /\ UNCHANGED <<tasks, running>>
      /\ state' = state \/ state' = "controlled"
      /\ state = "granting" => state' = state
  <2>1. call[ctx].at = "immediateFail" => state = "immGranting"
    BY <1>1 DEF Protocol, AskingInv, ImmFrames
  <2>2. QED
    BY <2>1 DEF FinishAsking, ImmediateGranted, ImmediateRefused, ImmediateFail, IgnoreImmediateRequested,
           At, Asking, ImmFrames, arbiterVars, taskVars
<1>3. PICK f : /\ call' = [call EXCEPT ![ctx] = f]
               /\ f.at \in {"none", "immediateCheck", "immediateFail"}
  BY FinishPlaces
<1>4. \A other \in Contexts : call'[other] = IF other = ctx THEN f ELSE call[other]
  BY <1>3, PlacesMove
<1>5. Place' = Place \/ (Place \notin Managing /\ Place' \notin Managing)
  BY <1>2, <1>3, <1>4 DEF Place, Contexts, ImmFrames, Managing
<1>6. ~ GrantDue /\ (call["main"].at \in {"configure", "granted"} => Place' = Place)
  BY <1>1, <1>2, <1>4 DEF Protocol, AskingInv, Asking, ImmFrames, Place, Contexts
<1>7. ~ GrantDue'
  BY <1>2, <1>6, SameTasks DEF GrantDue, Granting, Place
<1>8. Requesting' => Requesting
  BY <1>3, <1>4 DEF Requesting
<1>9. QED
  BY <1>1, <1>2, <1>5, <1>6, <1>7, <1>8, OwnTasksStay DEF Quiet, InUse

\* A release to the next client in the queue: the resource stays in use.
LEMMA ReleaseToNextIsQuiet ==
    ASSUME IInv, NEW ctx, NEW c, ReleaseToNext(ctx, c)
    PROVE  Quiet
<1>1. /\ Types /\ Protocol /\ TasksTypeOK /\ NoTaskTwice /\ FlatTypeOK
  BY DEF IInv, Types, Protocol
<1>2. /\ state = "busy" /\ state' = "granting"
      /\ PostTask("grantedTask") /\ UNCHANGED <<running, call>>
  BY DEF ReleaseToNext
<1>3. Place' = Place /\ (Requesting' <=> Requesting)
  BY <1>2 DEF Place, Requesting
<1>4. QED
  BY <1>1, <1>2, <1>3, OwnTasksStay DEF Quiet, InUse

\* grantedTask grants what was due; the main context is in no event of a manager.
LEMMA GrantIsQuiet ==
    ASSUME IInv, Grant
    PROVE  Quiet
<1>1. /\ Types /\ Protocol /\ TasksTypeOK /\ NoTaskTwice /\ FlatTypeOK
  BY DEF IInv, Types, Protocol
<1>2. /\ UNCHANGED tasks /\ running' \in {running, NoTask} /\ InUse
      /\ state' = state \/ state' = "busy"
      /\ call["interrupt"] = NoCall
      /\ Place \in {"none", "configure", "granted"}
  BY <1>1 DEF Grant, GrantedTask, Configure, Granted, Scheduler!Finish, InTask, At, Runs, taskVars, arbiterVars,
         Protocol, GrantingInv, GrantDue, Granting, InUse, Place, NoCall
<1>3. PICK f : /\ call' = [call EXCEPT !["main"] = f]
               /\ f.at \in {"none", "configure", "granted"}
  BY GrantPlaces
<1>4. /\ Place' = f.at /\ call'["interrupt"] = NoCall
  BY <1>2, <1>3, PlacesMove DEF Place, Contexts
<1>5. Place \notin Managing /\ Place' \notin Managing /\ ~ Requesting'
  BY <1>2, <1>3, <1>4 DEF Managing, Requesting, Place, Contexts, NoCall
<1>6. state # "granting" \/ GrantDue
  BY <1>2 DEF InUse
<1>7. running' = running \/ running' \notin OwnTasks
  BY <1>2, TaskNames DEF OwnTasks
<1>8. QED
  BY <1>1, <1>2, <1>5, <1>6, <1>7, OwnTasksStay DEF Quiet

\* Nothing happens, as far as the arbiter is concerned.
LEMMA StutterIsQuiet ==
    ASSUME IInv, UNCHANGED sharedVars
    PROVE  Quiet
<1>1. /\ Types /\ Protocol /\ TasksTypeOK /\ NoTaskTwice
  BY DEF IInv, Types, Protocol
<1>2. UNCHANGED <<state, tasks, running, call>>
  BY DEF sharedVars, arbiterVars, taskVars
<1>3. Place' = Place /\ (Requesting' <=> Requesting)
  BY <1>2 DEF Place, Requesting
<1>4. GrantDue' <=> GrantDue
  BY <1>2, SameTasks DEF GrantDue, Granting
<1>5. QED
  BY <1>1, <1>2, <1>3, <1>4, OwnTasksStay DEF Quiet, InUse

-----------------------------------------------------------------------------
(* What the managers see of the steps they have a part in. *)

\* requested: the request waits no longer, and startTask may be posted.
LEMMA RequestedView ==
    ASSUME IInv, NEW ctx \in Contexts, call[ctx].at = "requested",
           call' = [call EXCEPT ![ctx] = NoCall],
           UNCHANGED <<state, running>>,
           UNCHANGED tasks \/ PostTask("startTask")
    PROVE  /\ state = "granting" /\ ~ GrantDue /\ ~ GrantDue'
           /\ Requesting /\ ~ Requesting'
           /\ Place' = Place \/ (Place \notin Managing /\ Place' \notin Managing)
           /\ \A t \in OwnTasks \ {"startTask"} :
                 (Due(t)' <=> Due(t)) /\ (Twice(t)' <=> Twice(t))
           /\ Due("startTask")' => Due("startTask") \/ PostTask("startTask")
           /\ Twice("startTask")' => Due("startTask")
           /\ TimerFirst => TimerFirst'
<1>1. /\ TasksTypeOK /\ NoTaskTwice /\ Protocol
  BY DEF IInv, Types, Protocol
<1>2. /\ call[ctx].at \in Asking /\ state = "granting" /\ ~ GrantDue /\ ~ Granting
      /\ \A other \in Contexts : other # ctx => call[other].at \notin Asking
  BY <1>1 DEF Protocol, AskingInv, OneAsks, GrantingInv, Asking
<1>3. \A other \in Contexts : call'[other] = IF other = ctx THEN NoCall ELSE call[other]
  BY PlacesMove
<1>4. Place' = Place \/ (Place \notin Managing /\ Place' \notin Managing)
  BY <1>2, <1>3 DEF Place, Contexts, Asking, ImmFrames, Managing, NoCall
<1>5. Requesting /\ ~ Requesting'
  BY <1>2, <1>3 DEF Requesting, NoCall, Asking
<1>6. \A u : u # "startTask" => (Queued(u)' <=> Queued(u))
  BY <1>1, SameTasks, PostedOnce, TaskNames
<1>7. Queued("startTask")' => Queued("startTask") \/ PostTask("startTask")
  BY <1>1, SameTasks
<1>8. ~ Granting' /\ ~ GrantDue'
  BY <1>2, <1>3, <1>6 DEF Granting, GrantDue, NoCall, Contexts
<1>9. \A t \in OwnTasks \ {"startTask"} :
          (Due(t)' <=> Due(t)) /\ (Twice(t)' <=> Twice(t))
  BY <1>4, <1>6 DEF Due, Twice, Managing
<1>10. /\ Due("startTask")' => Due("startTask") \/ PostTask("startTask")
       /\ Twice("startTask")' => Due("startTask")
  BY <1>4, <1>7 DEF Due, Twice
<1>11. ASSUME TimerFirst PROVE TimerFirst'
  <2>1. (\A i, j \in 1..Len(tasks) : tasks[i] = "startTask" /\ tasks[j] = "timerTask" => j < i)'
    <3>1. CASE UNCHANGED tasks
      BY <3>1, <1>11 DEF TimerFirst
    <3>2. CASE Scheduler!LineUp("startTask")
      <4>1. tasks' = Append(tasks, "startTask") /\ Len(tasks) \in Nat
        BY <1>1, <3>2 DEF Scheduler!LineUp, TasksTypeOK
      <4>2. /\ Len(tasks') = Len(tasks) + 1
            /\ \A i \in 1..Len(tasks) : tasks'[i] = tasks[i]
            /\ tasks'[Len(tasks) + 1] = "startTask"
        BY <4>1, <1>1 DEF TasksTypeOK
      <4>3. ASSUME NEW i \in 1..Len(tasks'), NEW j \in 1..Len(tasks'),
                   tasks'[i] = "startTask" /\ tasks'[j] = "timerTask"
            PROVE  j < i
        <5>1. j \in 1..Len(tasks) /\ tasks[j] = "timerTask"
          BY <4>1, <4>2, <4>3
        <5>2. i = Len(tasks) + 1 \/ (i \in 1..Len(tasks) /\ tasks[i] = "startTask")
          BY <4>1, <4>2, <4>3
        <5>3. QED
          BY <5>1, <5>2, <4>1, <1>11 DEF TimerFirst
      <4>4. QED
        BY <4>3
    <3>3. QED
      BY <3>1, <3>2 DEF PostTask
  <2>2. QED
    BY <2>1, <1>9, <1>11 DEF TimerFirst, OwnTasks
<1>12. QED
  BY <1>2, <1>4, <1>5, <1>8, <1>9, <1>10, <1>11

\* The manager works in the main context: no request waits, the state stays, and
\* what it has to do is what is queued.
LEMMA OwnersMoveView ==
    ASSUME IInv, OwnersMove, running' = NoTask \/ Place' \in Managing
    PROVE  /\ ~ Requesting /\ ~ Requesting' /\ state' = state
           /\ \A t \in OwnTasks : /\ (Queued(t)' <=> Queued(t))
                                  /\ (Due(t)' <=> Queued(t)) /\ ~ Twice(t)'
           /\ GrantDue' => GrantDue \/ state = "granting"
           /\ UNCHANGED tasks => (GrantDue' <=> GrantDue)
           /\ TimerFirst => TimerFirst'
<1>1. /\ TasksTypeOK /\ NoTaskTwice /\ Protocol
  BY DEF IInv, Types, Protocol
<1>2. /\ call["interrupt"] = NoCall
      /\ call["main"].at \in Managing \cup {"none"}
      /\ running # "grantedTask" /\ running' \in {running, NoTask}
  BY ManagersTurnFacts DEF OwnersMove
<1>3. PICK f \in FrameType : /\ f.at \in Managing \/ f = NoCall
                             /\ call' = [call EXCEPT !["main"] = f]
  BY OwnersMoveIsWork DEF OwnerWorks
<1>4. call'["main"] = f /\ call'["interrupt"] = NoCall
  BY <1>2, <1>3, PlacesMove DEF Contexts
<1>5. ~ Requesting /\ ~ Requesting' /\ state # "immGranting"
  BY <1>1, <1>2, <1>3, <1>4 DEF Requesting, Contexts, NoCall, Managing, Protocol, ImmediateInv, ImmFrames
<1>6. /\ state' = state /\ (UNCHANGED tasks \/ PostTask("grantedTask"))
      /\ UNCHANGED tasks \/ state = "granting"
  BY <1>5 DEF OwnersMove, DefaultOwnerRelease, DefaultOwnerReleases, CannotRelease, arbiterVars
<1>7. \A t \in OwnTasks : Queued(t)' <=> Queued(t)
  BY <1>1, <1>6, OrderStays
<1>8. \A t \in OwnTasks : (Due(t)' <=> Queued(t)) /\ ~ Twice(t)'
  BY <1>7, TaskNames DEF Due, Twice, OwnTasks
<1>9. (GrantDue <=> Queued("grantedTask")) /\ (GrantDue' <=> Queued("grantedTask")')
  BY <1>2, TaskNames DEF GrantDue
<1>10. UNCHANGED tasks => (GrantDue' <=> GrantDue)
  BY <1>9, SameTasks
<1>11. TimerFirst => TimerFirst'
  <2>1. running' = "startTask" => running = "startTask"
    BY <1>2, TaskNames
  <2>2. Queued("timerTask") => Due("timerTask")
    BY DEF Due
  <2>3. "timerTask" \in OwnTasks
    BY DEF OwnTasks
  <2>4. QED
    BY <1>1, <1>6, <1>8, <2>1, <2>2, <2>3, OrderStays DEF TimerFirst
<1>12. QED
  BY <1>5, <1>6, <1>7, <1>8, <1>9, <1>10, <1>11

\* A release to the default owner, which posts one of its tasks.
LEMMA ReleaseView ==
    ASSUME IInv, NEW ctx, NEW c \in Clients, ReleaseToDefault(ctx, c),
           NEW t \in OwnTasks, PostTask(t)
    PROVE  /\ InUse /\ state = "busy" /\ state' = "controlled" /\ ~ InUse'
           /\ Place' = Place /\ ~ Requesting'
           /\ \A u \in OwnTasks \ {t} : (Due(u)' <=> Due(u)) /\ (Twice(u)' <=> Twice(u))
           /\ Twice(t)' => Due(t)
           /\ UNCHANGED running
<1>1. /\ TasksTypeOK /\ NoTaskTwice /\ Protocol
  BY DEF IInv, Types, Protocol
<1>2. /\ holds[c] /\ state = "busy" /\ state' = "controlled" /\ UNCHANGED <<running, call>>
  BY DEF ReleaseToDefault
<1>3. /\ \A other \in Contexts : call[other].at \notin Asking
      /\ ~ GrantDue /\ ~ Granting
  BY <1>2, NobodyAsks
<1>4. \A u : u # t => (Queued(u)' <=> Queued(u))
  BY <1>1, PostedOnce, TaskNames DEF OwnTasks
<1>5. ~ GrantDue' /\ ~ Requesting'
  BY <1>2, <1>3, <1>4 DEF GrantDue, Granting, OwnTasks, Requesting, Asking
<1>6. Place' = Place
  BY <1>2 DEF Place
<1>7. QED
  BY <1>2, <1>4, <1>5, <1>6 DEF InUse, Due, Twice

\* A task or an event of the manager's: what it finds, and where it goes.
LEMMA OwnersTurnView ==
    ASSUME IInv
    PROVE  /\ \A t \in OwnTasks : InTask(t) => running = t /\ Place = "none" /\ Due(t)
           /\ CanCall("main") => running = NoTask /\ Place = "none"
           /\ \A at : At("main", at) => Place = at
           /\ EndTask => Place' = "none" /\ running' = NoTask
           /\ \A at : GoTo("main", at) => Place' = at
           /\ \A at, id : call' = [call EXCEPT !["main"] = Frame(at, id)] => Place' = at
           /\ Place = "none" => call["main"] = NoCall
<1>1. FlatTypeOK /\ FramesInv
  BY DEF IInv, Types, Protocol
<1>2. \A f : call' = [call EXCEPT !["main"] = f] => call'["main"] = f
  BY <1>1 DEF FlatTypeOK, Contexts
<1>3. /\ \A t \in OwnTasks : InTask(t) => running = t /\ Place = "none" /\ Due(t)
      /\ CanCall("main") => running = NoTask /\ Place = "none"
      /\ \A at : At("main", at) => Place = at
      /\ Place = "none" => call["main"] = NoCall
  BY <1>1 DEF InTask, CanCall, At, Due, Place, NoCall, Managing, FramesInv, Contexts
<1>4. /\ EndTask => Place' = "none" /\ running' = NoTask
      /\ \A at : GoTo("main", at) => Place' = at
      /\ \A at, id : call' = [call EXCEPT !["main"] = Frame(at, id)] => Place' = at
  BY <1>2 DEF EndTask, Return, GoTo, Frame, Place, NoCall
<1>5. QED
  BY <1>3, <1>4

-----------------------------------------------------------------------------
(***************************************************************************)
(* A request on its way through PowerManagerP, or DeferredPowerManagerP,   *)
(* is one token: it waits for requested, or startTask is due, or the       *)
(* device starts, or startDone is going on, or it was noted while the      *)
(* device was stopping.  Wherever it is, it is in that place only, and the *)
(* arbiter is granting and waits for the manager's release.                *)
(***************************************************************************)
StartInv ==
    /\ \/ Requesting \/ Due("startTask") \/ power = "starting" \/ Place = "startDone"
       \/ requested /\ Place # "clear"
       => state = "granting" /\ ~ GrantDue
    /\ Requesting => /\ ~ Due("startTask") /\ power # "starting" /\ Place # "startDone"
                     /\ requested => Place = "clear"
    /\ Due("startTask") => /\ power # "starting" /\ Place # "startDone"
                           /\ ~ requested /\ ~ stopping
    /\ power = "starting" => Place # "startDone" /\ (requested => Place = "clear")
    /\ Place = "startDone" => ~ requested
    /\ requested => stopping
    /\ Place \in {"restart", "restarted"} => requested
    /\ ~ Twice("startTask")

LEMMA QuietKeepsStart ==
    ASSUME Quiet, StartInv, UNCHANGED <<power, stopping, requested>>
    PROVE  StartInv'
<1>1. "startTask" \in OwnTasks
  BY DEF OwnTasks
<1>2. QED
  BY <1>1 DEF Quiet, StartInv, Managing

(***************************************************************************)
(* PowerManagerP's device is on whenever the resource is in use, and       *)
(* goes off between a release to the manager and the end of stopDone.      *)
(***************************************************************************)
StopInv ==
    /\ Due("stopTask") => stopping /\ ~ InUse /\ power \notin {"starting", "stopping"}
    /\ power # "on" => ~ InUse
    /\ power = "stopping" => stopping
    /\ Place \in {"startDone", "stopDone", "restart", "restarted", "clear"} =>
          ~ Due("stopTask") /\ power # "stopping"
    /\ Place \in {"stopDone", "restart", "restarted", "clear"} => stopping
    /\ Place \in {"stopDone", "restart"} => ~ InUse
    /\ Place \in {"startDone", "restarted"} => power = "on"
    /\ Place = "clear" => state # "busy"
    /\ ~ Twice("stopTask")

LEMMA QuietKeepsStop ==
    ASSUME Quiet, StopInv, UNCHANGED <<power, stopping>>
    PROVE  StopInv'
<1>1. "stopTask" \in OwnTasks
  BY DEF OwnTasks
<1>2. QED
  BY <1>1 DEF Quiet, StopInv, Managing

LEMMA RequestedOfP ==
    ASSUME IInv, StartInv, StopInv, OwnTypes, NEW ctx \in Contexts, P!Requested(ctx)
    PROVE  StartInv' /\ StopInv'
<1>1. /\ call[ctx].at = "requested" /\ call' = [call EXCEPT ![ctx] = NoCall]
      /\ UNCHANGED <<state, running, power, stopping>>
      /\ \/ ~ stopping /\ PostTask("startTask") /\ UNCHANGED requested
         \/ stopping /\ requested' = TRUE /\ UNCHANGED tasks
  BY SameP DEF P!Requested, At, Return, P!arbiterVars, arbiterVars, OwnTypes
<1>2. /\ state = "granting" /\ ~ GrantDue /\ ~ GrantDue'
      /\ Requesting /\ ~ Requesting'
      /\ Place' = Place \/ (Place \notin Managing /\ Place' \notin Managing)
      /\ (Due("stopTask")' <=> Due("stopTask")) /\ (Twice("stopTask")' <=> Twice("stopTask"))
      /\ Due("startTask")' => Due("startTask") \/ PostTask("startTask")
      /\ Twice("startTask")' => Due("startTask")
  BY <1>1, RequestedView DEF OwnTasks
<1>3. CASE ~ stopping /\ UNCHANGED requested
  BY <1>1, <1>2, <1>3 DEF StartInv, StopInv, InUse, Managing
<1>4. CASE stopping /\ requested' = TRUE /\ UNCHANGED tasks
  <2>1. Due("startTask")' => Due("startTask")
    BY <1>1, <1>2, <1>4, SameTasks DEF Due
  <2>2. QED
    BY <1>1, <1>2, <1>4, <2>1 DEF StartInv, StopInv, InUse, Managing
<1>5. QED
  BY <1>1, <1>3, <1>4

LEMMA ReleaseOfP ==
    ASSUME IInv, StartInv, StopInv, NEW ctx, NEW c \in Clients,
           ReleaseToDefault(ctx, c), PostTask("stopTask"),
           stopping' = TRUE, UNCHANGED <<power, requested>>,
           Place # "stop"
    PROVE  StartInv' /\ StopInv'
<1>1. /\ InUse /\ state = "busy" /\ state' = "controlled" /\ ~ InUse'
      /\ Place' = Place /\ ~ Requesting'
      /\ (Due("startTask")' <=> Due("startTask")) /\ (Twice("startTask")' <=> Twice("startTask"))
      /\ Twice("stopTask")' => Due("stopTask")
  BY ReleaseView DEF OwnTasks
<1>2. ~ Due("startTask") /\ power = "on" /\ Place \notin Managing /\ ~ Due("stopTask")
      /\ (requested => Place = "clear")
  BY <1>1 DEF StartInv, StopInv, Managing
<1>3. QED
  BY <1>1, <1>2 DEF StartInv, StopInv, Managing

\* What OwnersMoveView says of the tasks that are due, spelt out.
LEMMA OwnersMoveDue ==
    ASSUME IInv, OwnersMove, running' = NoTask \/ Place' \in Managing
    PROVE  /\ ~ Requesting /\ ~ Requesting' /\ state' = state
           /\ Due("startTask")' => Due("startTask") /\ Queued("startTask")
           /\ Due("stopTask")' => Due("stopTask") /\ Queued("stopTask")
           /\ Due("timerTask")' => Due("timerTask") /\ Queued("timerTask")
           /\ ~ Twice("startTask")' /\ ~ Twice("stopTask")' /\ ~ Twice("timerTask")'
           /\ GrantDue' => GrantDue \/ state = "granting"
           /\ UNCHANGED tasks => (GrantDue' <=> GrantDue)
           /\ TimerFirst => TimerFirst'
<1>1. {"startTask", "stopTask", "timerTask"} = OwnTasks
  BY DEF OwnTasks
<1>2. \A t \in OwnTasks : Queued(t) => Due(t)
  BY DEF Due
<1>3. QED
  BY <1>1, <1>2, OwnersMoveView

\* The steps of PowerManagerP towards a start, ...
LEMMA StartsOfP ==
    ASSUME IInv, StartInv, StopInv, OwnTypes, "start" \notin Failures,
           P!StartTask \/ P!StartDone \/ (DeviceStarted /\ UNCHANGED P!managerVars)
    PROVE  StartInv' /\ StopInv'
<1> USE SameP DEF P!managerVars
<1>1. OwnersMove
  BY MovesOfP, DeviceMoves
<1>2. CASE P!StartTask
  <2>1. /\ InTask("startTask") /\ UNCHANGED <<tasks, stopping, requested>>
        /\ \/ /\ power' = "on" /\ UNCHANGED running
              /\ call' = [call EXCEPT !["main"] = Frame("startDone", NO_RES)]
           \/ /\ power' = power \/ (power = "off" /\ power' = "starting")
              /\ EndTask
    BY <1>2 DEF P!StartTask, SplitStart, P!Frame, Frame, P!NO_RES, NO_RES
  <2>2. running = "startTask" /\ Place = "none" /\ Due("startTask")
    BY <2>1, OwnersTurnView DEF OwnTasks
  <2>3. ~ Queued("startTask")
    BY <2>2 DEF StartInv, Twice, Managing
  <2>4. \/ power' = "on" /\ Place' = "startDone"
        \/ /\ power' = power \/ (power = "off" /\ power' = "starting")
           /\ Place' = "none" /\ running' = NoTask
    BY <2>1, OwnersTurnView
  <2>5. running' = NoTask \/ Place' \in Managing
    BY <2>4 DEF Managing
  <2>6. QED
    BY <1>1, <2>1, <2>2, <2>3, <2>4, <2>5, OwnersMoveDue DEF StartInv, StopInv, InUse
<1>3. CASE P!StartDone
  <2>1. At("main", "startDone") /\ EndTask /\ UNCHANGED <<power, stopping, requested>>
    BY <1>3 DEF P!StartDone
  <2>2. Place = "startDone" /\ Place' = "none" /\ running' = NoTask
    BY <2>1, OwnersTurnView
  <2>3. QED
    BY <1>1, <2>1, <2>2, OwnersMoveDue DEF StartInv, StopInv, InUse
<1>4. CASE DeviceStarted /\ UNCHANGED P!managerVars
  <2>1. /\ CanCall("main") /\ power = "starting" /\ power' = "on"
        /\ call' = [call EXCEPT !["main"] = Frame("startDone", NO_RES)]
        /\ UNCHANGED <<tasks, running, stopping, requested>>
    BY <1>4 DEF DeviceStarted, taskVars
  <2>2. Place = "none" /\ Place' = "startDone" /\ running' = NoTask
    BY <2>1, OwnersTurnView
  <2>3. QED
    BY <1>1, <2>1, <2>2, OwnersMoveDue DEF StartInv, StopInv, InUse
<1>5. QED
  BY <1>2, <1>3, <1>4

\* ... and towards a stop.
LEMMA StopsOfP ==
    ASSUME IInv, StartInv, StopInv, OwnTypes,
           P!StopTask \/ P!StopDone \/ P!Clear \/ (DeviceStopped /\ UNCHANGED P!managerVars)
    PROVE  StartInv' /\ StopInv'
<1> USE SameP DEF P!managerVars
<1>1. OwnersMove
  BY MovesOfP, DeviceMoves
<1>2. CASE P!StopTask
  <2>1. /\ InTask("stopTask") /\ UNCHANGED <<tasks, stopping, requested>>
        /\ \/ /\ power' = "off" /\ UNCHANGED running
              /\ call' = [call EXCEPT !["main"] = Frame("stopDone", NO_RES)]
           \/ power' \in {power, "stopping"} /\ EndTask
    BY <1>2 DEF P!StopTask, SplitStop, P!Frame, Frame, P!NO_RES, NO_RES
  <2>2. running = "stopTask" /\ Place = "none" /\ Due("stopTask")
    BY <2>1, OwnersTurnView DEF OwnTasks
  <2>3. ~ Queued("stopTask")
    BY <2>2 DEF StopInv, Twice, Managing
  <2>4. \/ power' = "off" /\ Place' = "stopDone"
        \/ power' \in {power, "stopping"} /\ Place' = "none" /\ running' = NoTask
    BY <2>1, OwnersTurnView
  <2>5. running' = NoTask \/ Place' \in Managing
    BY <2>4 DEF Managing
  <2>6. QED
    BY <1>1, <2>1, <2>2, <2>3, <2>4, <2>5, OwnersMoveDue DEF StartInv, StopInv, InUse
<1>3. CASE P!StopDone
  <2>1. /\ At("main", "stopDone") /\ GoTo("main", IF requested THEN "restart" ELSE "clear")
        /\ UNCHANGED <<tasks, running, power, stopping, requested>>
    BY <1>3 DEF P!StopDone, P!taskVars
  <2>2. Place = "stopDone" /\ Place' = IF requested THEN "restart" ELSE "clear"
    BY <2>1, OwnersTurnView
  <2>3. Place' \in Managing
    BY <2>2 DEF Managing
  <2>4. QED
    BY <1>1, <2>1, <2>2, <2>3, OwnersMoveDue DEF StartInv, StopInv, InUse
<1>4. CASE P!Clear
  <2>1. At("main", "clear") /\ EndTask /\ UNCHANGED <<tasks, power>>
        /\ requested' = FALSE /\ stopping' = FALSE
    BY <1>4 DEF P!Clear
  <2>2. Place = "clear" /\ Place' = "none" /\ running' = NoTask
    BY <2>1, OwnersTurnView
  <2>3. QED
    BY <1>1, <2>1, <2>2, OwnersMoveDue DEF StartInv, StopInv, InUse
<1>5. CASE DeviceStopped /\ UNCHANGED P!managerVars
  <2>1. /\ CanCall("main") /\ power = "stopping" /\ power' \in {"off", "on"}
        /\ call' = [call EXCEPT !["main"] = Frame("stopDone", NO_RES)]
        /\ UNCHANGED <<tasks, running, stopping, requested>>
    BY <1>5 DEF DeviceStopped, taskVars
  <2>2. Place = "none" /\ Place' = "stopDone" /\ running' = NoTask
    BY <2>1, OwnersTurnView
  <2>3. QED
    BY <1>1, <2>1, <2>2, OwnersMoveDue DEF StartInv, StopInv, InUse
<1>6. QED
  BY <1>2, <1>3, <1>4, <1>5

\* stopDone starts the device again for a request that came in the meantime.
LEMMA RestartsOfP ==
    ASSUME IInv, StartInv, StopInv, OwnTypes, P!Restart \/ P!Restarted
    PROVE  StartInv' /\ StopInv'
<1> USE SameP DEF P!managerVars
<1>1. OwnersMove
  BY MovesOfP
<1>2. CASE P!Restart
  <2>1. /\ At("main", "restart") /\ UNCHANGED <<tasks, running, stopping, requested>>
        /\ \/ power' = "on" /\ GoTo("main", "restarted")
           \/ /\ power' = power \/ (power = "off" /\ power' = "starting")
              /\ GoTo("main", "clear")
    BY <1>2 DEF P!Restart, SplitStart, P!taskVars
  <2>2. /\ Place = "restart"
        /\ \/ power' = "on" /\ Place' = "restarted"
           \/ /\ power' = power \/ (power = "off" /\ power' = "starting")
              /\ Place' = "clear"
    BY <2>1, OwnersTurnView
  <2>3. Place' \in Managing
    BY <2>2 DEF Managing
  <2>4. QED
    BY <1>1, <2>1, <2>2, <2>3, OwnersMoveDue DEF StartInv, StopInv, InUse
<1>3. CASE P!Restarted
  <2>1. /\ At("main", "restarted") /\ GoTo("main", "clear")
        /\ UNCHANGED <<running, power, stopping, requested>>
    BY <1>3 DEF P!Restarted
  <2>2. Place = "restarted" /\ Place' = "clear"
    BY <2>1, OwnersTurnView
  <2>3. Place' \in Managing
    BY <2>2 DEF Managing
  <2>4. QED
    BY <1>1, <2>1, <2>2, <2>3, OwnersMoveDue DEF StartInv, StopInv, InUse
<1>4. QED
  BY <1>2, <1>3

LEMMA KeptByP ==
    ASSUME IInv, ManagerTypes, StartInv, StopInv, "start" \notin Failures, OnlyP, P!Next
    PROVE  StartInv' /\ StopInv'
<1>1. OwnTypes /\ Place # "stop"
  <2>1. Place \in Frames \cup P!ManagerFrames \cup {"none"}
    BY DEF ManagerTypes, FramesFit, ManagerFramesOf, OnlyP, Place, Contexts
  <2>2. QED
    BY <2>1 DEF ManagerTypes, Frames, P!ManagerFrames
<1>2. ASSUME Quiet, UNCHANGED <<power, P!managerVars>>
      PROVE  StartInv' /\ StopInv'
  BY <1>2, QuietKeepsStart, QuietKeepsStop DEF P!managerVars
<1> USE SameP
<1>3. ASSUME NEW ctx \in Contexts, AskManaged(ctx), UNCHANGED P!managerVars
      PROVE  StartInv' /\ StopInv'
  BY <1>2, <1>3, AskIsQuiet DEF AskManaged
<1>4. ASSUME NEW ctx \in Contexts, P!Continue(ctx)
      PROVE  StartInv' /\ StopInv'
  <2>1. CASE P!Requested(ctx)
    BY <1>1, <2>1, RequestedOfP
  <2>2. CASE IgnoreImmediateRequested(ctx) /\ UNCHANGED P!managerVars
    BY <1>2, <2>2, FinishIsQuiet DEF IgnoreImmediateRequested
  <2>3. CASE FinishAsking(ctx) /\ UNCHANGED <<power, P!managerVars>>
    BY <1>2, <2>3, FinishIsQuiet
  <2>4. QED
    BY <1>4, <2>1, <2>2, <2>3 DEF P!Continue
<1>5. ASSUME NEW ctx \in Contexts, NEW c \in Clients, P!Release(ctx, c)
      PROVE  StartInv' /\ StopInv'
  <2>1. CASE ReleaseToNext(ctx, c) /\ UNCHANGED <<power, P!managerVars>>
    BY <1>2, <2>1, ReleaseToNextIsQuiet
  <2>2. CASE ReleaseToDefault(ctx, c) /\ stopping' = TRUE /\ PostTask("stopTask")
             /\ UNCHANGED <<power, requested>>
    BY <1>1, <2>2, ReleaseOfP
  <2>3. QED
    BY <1>5, <2>1, <2>2 DEF P!Release
<1>6. ASSUME P!TaskStep \/ P!StartNextTask \/ P!Device
      PROVE  StartInv' /\ StopInv'
  BY <1>1, <1>2, <1>6, GrantIsQuiet, StartIsQuiet, StartsOfP, StopsOfP, RestartsOfP
     DEF P!TaskStep, P!StartNextTask, P!Device
<1>7. QED
  BY <1>3, <1>4, <1>5, <1>6 DEF P!Next, P!Contexts, Contexts, P!Clients, Clients

-----------------------------------------------------------------------------
(***************************************************************************)
(* DeferredPowerManagerP: once its timer runs, or is to be started, the    *)
(* device is neither in use nor switching, and a request that waits in     *)
(* front of startTask has set stopTimer, so that Fired leaves the device   *)
(* alone; stopping is on while the device switches off, and off while a    *)
(* start that requests can see is under way.                               *)
(***************************************************************************)
TimerInv ==
    /\ TimerFirst
    /\ Due("startTask") => stopTimer
    /\ ~ (timer /\ Due("timerTask"))
    /\ ~ Twice("timerTask")
    /\ \/ InUse \/ power \in {"starting", "stopping"} \/ stopping
       \/ Place \in {"startDone", "stopDone", "restart", "clear"}
       => ~ timer /\ ~ Due("timerTask")
    /\ power = "starting" /\ stopping => Place = "clear"
    /\ power = "stopping" => stopping
    /\ Place \in {"stopDone", "restart", "clear"} => stopping /\ power # "stopping"
    /\ Place = "startDone" => ~ stopping /\ power \in {"on", "off"}
    /\ InUse => ~ stopping /\ power \in {"on", "off"}

\* The device is on whenever the resource is in use.
OnInv == InUse \/ Place = "startDone" => power = "on"

DeferredInv == StartInv /\ TimerInv /\ ("start" \notin Failures => OnInv)

LEMMA QuietKeepsDeferred ==
    ASSUME Quiet, DeferredInv, UNCHANGED <<power, stopping, requested, stopTimer, timer, build>>
    PROVE  DeferredInv'
<1>1. {"startTask", "timerTask"} \subseteq OwnTasks
  BY DEF OwnTasks
<1>2. StartInv'
  BY QuietKeepsStart DEF DeferredInv
<1>3. TimerInv'
  BY <1>1 DEF Quiet, DeferredInv, TimerInv, Managing
<1>4. Failures' = Failures /\ (OnInv => OnInv')
  BY DEF Failures, Quiet, OnInv, Managing
<1>5. QED
  BY <1>2, <1>3, <1>4 DEF DeferredInv

LEMMA RequestedOfD ==
    ASSUME IInv, DeferredInv, OwnTypes, UNCHANGED build, NEW ctx \in Contexts, D!Requested(ctx)
    PROVE  DeferredInv'
<1>1. /\ call[ctx].at = "requested" /\ call' = [call EXCEPT ![ctx] = NoCall]
      /\ UNCHANGED <<state, running, power, stopping, timer>>
      /\ \/ ~ stopping /\ PostTask("startTask") /\ UNCHANGED requested /\ stopTimer' = TRUE
         \/ stopping /\ requested' = TRUE /\ UNCHANGED <<tasks, stopTimer>>
  BY SameD DEF D!Requested, At, Return, D!arbiterVars, arbiterVars, OwnTypes
<1>2. /\ state = "granting" /\ ~ GrantDue /\ ~ GrantDue'
      /\ Requesting /\ ~ Requesting'
      /\ Place' = Place \/ (Place \notin Managing /\ Place' \notin Managing)
      /\ (Due("timerTask")' <=> Due("timerTask")) /\ (Twice("timerTask")' <=> Twice("timerTask"))
      /\ Due("startTask")' => Due("startTask") \/ PostTask("startTask")
      /\ Twice("startTask")' => Due("startTask")
      /\ TimerFirst => TimerFirst'
  BY <1>1, RequestedView DEF OwnTasks
<1>3. Failures' = Failures /\ StartInv /\ TimerInv /\ ("start" \notin Failures => OnInv)
  BY DEF Failures, DeferredInv
<1>4. ~ InUse /\ ~ InUse'
  BY <1>1, <1>2 DEF InUse
<1>5. OnInv => OnInv'
  BY <1>1, <1>2, <1>4 DEF OnInv, Managing
<1>6. CASE ~ stopping /\ UNCHANGED requested /\ stopTimer' = TRUE
  BY <1>1, <1>2, <1>3, <1>4, <1>5, <1>6 DEF DeferredInv, StartInv, TimerInv, Managing
<1>7. CASE stopping /\ requested' = TRUE /\ UNCHANGED <<tasks, stopTimer>>
  <2>1. Due("startTask")' => Due("startTask")
    BY <1>1, <1>2, <1>7, SameTasks DEF Due
  <2>2. QED
    BY <1>1, <1>2, <1>3, <1>4, <1>5, <1>7, <2>1 DEF DeferredInv, StartInv, TimerInv, Managing
<1>8. QED
  BY <1>1, <1>6, <1>7

\* Posting timerTask behind no startTask.
LEMMA TimerTaskPosted ==
    ASSUME TasksTypeOK, NoTaskTwice, TimerFirst, PostTask("timerTask"), UNCHANGED running,
           ~ Queued("startTask"), running # "startTask"
    PROVE  TimerFirst'
<1>1. ~ Queued("startTask")'
  BY PostedOnce, TaskNames
<1>2. \A i \in 1..Len(tasks') : tasks'[i] # "startTask"
  BY <1>1 DEF Queued, Scheduler!IsQueued
<1>3. QED
  BY <1>2 DEF TimerFirst

LEMMA ReleaseOfD ==
    ASSUME IInv, DeferredInv, NEW ctx, NEW c \in Clients,
           ReleaseToDefault(ctx, c), PostTask("timerTask"),
           UNCHANGED <<power, stopping, requested, stopTimer, timer, build>>,
           Place \notin {"stop", "restarted"}
    PROVE  DeferredInv'
<1>1. /\ InUse /\ state = "busy" /\ state' = "controlled" /\ ~ InUse'
      /\ Place' = Place /\ ~ Requesting'
      /\ (Due("startTask")' <=> Due("startTask")) /\ (Twice("startTask")' <=> Twice("startTask"))
      /\ Twice("timerTask")' => Due("timerTask")
      /\ UNCHANGED running
  BY ReleaseView DEF OwnTasks
<1>2. Failures' = Failures /\ StartInv /\ TimerInv /\ ("start" \notin Failures => OnInv)
  BY DEF Failures, DeferredInv
<1>3. /\ ~ Due("startTask") /\ power \in {"on", "off"} /\ Place \notin Managing
      /\ ~ Due("timerTask") /\ ~ timer /\ ~ stopping /\ ~ requested
  BY <1>1, <1>2 DEF StartInv, TimerInv, Managing
<1>4. TimerFirst'
  <2>1. TasksTypeOK /\ NoTaskTwice
    BY DEF IInv, Types, Protocol
  <2>2. QED
    BY <1>1, <1>2, <1>3, <2>1, TimerTaskPosted DEF TimerInv, Due
<1>5. QED
  BY <1>1, <1>2, <1>3, <1>4 DEF DeferredInv, StartInv, TimerInv, OnInv, Managing

\* The steps of DeferredPowerManagerP towards a start, ...
LEMMA StartsOfD ==
    ASSUME IInv, DeferredInv, OwnTypes, UNCHANGED build,
           D!StartTask \/ D!StartDone \/ (DeviceStarted /\ UNCHANGED D!managerVars)
    PROVE  DeferredInv'
<1> USE SameD DEF D!managerVars
<1>1. OwnersMove
  BY MovesOfD, DeviceMoves
<1>2. Failures' = Failures /\ StartInv /\ TimerInv /\ ("start" \notin Failures => OnInv)
  BY DEF Failures, DeferredInv
<1>3. CASE D!StartTask
  <2>1. /\ InTask("startTask") /\ UNCHANGED <<tasks, stopping, requested>>
        /\ timer' = FALSE /\ stopTimer' = FALSE
        /\ \/ /\ power' = "on" /\ UNCHANGED running
              /\ call' = [call EXCEPT !["main"] = Frame("startDone", NO_RES)]
           \/ /\ power' = power \/ (power = "off" /\ power' = "starting")
              /\ EndTask
    BY <1>3 DEF D!StartTask, SplitStart, D!Frame, Frame, D!NO_RES, NO_RES
  <2>2. running = "startTask" /\ Place = "none" /\ Due("startTask")
    BY <2>1, OwnersTurnView DEF OwnTasks
  <2>3. ~ Queued("startTask") /\ ~ Due("timerTask")
    BY <1>2, <2>2 DEF StartInv, TimerInv, TimerFirst, Twice, Managing
  <2>4. \/ power' = "on" /\ Place' = "startDone"
        \/ /\ power' = power \/ (power = "off" /\ power' = "starting")
           /\ Place' = "none" /\ running' = NoTask
    BY <2>1, OwnersTurnView
  <2>5. running' = NoTask \/ Place' \in Managing
    BY <2>4 DEF Managing
  <2>6. QED
    BY <1>1, <1>2, <2>1, <2>2, <2>3, <2>4, <2>5, OwnersMoveDue
       DEF DeferredInv, StartInv, TimerInv, OnInv, InUse
<1>4. CASE D!StartDone
  <2>1. /\ At("main", "startDone") /\ EndTask
        /\ UNCHANGED <<power, stopping, requested, timer, stopTimer>>
    BY <1>4 DEF D!StartDone
  <2>2. Place = "startDone" /\ Place' = "none" /\ running' = NoTask
    BY <2>1, OwnersTurnView
  <2>3. QED
    BY <1>1, <1>2, <2>1, <2>2, OwnersMoveDue
       DEF DeferredInv, StartInv, TimerInv, OnInv, InUse
<1>5. CASE DeviceStarted /\ UNCHANGED D!managerVars
  <2>1. /\ CanCall("main") /\ power = "starting"
        /\ power' = "on" \/ ("start" \in Failures /\ power' = "off")
        /\ call' = [call EXCEPT !["main"] = Frame("startDone", NO_RES)]
        /\ UNCHANGED <<tasks, running, stopping, requested, timer, stopTimer>>
    BY <1>5 DEF DeviceStarted, taskVars
  <2>2. Place = "none" /\ Place' = "startDone" /\ running' = NoTask
    BY <2>1, OwnersTurnView
  <2>3. QED
    BY <1>1, <1>2, <2>1, <2>2, OwnersMoveDue
       DEF DeferredInv, StartInv, TimerInv, OnInv, InUse
<1>6. QED
  BY <1>3, <1>4, <1>5

\* ... of its timer, ...
LEMMA TimesOfD ==
    ASSUME IInv, DeferredInv, OwnTypes, UNCHANGED build, D!TimerTask \/ D!Fired
    PROVE  DeferredInv'
<1> USE SameD DEF D!managerVars
<1>1. OwnersMove
  BY MovesOfD
<1>2. Failures' = Failures /\ StartInv /\ TimerInv /\ ("start" \notin Failures => OnInv)
  BY DEF Failures, DeferredInv
<1>3. CASE D!TimerTask
  <2>1. /\ InTask("timerTask") /\ EndTask /\ timer' = TRUE
        /\ UNCHANGED <<tasks, power, stopping, requested, stopTimer>>
    BY <1>3 DEF D!TimerTask
  <2>2. /\ running = "timerTask" /\ Place = "none" /\ Due("timerTask")
        /\ Place' = "none" /\ running' = NoTask
    BY <2>1, OwnersTurnView DEF OwnTasks
  <2>3. ~ Queued("timerTask")
    BY <1>2, <2>2 DEF TimerInv, Twice, Managing
  <2>4. QED
    BY <1>1, <1>2, <2>1, <2>2, <2>3, OwnersMoveDue
       DEF DeferredInv, StartInv, TimerInv, OnInv, InUse
<1>4. CASE D!Fired
  <2>1. /\ CanCall("main") /\ timer /\ timer' = FALSE
        /\ \/ UNCHANGED <<power, stopping>>
           \/ /\ ~ stopTimer
              /\ \/ power' = "off" /\ UNCHANGED stopping
                 \/ power' \in {power, "stopping"} /\ stopping' = TRUE
        /\ UNCHANGED <<tasks, running, call, requested, stopTimer>>
    BY <1>4 DEF D!Fired, SplitStop, D!taskVars, OwnTypes
  <2>2. Place = "none" /\ running = NoTask /\ Place' = Place
    BY <2>1, OwnersTurnView DEF Place
  <2>3. QED
    BY <1>1, <1>2, <2>1, <2>2, OwnersMoveDue
       DEF DeferredInv, StartInv, TimerInv, OnInv, InUse
<1>5. QED
  BY <1>3, <1>4

\* ... and of a stop that was begun.
LEMMA StopsOfD ==
    ASSUME IInv, DeferredInv, OwnTypes, UNCHANGED build,
           D!StopDone \/ D!Restart \/ D!Clear \/ (DeviceStopped /\ UNCHANGED D!managerVars)
    PROVE  DeferredInv'
<1> USE SameD DEF D!managerVars
<1>1. OwnersMove
  BY MovesOfD, DeviceMoves
<1>2. Failures' = Failures /\ StartInv /\ TimerInv /\ ("start" \notin Failures => OnInv)
  BY DEF Failures, DeferredInv
<1>3. CASE D!StopDone
  <2>1. /\ At("main", "stopDone") /\ GoTo("main", IF requested THEN "restart" ELSE "clear")
        /\ UNCHANGED <<tasks, running, power, stopping, requested, timer, stopTimer>>
    BY <1>3 DEF D!StopDone, D!taskVars
  <2>2. Place = "stopDone" /\ Place' = IF requested THEN "restart" ELSE "clear"
    BY <2>1, OwnersTurnView
  <2>3. Place' \in Managing
    BY <2>2 DEF Managing
  <2>4. QED
    BY <1>1, <1>2, <2>1, <2>2, <2>3, OwnersMoveDue
       DEF DeferredInv, StartInv, TimerInv, OnInv, InUse
<1>4. CASE D!Restart
  <2>1. /\ At("main", "restart") /\ GoTo("main", "clear")
        /\ power' = power \/ (power = "off" /\ power' = "starting")
        /\ UNCHANGED <<tasks, running, stopping, requested, timer, stopTimer>>
    BY <1>4 DEF D!Restart, SplitStart, D!taskVars
  <2>2. Place = "restart" /\ Place' = "clear"
    BY <2>1, OwnersTurnView
  <2>3. Place' \in Managing
    BY <2>2 DEF Managing
  <2>4. QED
    BY <1>1, <1>2, <2>1, <2>2, <2>3, OwnersMoveDue
       DEF DeferredInv, StartInv, TimerInv, OnInv, InUse
<1>5. CASE D!Clear
  <2>1. /\ At("main", "clear") /\ EndTask /\ UNCHANGED <<tasks, power, timer, stopTimer>>
        /\ requested' = FALSE /\ stopping' = FALSE
    BY <1>5 DEF D!Clear
  <2>2. Place = "clear" /\ Place' = "none" /\ running' = NoTask
    BY <2>1, OwnersTurnView
  <2>3. QED
    BY <1>1, <1>2, <2>1, <2>2, OwnersMoveDue
       DEF DeferredInv, StartInv, TimerInv, OnInv, InUse
<1>6. CASE DeviceStopped /\ UNCHANGED D!managerVars
  <2>1. /\ CanCall("main") /\ power = "stopping" /\ power' \in {"off", "on"}
        /\ call' = [call EXCEPT !["main"] = Frame("stopDone", NO_RES)]
        /\ UNCHANGED <<tasks, running, stopping, requested, timer, stopTimer>>
    BY <1>6 DEF DeviceStopped, taskVars
  <2>2. Place = "none" /\ Place' = "stopDone" /\ running' = NoTask
    BY <2>1, OwnersTurnView
  <2>3. QED
    BY <1>1, <1>2, <2>1, <2>2, OwnersMoveDue
       DEF DeferredInv, StartInv, TimerInv, OnInv, InUse
<1>7. QED
  BY <1>3, <1>4, <1>5, <1>6

LEMMA KeptByD ==
    ASSUME IInv, ManagerTypes, DeferredInv, OnlyD, D!Next
    PROVE  DeferredInv'
<1>1. OwnTypes /\ UNCHANGED build /\ Place \notin {"stop", "restarted"}
  <2>1. Place \in Frames \cup D!ManagerFrames \cup {"none"}
    BY DEF ManagerTypes, FramesFit, ManagerFramesOf, OnlyD, Wired, Place, Contexts
  <2>2. QED
    BY <2>1 DEF ManagerTypes, Frames, D!ManagerFrames, OnlyD
<1>2. ASSUME Quiet, UNCHANGED <<power, D!managerVars>>
      PROVE  DeferredInv'
  BY <1>1, <1>2, QuietKeepsDeferred DEF D!managerVars
<1> USE SameD
<1>3. ASSUME NEW ctx \in Contexts, AskManaged(ctx), UNCHANGED D!managerVars
      PROVE  DeferredInv'
  BY <1>2, <1>3, AskIsQuiet DEF AskManaged
<1>4. ASSUME NEW ctx \in Contexts, D!Continue(ctx)
      PROVE  DeferredInv'
  <2>1. CASE D!Requested(ctx)
    BY <1>1, <2>1, RequestedOfD
  <2>2. CASE IgnoreImmediateRequested(ctx) /\ UNCHANGED D!managerVars
    BY <1>2, <2>2, FinishIsQuiet DEF IgnoreImmediateRequested
  <2>3. CASE FinishAsking(ctx) /\ UNCHANGED <<power, D!managerVars>>
    BY <1>2, <2>3, FinishIsQuiet
  <2>4. QED
    BY <1>4, <2>1, <2>2, <2>3 DEF D!Continue
<1>5. ASSUME NEW ctx \in Contexts, NEW c \in Clients, D!Release(ctx, c)
      PROVE  DeferredInv'
  <2>1. CASE ReleaseToNext(ctx, c) /\ UNCHANGED <<power, D!managerVars>>
    BY <1>2, <2>1, ReleaseToNextIsQuiet
  <2>2. CASE ReleaseToDefault(ctx, c) /\ PostTask("timerTask") /\ UNCHANGED <<power, D!managerVars>>
    BY <1>1, <2>2, ReleaseOfD DEF D!managerVars
  <2>3. QED
    BY <1>5, <2>1, <2>2 DEF D!Release
<1>6. ASSUME D!TaskStep \/ D!StartNextTask \/ D!Fired \/ D!Device
      PROVE  DeferredInv'
  BY <1>1, <1>2, <1>6, GrantIsQuiet, StartIsQuiet, StartsOfD, TimesOfD, StopsOfD
     DEF D!TaskStep, D!StartNextTask, D!Device
<1>7. QED
  BY <1>3, <1>4, <1>5, <1>6 DEF D!Next, D!Contexts, Contexts, D!Clients, Clients

-----------------------------------------------------------------------------
(***************************************************************************)
(* AsyncPowerManagerP's device is off only while the resource is idle, or  *)
(* in the moment before requested, or immediateRequested, switches it on.  *)
(***************************************************************************)
Off == {"requested", "immediateRequested"}
On == {"requestStarted", "immediateStarted"}

AsyncInv ==
    /\ power = "off" => state = "controlled" \/ \E ctx \in Contexts : call[ctx].at \in Off
    /\ \A ctx \in Contexts : call[ctx].at \in On => power = "on"

LEMMA InitAsync == Init => AsyncInv
  BY DEF Init, ManagedInit, SharedInit, AsyncInv, On, NoCall

LEMMA AsksOfA ==
    ASSUME IInv, AsyncInv, NEW ctx \in Contexts, AskManaged(ctx)
    PROVE  AsyncInv'
<1>1. UNCHANGED power
  BY DEF AskManaged
<1>2. PICK c \in Clients : Request(ctx, c) \/ ImmediateRequest(ctx, c)
  BY DEF AskManaged, Ask
<1>3. CASE RequestAgain(ctx, c) \/ RequestBusy(ctx, c)
  <2>1. UNCHANGED <<state, call>>
    BY <1>3 DEF RequestAgain, RequestBusy, arbiterVars
  <2>2. QED
    BY <1>1, <2>1 DEF AsyncInv
<1>4. CASE RequestControlled(ctx, c) \/ ImmediateRequest(ctx, c)
  <2>1. PICK at \in Off : call' = [call EXCEPT ![ctx] = Frame(at, c)]
    BY <1>4 DEF RequestControlled, ImmediateRequest, Off
  <2>2. \A other \in Contexts : call'[other] = IF other = ctx THEN Frame(at, c) ELSE call[other]
    BY <2>1, PlacesMove
  <2>3. QED
    BY <1>1, <2>2 DEF AsyncInv, Off, On, Frame
<1>5. QED
  BY <1>2, <1>3, <1>4 DEF Request

LEMMA FinishesOfA ==
    ASSUME IInv, AsyncInv, NEW ctx \in Contexts, FinishAsking(ctx), UNCHANGED power
    PROVE  AsyncInv'
<1>1. OneAsks
  BY DEF IInv, Protocol
<1>2. /\ call[ctx].at \in {"immediateCheck", "immediateFail"}
      /\ state' = state \/ state' = "controlled"
  BY DEF FinishAsking, ImmediateGranted, ImmediateRefused, ImmediateFail, At, arbiterVars
<1>3. PICK f : /\ call' = [call EXCEPT ![ctx] = f]
               /\ f.at \in {"none", "immediateCheck", "immediateFail"}
  BY FinishPlaces
<1>4. \A other \in Contexts : call'[other] = IF other = ctx THEN f ELSE call[other]
  BY <1>3, PlacesMove
<1>5. \A other \in Contexts : call[other].at \notin Off
  BY <1>1, <1>2 DEF OneAsks, Asking, ImmFrames, Off
<1>6. QED
  BY <1>2, <1>3, <1>4, <1>5 DEF AsyncInv, On

\* requested switches the device on, and releases.
LEMMA StartsOfA ==
    ASSUME IInv, AsyncInv, NEW ctx \in Contexts, A!Start(ctx) \/ A!Started(ctx)
    PROVE  AsyncInv'
<1> USE SameA DEF At, GoTo, Return
<1>1. CASE A!Start(ctx)
  <2>1. power' = "on"
    BY <1>1 DEF A!Start
  <2>2. QED
    BY <2>1 DEF AsyncInv
<1>2. CASE A!Started(ctx)
  <2>1. call[ctx].at \in On /\ UNCHANGED power
    BY <1>2 DEF A!Started, On
  <2>2. QED
    BY <2>1 DEF AsyncInv
<1>3. QED
  BY <1>1, <1>2

LEMMA ReleasesOfA ==
    ASSUME IInv, AsyncInv, NEW ctx \in Contexts, NEW c \in Clients, A!Release(ctx, c)
    PROVE  AsyncInv'
<1>1. \/ ReleaseToNext(ctx, c) /\ UNCHANGED power
      \/ ReleaseToDefault(ctx, c) /\ power' = "off"
  BY SameA DEF A!Release
<1>2. holds[c] /\ state = "busy" /\ UNCHANGED call
  BY <1>1 DEF ReleaseToNext, ReleaseToDefault
<1>3. \A other \in Contexts : call[other].at \notin Off \cup On
  BY <1>2, NobodyAsks DEF Asking, ImmFrames, Off, On
<1>4. QED
  BY <1>1, <1>2, <1>3 DEF AsyncInv, ReleaseToDefault

LEMMA GrantsOfA ==
    ASSUME IInv, AsyncInv, Grant, UNCHANGED power
    PROVE  AsyncInv'
<1>1. /\ Protocol /\ InUse
      /\ call["interrupt"] = NoCall /\ Place \in {"none", "configure", "granted"}
  BY DEF Grant, GrantedTask, Configure, Granted, InTask, At, Runs, IInv, Protocol, GrantingInv, GrantDue,
         Granting, InUse, Place, NoCall
<1>2. \A ctx \in Contexts : call[ctx].at \notin Off
  BY <1>1 DEF Off, Contexts, Place, NoCall
<1>3. state # "controlled"
  BY <1>1 DEF InUse, Protocol, GrantDueInv
<1>4. PICK f : /\ call' = [call EXCEPT !["main"] = f]
               /\ f.at \in {"none", "configure", "granted"}
  BY GrantPlaces
<1>5. \A other \in Contexts : call'[other] = IF other = "main" THEN f ELSE call[other]
  BY <1>4, PlacesMove DEF Contexts
<1>6. QED
  BY <1>2, <1>3, <1>4, <1>5 DEF AsyncInv, On

LEMMA KeptByA ==
    ASSUME IInv, AsyncInv, OnlyA, A!Next
    PROVE  AsyncInv'
<1> USE SameA
<1>1. ASSUME NEW ctx \in Contexts, A!Continue(ctx)
      PROVE  AsyncInv'
  BY <1>1, StartsOfA, FinishesOfA DEF A!Continue
<1>2. ASSUME RunNextTask, UNCHANGED power
      PROVE  AsyncInv'
  BY <1>2 DEF RunNextTask, arbiterVars, AsyncInv
<1>3. QED
  BY <1>1, <1>2, AsksOfA, ReleasesOfA, GrantsOfA
     DEF A!Next, A!TaskStep, A!StartNextTask, A!Contexts, Contexts, A!Clients, Clients

-----------------------------------------------------------------------------
(***************************************************************************)
(* Every manager's own invariant, in the builds that wire it.              *)
(***************************************************************************)
ManagerInv ==
    /\ Wired("PowerManagerP") /\ "start" \notin Failures => StartInv /\ StopInv
    /\ Wired("DeferredPowerManagerP") => DeferredInv
    /\ Wired("AsyncPowerManagerP") => AsyncInv

LEMMA InitManager == Init => ManagerInv
<1> SUFFICES ASSUME Init PROVE ManagerInv
  OBVIOUS
<1>1. /\ state = "controlled" /\ tasks = <<>> /\ running = NoTask /\ power = "off"
      /\ ~ stopping /\ ~ requested /\ ~ timer
      /\ \A ctx \in Contexts : call[ctx].at = "none"
  BY DEF Init, ManagedInit, SharedInit, NoCall
<1>2. /\ \A t \in Tasks : ~ Queued(t) /\ running # t
      /\ Place = "none" /\ ~ Requesting
  BY <1>1, TaskNames DEF Queued, Scheduler!IsQueued, Place, Requesting, Contexts
<1>3. /\ ~ GrantDue /\ ~ InUse
      /\ \A t \in OwnTasks : ~ Due(t) /\ ~ Twice(t)
      /\ TimerFirst
  BY <1>1, <1>2, TaskNames DEF GrantDue, InUse, Due, Twice, OwnTasks, TimerFirst
<1>4. {"startTask", "stopTask", "timerTask"} \subseteq OwnTasks
  BY DEF OwnTasks
<1>5. StartInv /\ StopInv /\ TimerInv /\ OnInv
  BY <1>1, <1>2, <1>3, <1>4 DEF StartInv, StopInv, TimerInv, OnInv
<1>6. QED
  BY <1>5, InitAsync DEF ManagerInv, DeferredInv

LEMMA NextKeepsManager ==
    ASSUME IInv, ManagerTypes, ManagerInv, [Next]_vars
    PROVE  ManagerInv'
<1>1. UNCHANGED build
  BY DEF Next, OnlyP, OnlyD, OnlyA, OnlyAD, vars, managedVars
<1>2. /\ \A m : Wired(m)' <=> Wired(m)
      /\ Failures' = Failures
  BY <1>1 DEF Wired, Failures
<1>3. CASE UNCHANGED vars
  <2>1. /\ UNCHANGED <<power, stopping, requested, stopTimer, timer, build>>
        /\ UNCHANGED sharedVars /\ UNCHANGED <<state, call>>
    BY <1>3 DEF vars, managedVars, sharedVars, arbiterVars
  <2>2. Quiet
    BY <2>1, StutterIsQuiet
  <2>3. AsyncInv => AsyncInv'
    BY <2>1 DEF AsyncInv
  <2>4. QED
    BY <1>2, <2>1, <2>2, <2>3, QuietKeepsStart, QuietKeepsStop, QuietKeepsDeferred DEF ManagerInv
<1>4. CASE OnlyP /\ P!Next
  BY <1>2, <1>4, KeptByP DEF ManagerInv, OnlyP, Wired
<1>5. CASE OnlyD /\ D!Next
  BY <1>2, <1>5, KeptByD DEF ManagerInv, OnlyD, Wired
<1>6. CASE OnlyA /\ A!Next
  BY <1>2, <1>6, KeptByA DEF ManagerInv, OnlyA, Wired
<1>7. CASE OnlyAD
  BY <1>2, <1>7 DEF ManagerInv, OnlyAD, Wired
<1>8. QED
  BY <1>3, <1>4, <1>5, <1>6, <1>7 DEF Next

LEMMA ManagersInvariant == Spec => [](IInv /\ ManagerTypes /\ ManagerInv)
<1>1. (IInv /\ ManagerTypes /\ ManagerInv) /\ [Next]_vars => (IInv /\ ManagerTypes /\ ManagerInv)'
  BY NextKeepsIInv, NextKeepsManagerTypes, NextKeepsManager
<1>2. QED
  BY <1>1, InitIInv, InitManagerTypes, InitManager, PTL DEF Spec

(***************************************************************************)
(* The device is on while a client has it, or it is configured for one,    *)
(* with any manager but the asynchronous deferred one, if it does not fail *)
(* to start.                                                               *)
(***************************************************************************)
THEOREM IsPoweredWhileHeld == Spec => []PoweredUnlessStartFails
<1>1. ASSUME IInv, ManagerTypes, ManagerInv
      PROVE  PoweredUnlessStartFails
  <2> SUFFICES ASSUME ~ Wired("AsyncDeferredPowerManagerP"), "start" \notin Failures,
                      (\E c \in Clients : holds[c]) \/ configured # NO_RES
               PROVE  power = "on"
    BY DEF PoweredUnlessStartFails, PoweredWhileHeld
  <2>1. state = "busy" /\ AskingInv
    BY <1>1 DEF IInv, Protocol, HolderOnRecord, ConfiguredInv
  <2>2. CASE Wired("PowerManagerP")
    BY <1>1, <2>1, <2>2 DEF ManagerInv, StopInv, InUse
  <2>3. CASE Wired("DeferredPowerManagerP")
    BY <1>1, <2>1, <2>3 DEF ManagerInv, DeferredInv, OnInv, InUse
  <2>4. CASE Wired("AsyncPowerManagerP")
    <3>1. power \in {"off", "on"}
      BY <1>1, <2>4 DEF ManagerTypes, OwnTypes
    <3>2. \A ctx \in Contexts : call[ctx].at \notin Off
      BY <2>1 DEF AskingInv, Off, ImmFrames
    <3>3. QED
      BY <1>1, <2>1, <2>4, <3>1, <3>2 DEF ManagerInv, AsyncInv
  <2>5. QED
    BY <1>1, <2>2, <2>3, <2>4, BuildsAssumption DEF ManagerTypes, Wired, Managers
<1>2. QED
  BY <1>1, ManagersInvariant, PTL

(***************************************************************************)
(* The timer of a deferred manager does not run behind a client's back.    *)
(***************************************************************************)
THEOREM TimerIsNeverBehindAHolder == Spec => []TimerOnlyWhenFree
<1>1. ASSUME IInv, ManagerInv
      PROVE  TimerOnlyWhenFree
  <2>1. ASSUME NEW c \in Clients, holds[c] PROVE InUse
    BY <1>1, <2>1 DEF IInv, Protocol, HolderOnRecord, InUse
  <2>2. QED
    BY <1>1, <2>1 DEF TimerOnlyWhenFree, ManagerInv, DeferredInv, TimerInv, Due, Queued
<1>2. QED
  BY <1>1, ManagersInvariant, PTL

(***************************************************************************)
(* A deferred manager does not start a device that it is powering down,    *)
(* and tells requests so.                                                  *)
(***************************************************************************)
THEOREM NeverStartsWhileStopping == Spec => []StartsNotWhileStopping
<1>1. ManagerInv => StartsNotWhileStopping
  BY DEF StartsNotWhileStopping, ManagerInv, DeferredInv, TimerInv, StartInv, Due, Queued
<1>2. QED
  BY <1>1, ManagersInvariant, PTL
=============================================================================
