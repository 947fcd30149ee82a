------------------------ MODULE FcfsArbiterC_proofs ------------------------
(***************************************************************************)
(* Proofs about ArbiterP with its default handlers, for every number of    *)
(* clients that fits in a byte and whichever contexts clients request      *)
(* from.  Unless a theorem says otherwise they hold for both policies, and *)
(* for clients that ask before they release as for those that do not.  At  *)
(* the end is the linked list that FcfsArbiterC runs in step.              *)
(***************************************************************************)
EXTENDS FcfsArbiterC, SequenceTheorems, WellFoundedInduction, TLAPS

LEMMA Owners ==
    /\ Clients \subseteq Nat
    /\ default_owner_id \notin Clients
    /\ NO_RES \notin Clients
    /\ NO_RES # default_owner_id
    /\ 0 \in Clients
  BY ClientIdsFitInAByte DEF Clients, default_owner_id, NO_RES

LEMMA SmallestNumber ==
    ASSUME NEW S, S \subseteq Nat, S # {}
    PROVE  \E m \in S : \A n \in S : m <= n
<1> DEFINE R == OpToRel(<, Nat)
<1>1. \E m \in S : \A n \in S : <<n, m>> \notin R
  <2>1. IsWellFoundedOn(R, Nat)
    BY NatLessThanWellFounded
  <2> HIDE DEF R
  <2>2. QED
    BY <2>1, WFMin
<1>2. \A m, n \in Nat : n < m => <<n, m>> \in R
  BY DEF OpToRel
<1>3. QED
  <2> HIDE DEF R
  <2>1. PICK m \in S : \A n \in S : <<n, m>> \notin R
    BY <1>1
  <2>2. \A n \in S : ~ (n < m)
    BY <2>1, <1>2
  <2>3. QED
    BY <2>2

\* The queue of the arbiter holds clients, and so does last.
QueueTypeOK == waiting \in Seq(Clients) /\ last \in Clients

LEMMA EnqueueType ==
    ASSUME QueueTypeOK, NEW c \in Clients, Enqueue(c) \/ UNCHANGED queueVars
    PROVE  QueueTypeOK'
  BY DEF QueueTypeOK, Enqueue, queueVars

\* The client to be served is one that waits.
LEMMA NextPlaceIsPlace ==
    ASSUME QueueTypeOK, waiting # <<>>
    PROVE  NextPlace \in 1..Len(waiting)
<1>1. Len(waiting) \in Nat /\ Len(waiting) > 0
  BY DEF QueueTypeOK
<1>2. CASE ~ RoundRobin
  BY <1>1, <1>2 DEF NextPlace
<1>3. CASE RoundRobin
  <2> DEFINE P == 1..Len(waiting)
             D(i) == Distance(waiting[i])
             Distances == {D(i) : i \in P}
  <2>1. \A i \in P : D(i) \in Nat
    BY Owners, ClientIdsFitInAByte DEF QueueTypeOK, Distance, Clients
  <2>2. Distances \subseteq Nat /\ Distances # {}
    BY <1>1, <2>1
  <2>3. PICK d \in Distances : \A e \in Distances : d <= e
    <3> HIDE DEF Distances
    <3>1. QED
      BY <2>2, SmallestNumber
  <2>4. QED
    BY <2>3, <1>3 DEF NextPlace
<1>4. QED
  BY <1>2, <1>3

LEMMA DequeueType ==
    ASSUME QueueTypeOK, Dequeue
    PROVE  QueueTypeOK' /\ NextUp \in Clients
<1>1. waiting # <<>>
  BY DEF Dequeue
<1>2. NextPlace \in 1..Len(waiting)
  BY <1>1, NextPlaceIsPlace
<1> DEFINE i == NextPlace
<1> HIDE DEF i
<1>3. NextUp \in Clients
  BY <1>2 DEF NextUp, QueueTypeOK
<1>4. SubSeq(waiting, 1, i - 1) \o SubSeq(waiting, i + 1, Len(waiting)) \in Seq(Clients)
  BY <1>2 DEF QueueTypeOK, i
<1>5. last' \in Clients
  BY <1>3 DEF Dequeue, QueueTypeOK
<1>6. QED
  BY <1>3, <1>4, <1>5 DEF Dequeue, QueueTypeOK, i

-----------------------------------------------------------------------------
\* The task queue: what a post and a start do to it.
TasksTypeOK == tasks \in Seq(Tasks) /\ running \in Tasks \cup {NoTask}

LEMMA PostedOnce ==
    ASSUME TasksTypeOK, NoTaskTwice, PostTask("grantedTask")
    PROVE  tasks' \in Seq(Tasks) /\ NoTaskTwice' /\ GrantQueued'
<1>1. CASE Scheduler!LineUp("grantedTask")
  BY <1>1, TasksAssumption
     DEF TasksTypeOK, NoTaskTwice, GrantQueued, Scheduler!LineUp, Scheduler!IsQueued
<1>2. CASE Scheduler!IsQueued("grantedTask") /\ UNCHANGED tasks
  BY <1>2 DEF TasksTypeOK, NoTaskTwice, GrantQueued, Scheduler!IsQueued
<1>3. QED
  BY <1>1, <1>2 DEF PostTask

LEMMA StartedOnce ==
    ASSUME TasksTypeOK, NoTaskTwice, Scheduler!Start
    PROVE  /\ TasksTypeOK' /\ NoTaskTwice'
           /\ GrantQueued' => GrantQueued
           /\ running' = "grantedTask" => GrantQueued /\ ~ GrantQueued'
<1> USE DEF TasksTypeOK, NoTaskTwice, GrantQueued, Scheduler!Start, Scheduler!IsQueued
<1>1. /\ tasks # <<>> /\ tasks \in Seq(Tasks)
      /\ running' = tasks[1]
      /\ tasks' = Tail(tasks)
  OBVIOUS
<1>2. /\ Len(tasks') = Len(tasks) - 1 /\ Len(tasks) \in Nat \ {0}
      /\ \A i \in 1..Len(tasks') : i + 1 \in 1..Len(tasks) /\ tasks'[i] = tasks[i + 1]
      /\ tasks' \in Seq(Tasks)
  BY <1>1
<1>3. TasksTypeOK' /\ NoTaskTwice'
  <2>1. ASSUME NEW i \in 1..Len(tasks'), NEW j \in 1..Len(tasks'), tasks'[i] = tasks'[j]
        PROVE  i = j
    BY <1>2, <2>1
  <2>2. running' \in Tasks
    BY <1>1, <1>2
  <2>3. QED
    BY <1>2, <2>1, <2>2
<1>4. GrantQueued' => GrantQueued
  BY <1>2
<1>5. running' = "grantedTask" => GrantQueued /\ ~ GrantQueued'
  <2>1. ASSUME tasks[1] = "grantedTask", NEW i \in 1..Len(tasks'), tasks'[i] = "grantedTask"
        PROVE  FALSE
    <3>1. i + 1 = 1
      BY <1>2, <2>1
    <3>2. QED
      BY <3>1, <1>2
  <2>2. QED
    BY <1>1, <1>2, <2>1
<1>6. QED
  BY <1>3, <1>4, <1>5

-----------------------------------------------------------------------------
\* The parts of TypeOK that no data structure is in.
FlatTypeOK ==
    /\ state \in States
    /\ resId \in Clients \cup {default_owner_id, NO_RES}
    /\ reqResId \in Clients
    /\ holds \in [Clients -> BOOLEAN]
    /\ pending \in [Clients -> BOOLEAN]
    /\ configured \in Clients \cup {NO_RES}
    /\ call \in [Contexts -> [at : Frames \cup {"none"}, id : Clients \cup {NO_RES}]]

\* What GrantInv says besides the types.
Protocol ==
    /\ IdleInv
    /\ NoTaskTwice
    /\ HolderOnRecord
    /\ OneDecides
    /\ DecidingInv
    /\ GrantDueInv
    /\ GrantingInv

\* GrantInv, sorted by what it is about.
IInv == QueueTypeOK /\ TasksTypeOK /\ FlatTypeOK /\ Protocol

LEMMA IInvIsGrantInv == IInv <=> GrantInv
  BY DEF IInv, Protocol, GrantInv, TypeOK, SharedTypeOK, QueueTypeOK, TasksTypeOK, FlatTypeOK

LEMMA InitIInv == Init => IInv
<1> SUFFICES ASSUME Init PROVE IInv
  OBVIOUS
<1> USE DEF Init, SharedInit, QueueInit
<1>1. QueueTypeOK /\ TasksTypeOK /\ FlatTypeOK
  BY Owners DEF QueueTypeOK, TasksTypeOK, FlatTypeOK, States, Contexts, NoCall, Frames
<1>2. ~ GrantDue
  BY TasksAssumption DEF GrantDue, GrantQueued, Scheduler!IsQueued
<1>3. Protocol
  BY <1>2 DEF Protocol, IdleInv, NoTaskTwice, HolderOnRecord, OneDecides, DecidingInv,
              GrantDueInv, GrantDue, GrantingInv, Granting, Deciding, Contexts, NoCall
<1>4. QED
  BY <1>1, <1>3 DEF IInv

\* The places a call is at, before and after the context ctx moves on.
LEMMA FrameMoves ==
    ASSUME FlatTypeOK, NEW ctx \in Contexts, NEW f \in [at : Frames \cup {"none"}, id : Clients \cup {NO_RES}],
           call' = [call EXCEPT ![ctx] = f]
    PROVE  /\ call'[ctx] = f
           /\ \A other \in Contexts : other # ctx => call'[other] = call[other]
           /\ call' \in [Contexts -> [at : Frames \cup {"none"}, id : Clients \cup {NO_RES}]]
  BY DEF FlatTypeOK

\* While the arbiter is idle or in use nobody decides.
LEMMA NobodyDecides ==
    ASSUME IInv, NEW c \in Clients, state = "controlled" \/ holds[c]
    PROVE  /\ \A ctx \in Contexts : call[ctx].at \notin Deciding
           /\ ~ GrantDue
           /\ ~ Granting
  BY DEF IInv, Protocol, DecidingInv, GrantDueInv, GrantingInv, HolderOnRecord, Deciding

LEMMA RequestKeepsIInv ==
    ASSUME IInv, NEW ctx \in Contexts, NEW c \in Clients, Request(ctx, c)
    PROVE  IInv'
<1> USE Owners
<1>1. QueueTypeOK /\ TasksTypeOK /\ FlatTypeOK /\ Protocol
  BY DEF IInv
<1>2. TasksTypeOK' /\ NoTaskTwice' /\ (GrantQueued' <=> GrantQueued)
  BY <1>1 DEF Request, RequestControlled, RequestAgain, RequestBusy, taskVars, TasksTypeOK,
              Protocol, NoTaskTwice, GrantQueued, Scheduler!IsQueued
<1>3. QueueTypeOK'
  BY <1>1, EnqueueType DEF Request, RequestControlled, RequestAgain, RequestBusy, queueVars,
              QueueTypeOK
<1>4. FlatTypeOK' /\ Protocol'
  <2>1. CASE RequestControlled(ctx, c)
    <3>1. FlatTypeOK'
      BY <1>1, <2>1 DEF FlatTypeOK, RequestControlled, Frame, Frames, States, clientVars
    <3>2. IdleInv' /\ HolderOnRecord' /\ GrantDueInv' /\ GrantingInv'
      BY <1>1, <1>2, <2>1 DEF RequestControlled, Protocol, IdleInv, HolderOnRecord, GrantDueInv, GrantDue,
            GrantingInv, Granting, taskVars, FlatTypeOK, Frame, Contexts, MayRequest, Asks, CanCall
    <3>3. OneDecides' /\ DecidingInv'
      <4>1. /\ \A other \in Contexts : call[other].at \notin Deciding
            /\ ~ GrantDue /\ ~ Granting
        BY <2>1, NobodyDecides DEF RequestControlled
      <4>2. /\ call'[ctx] = Frame("requested", c)
            /\ \A other \in Contexts : other # ctx => call'[other] = call[other]
        BY <1>1, <2>1, FrameMoves DEF RequestControlled, Frame, Frames
      <4>3. ~ GrantDue'
        BY <1>2, <2>1, <4>1, <4>2 DEF RequestControlled, GrantDue, Granting, taskVars, Contexts, Frame
      <4>4. resId = default_owner_id
        BY <1>1, <2>1 DEF RequestControlled, Protocol, IdleInv
      <4>5. QED
        BY <1>1, <2>1, <4>1, <4>2, <4>3, <4>4 DEF RequestControlled, OneDecides, DecidingInv,
           Protocol, Deciding, Frame
    <3>4. QED
      BY <3>1, <3>2, <3>3, <1>2 DEF Protocol
  <2>2. CASE RequestAgain(ctx, c) \/ RequestBusy(ctx, c)
    <3>1. FlatTypeOK'
      BY <1>1, <2>2 DEF FlatTypeOK, RequestAgain, RequestBusy, arbiterVars, clientVars
    <3>2. /\ IdleInv' /\ HolderOnRecord' /\ OneDecides' /\ DecidingInv'
          /\ GrantDueInv' /\ GrantingInv'
      BY <1>1, <1>2, <2>2 DEF RequestAgain, RequestBusy, arbiterVars, taskVars, Protocol, IdleInv,
            HolderOnRecord, OneDecides, DecidingInv, GrantDueInv, GrantDue, GrantingInv, Granting
    <3>3. QED
      BY <3>1, <3>2, <1>2 DEF Protocol
  <2>3. QED
    BY <2>1, <2>2 DEF Request
<1>5. QED
  BY <1>2, <1>3, <1>4 DEF IInv

LEMMA ImmediateRequestKeepsIInv ==
    ASSUME IInv, NEW ctx \in Contexts, NEW c \in Clients, ImmediateRequest(ctx, c)
    PROVE  IInv'
<1> USE Owners DEF ImmediateRequest
<1>1. QueueTypeOK /\ TasksTypeOK /\ FlatTypeOK /\ Protocol
  BY DEF IInv
<1>2. /\ QueueTypeOK' /\ TasksTypeOK' /\ NoTaskTwice'
      /\ GrantQueued' <=> GrantQueued
  BY <1>1 DEF queueVars, taskVars, QueueTypeOK, TasksTypeOK, Protocol, NoTaskTwice,
              GrantQueued, Scheduler!IsQueued
<1>3. /\ \A other \in Contexts : call[other].at \notin Deciding
      /\ ~ GrantDue /\ ~ Granting
  BY NobodyDecides
<1>4. /\ call'[ctx] = Frame("immediateRequested", c)
      /\ \A other \in Contexts : other # ctx => call'[other] = call[other]
  BY <1>1, FrameMoves DEF Frame, Frames
<1>5. FlatTypeOK'
  BY <1>1 DEF FlatTypeOK, Frame, Frames, States, clientVars
<1>6. ~ GrantDue' /\ ~ Granting'
  BY <1>2, <1>3, <1>4 DEF GrantDue, Granting, taskVars, Contexts, Frame
<1>7. IdleInv' /\ HolderOnRecord' /\ GrantDueInv' /\ GrantingInv'
  <2>1. \A d \in Clients : ~ holds[d]
    BY <1>1 DEF Protocol, HolderOnRecord
  <2>2. ~ (GrantQueued' /\ running' = "grantedTask")
    BY <1>1, <1>2 DEF Protocol, GrantDueInv, taskVars
  <2>3. QED
    BY <1>6, <2>1, <2>2 DEF IdleInv, HolderOnRecord, GrantDueInv, GrantingInv, clientVars
<1>8. OneDecides' /\ DecidingInv'
  <2>1. resId = default_owner_id
    BY <1>1 DEF Protocol, IdleInv
  <2>2. QED
    BY <1>1, <1>3, <1>4, <1>6, <2>1 DEF Protocol, OneDecides, DecidingInv, Deciding, Frame
<1>9. QED
  BY <1>2, <1>5, <1>7, <1>8 DEF IInv, Protocol

\* Among the places where a context decides, ctx is at this one, and the other is not.
LEMMA OnlyOneDecides ==
    ASSUME IInv, NEW ctx \in Contexts, call[ctx].at \in Deciding
    PROVE  \A other \in Contexts : other # ctx => call[other].at \notin Deciding
  BY DEF IInv, Protocol, OneDecides

LEMMA DefaultRequestedKeepsIInv ==
    ASSUME IInv, NEW ctx \in Contexts, DefaultRequested(ctx)
    PROVE  IInv'
<1> USE Owners
<1>1. QueueTypeOK /\ TasksTypeOK /\ FlatTypeOK /\ Protocol
  BY DEF IInv
<1>2. call[ctx].at = "requested" /\ call[ctx].at \in Deciding
  BY DEF DefaultRequested, At, Deciding
<1>3. /\ state = "granting" /\ resId = default_owner_id
      /\ ~ GrantDue
  BY <1>1, <1>2 DEF Protocol, DecidingInv
<1>4. /\ PostTask("grantedTask")
      /\ UNCHANGED <<queueVars, arbiterVars, running, clientVars>>
      /\ call' = [call EXCEPT ![ctx] = NoCall]
  BY <1>3 DEF DefaultRequested, DefaultOwnerRelease, DefaultOwnerReleases, CannotRelease, Return
<1>5. tasks' \in Seq(Tasks) /\ NoTaskTwice' /\ GrantQueued'
  BY <1>1, <1>4, PostedOnce DEF Protocol
<1>6. /\ call'[ctx] = NoCall
      /\ \A other \in Contexts : other # ctx => call'[other] = call[other]
      /\ call' \in [Contexts -> [at : Frames \cup {"none"}, id : Clients \cup {NO_RES}]]
  BY <1>1, <1>4, FrameMoves DEF NoCall
<1>7. QueueTypeOK' /\ TasksTypeOK' /\ FlatTypeOK'
  BY <1>1, <1>4, <1>5, <1>6 DEF QueueTypeOK, TasksTypeOK, FlatTypeOK, queueVars, arbiterVars, clientVars
<1>8. ~ Granting /\ ~ Granting' /\ running # "grantedTask"
  <2>1. ~ Granting
    BY <1>1, <1>3 DEF Protocol, GrantingInv
  <2>2. QED
    BY <1>3, <1>6, <2>1 DEF Granting, GrantDue, NoCall, Contexts
<1>9. IdleInv' /\ HolderOnRecord' /\ GrantDueInv' /\ GrantingInv'
  BY <1>1, <1>3, <1>4, <1>5, <1>8 DEF Protocol, IdleInv, HolderOnRecord, GrantDueInv, GrantingInv,
        arbiterVars, clientVars
<1>10. OneDecides' /\ DecidingInv'
  BY <1>1, <1>2, <1>4, <1>6, OnlyOneDecides DEF Protocol, OneDecides, DecidingInv, Deciding, NoCall
<1>11. QED
  BY <1>5, <1>7, <1>9, <1>10 DEF IInv, Protocol

LEMMA DefaultImmediateRequestedKeepsIInv ==
    ASSUME IInv, NEW ctx \in Contexts, DefaultImmediateRequested(ctx)
    PROVE  IInv'
<1> USE Owners
<1>1. QueueTypeOK /\ TasksTypeOK /\ FlatTypeOK /\ Protocol
  BY DEF IInv
<1>2. call[ctx].at = "immediateRequested" /\ call[ctx].at \in Deciding
  BY DEF DefaultImmediateRequested, At, Deciding
<1>3. /\ state = "immGranting" /\ resId = default_owner_id
      /\ reqResId = call[ctx].id
      /\ ~ GrantDue
  BY <1>1, <1>2 DEF Protocol, DecidingInv
<1>4. /\ resId' = reqResId /\ state' = "busy"
      /\ UNCHANGED <<queueVars, reqResId, taskVars, clientVars>>
      /\ call' = [call EXCEPT ![ctx] = Frame("immediateCheck", call[ctx].id)]
  BY <1>1, <1>3 DEF DefaultImmediateRequested, DefaultOwnerRelease, DefaultOwnerReleases,
        CannotRelease, GoTo, taskVars, FlatTypeOK
<1>5. /\ call'[ctx] = Frame("immediateCheck", call[ctx].id)
      /\ \A other \in Contexts : other # ctx => call'[other] = call[other]
      /\ call' \in [Contexts -> [at : Frames \cup {"none"}, id : Clients \cup {NO_RES}]]
  BY <1>1, <1>4, FrameMoves DEF FlatTypeOK, Frame, Frames
<1>6. /\ QueueTypeOK' /\ TasksTypeOK' /\ NoTaskTwice'
      /\ GrantQueued' <=> GrantQueued
  BY <1>1, <1>4 DEF queueVars, taskVars, QueueTypeOK, TasksTypeOK, Protocol, NoTaskTwice,
              GrantQueued, Scheduler!IsQueued
<1>7. FlatTypeOK'
  BY <1>1, <1>4, <1>5 DEF FlatTypeOK, clientVars, States
<1>8. ~ GrantDue' /\ ~ Granting'
  <2>1. ~ Granting
    BY <1>1, <1>3 DEF Protocol, GrantingInv
  <2>2. QED
    BY <1>3, <1>4, <1>5, <1>6, <2>1 DEF Granting, GrantDue, Frame, Contexts, taskVars
<1>9. \A c \in Clients : ~ holds'[c]
  BY <1>1, <1>3, <1>4 DEF Protocol, HolderOnRecord, clientVars
<1>10. IdleInv' /\ HolderOnRecord' /\ GrantDueInv' /\ GrantingInv'
  <2>1. ~ (GrantQueued' /\ running' = "grantedTask")
    BY <1>1, <1>4, <1>6 DEF Protocol, GrantDueInv, taskVars
  <2>2. QED
    BY <1>4, <1>8, <1>9, <2>1 DEF IdleInv, HolderOnRecord, GrantDueInv, GrantingInv
<1>11. OneDecides' /\ DecidingInv'
  BY <1>1, <1>2, <1>3, <1>4, <1>5, <1>8, <1>9, OnlyOneDecides
     DEF Protocol, OneDecides, DecidingInv, Deciding, Frame
<1>12. QED
  BY <1>6, <1>7, <1>10, <1>11 DEF IInv, Protocol

\* The default handler always releases, so an immediate request never fails late.
LEMMA FinishAskingKeepsIInv ==
    ASSUME IInv, NEW ctx \in Contexts, FinishAsking(ctx)
    PROVE  IInv'
<1> USE Owners
<1>1. QueueTypeOK /\ TasksTypeOK /\ FlatTypeOK /\ Protocol
  BY DEF IInv
<1>2. ImmediateGranted(ctx)
  BY <1>1 DEF FinishAsking, ImmediateRefused, ImmediateFail, At, Protocol, DecidingInv
<1> DEFINE c == call[ctx].id
<1>3. /\ call[ctx].at = "immediateCheck" /\ call[ctx].at \in Deciding
      /\ c \in Clients /\ resId = c /\ state = "busy"
      /\ ~ Granting /\ ~ GrantDue
      /\ \A d \in Clients : ~ holds[d]
  BY <1>1, <1>2 DEF ImmediateGranted, At, Deciding, Protocol, DecidingInv, FlatTypeOK
<1>4. /\ configured' = c /\ holds' = [holds EXCEPT ![c] = TRUE]
      /\ call' = [call EXCEPT ![ctx] = NoCall]
      /\ UNCHANGED <<queueVars, arbiterVars, taskVars, pending>>
  BY <1>2 DEF ImmediateGranted, Return
<1> HIDE DEF c
<1>5. /\ call'[ctx] = NoCall
      /\ \A other \in Contexts : other # ctx => call'[other] = call[other]
      /\ call' \in [Contexts -> [at : Frames \cup {"none"}, id : Clients \cup {NO_RES}]]
  BY <1>1, <1>4, FrameMoves DEF NoCall
<1>6. /\ QueueTypeOK' /\ TasksTypeOK' /\ NoTaskTwice'
      /\ GrantQueued' <=> GrantQueued
  BY <1>1, <1>4 DEF queueVars, taskVars, QueueTypeOK, TasksTypeOK, Protocol, NoTaskTwice,
              GrantQueued, Scheduler!IsQueued
<1>7. FlatTypeOK'
  BY <1>1, <1>3, <1>4, <1>5 DEF FlatTypeOK, arbiterVars
<1>8. ~ GrantDue' /\ ~ Granting'
  BY <1>3, <1>4, <1>5, <1>6 DEF Granting, GrantDue, NoCall, Contexts, taskVars
<1>9. HolderOnRecord'
  BY <1>1, <1>3, <1>4 DEF HolderOnRecord, arbiterVars, FlatTypeOK
<1>10. IdleInv' /\ GrantDueInv' /\ GrantingInv'
  BY <1>1, <1>3, <1>4, <1>6, <1>8 DEF Protocol, IdleInv, GrantDueInv, GrantingInv, arbiterVars,
        taskVars, GrantDue
<1>11. OneDecides' /\ DecidingInv'
  BY <1>1, <1>3, <1>5, OnlyOneDecides DEF Protocol, OneDecides, DecidingInv, Deciding, NoCall
<1>12. QED
  BY <1>6, <1>7, <1>9, <1>10, <1>11 DEF IInv, Protocol

LEMMA ReleaseKeepsIInv ==
    ASSUME IInv, NEW ctx \in Contexts, NEW c \in Clients, Release(ctx, c)
    PROVE  IInv'
<1> USE Owners
<1>1. QueueTypeOK /\ TasksTypeOK /\ FlatTypeOK /\ Protocol
  BY DEF IInv
<1>2. /\ holds[c] /\ state = "busy" /\ resId = c
      /\ configured' = NO_RES /\ holds' = [holds EXCEPT ![c] = FALSE]
      /\ UNCHANGED <<running, call, pending>>
  BY DEF Release, ReleaseToNext, ReleaseToDefault
<1>3. /\ \A other \in Contexts : call[other].at \notin Deciding
      /\ ~ GrantDue /\ ~ Granting
  BY <1>2, NobodyDecides
<1>4. \A d \in Clients : ~ holds'[d]
  BY <1>1, <1>2 DEF Protocol, HolderOnRecord, FlatTypeOK
<1>5. OneDecides' /\ DecidingInv'
  BY <1>1, <1>2, <1>3 DEF Protocol, OneDecides, DecidingInv, Deciding
<1>6. ~ Granting' /\ running # "grantedTask"
  BY <1>2, <1>3 DEF Granting, GrantDue
<1>7. HolderOnRecord' /\ GrantingInv'
  BY <1>4, <1>6 DEF HolderOnRecord, GrantingInv
<1>8. CASE ReleaseToNext(ctx, c)
  <2>1. Dequeue /\ reqResId' = NextUp /\ resId' = NO_RES /\ state' = "granting"
        /\ PostTask("grantedTask")
    BY <1>8 DEF ReleaseToNext
  <2>2. QueueTypeOK' /\ reqResId' \in Clients
    BY <1>1, <2>1, DequeueType
  <2>3. tasks' \in Seq(Tasks) /\ NoTaskTwice' /\ GrantQueued'
    BY <1>1, <2>1, PostedOnce DEF Protocol
  <2>4. TasksTypeOK' /\ FlatTypeOK'
    BY <1>1, <1>2, <2>1, <2>2, <2>3 DEF TasksTypeOK, FlatTypeOK, States
  <2>5. IdleInv' /\ GrantDueInv'
    BY <1>2, <1>6, <2>1 DEF IdleInv, GrantDueInv
  <2>6. QED
    BY <1>5, <1>7, <2>2, <2>3, <2>4, <2>5 DEF IInv, Protocol
<1>9. CASE ReleaseToDefault(ctx, c) /\ UNCHANGED tasks
  <2>1. /\ resId' = default_owner_id /\ state' = "controlled"
        /\ UNCHANGED <<queueVars, reqResId, tasks>>
    BY <1>9 DEF ReleaseToDefault
  <2>2. /\ QueueTypeOK' /\ TasksTypeOK' /\ NoTaskTwice'
        /\ GrantQueued' <=> GrantQueued
    BY <1>1, <1>2, <2>1 DEF queueVars, QueueTypeOK, TasksTypeOK, Protocol, NoTaskTwice,
              GrantQueued, Scheduler!IsQueued
  <2>3. FlatTypeOK'
    BY <1>1, <1>2, <2>1 DEF FlatTypeOK, States
  <2>4. IdleInv' /\ GrantDueInv'
    BY <1>2, <1>3, <1>6, <2>1, <2>2 DEF IdleInv, GrantDueInv, GrantDue
  <2>5. QED
    BY <1>5, <1>7, <2>2, <2>3, <2>4 DEF IInv, Protocol
<1>10. QED
  BY <1>8, <1>9 DEF Release

LEMMA RunNextTaskKeepsIInv ==
    ASSUME IInv, RunNextTask
    PROVE  IInv'
<1>1. QueueTypeOK /\ TasksTypeOK /\ FlatTypeOK /\ Protocol
  BY DEF IInv
<1>2. /\ Scheduler!Start
      /\ call["main"] = NoCall
      /\ UNCHANGED <<queueVars, arbiterVars, call, clientVars>>
  BY DEF RunNextTask, CanCall
<1>3. /\ TasksTypeOK' /\ NoTaskTwice'
      /\ GrantQueued' => GrantQueued
      /\ running' = "grantedTask" => GrantQueued /\ ~ GrantQueued'
  BY <1>1, <1>2, StartedOnce DEF Protocol
<1>4. /\ QueueTypeOK' /\ FlatTypeOK'
      /\ IdleInv' /\ HolderOnRecord' /\ OneDecides'
  BY <1>1, <1>2 DEF QueueTypeOK, FlatTypeOK, Protocol, IdleInv, HolderOnRecord, OneDecides,
        queueVars, arbiterVars, clientVars
<1>5. GrantDue' => GrantDue
  BY <1>3 DEF GrantDue
<1>6. ~ Granting /\ ~ Granting'
  BY <1>2 DEF Granting, NoCall
<1>7. GrantDueInv' /\ GrantingInv' /\ DecidingInv'
  BY <1>1, <1>2, <1>3, <1>5, <1>6
     DEF Protocol, GrantDueInv, GrantingInv, DecidingInv, arbiterVars, clientVars
<1>8. QED
  BY <1>3, <1>4, <1>7 DEF IInv, Protocol

LEMMA GrantKeepsIInv ==
    ASSUME IInv, Grant
    PROVE  IInv'
<1> USE Owners
<1>1. QueueTypeOK /\ TasksTypeOK /\ FlatTypeOK /\ Protocol
  BY DEF IInv
<1>2. CASE GrantedTask
  <2>1. /\ running = "grantedTask" /\ call["main"] = NoCall
        /\ resId' = reqResId /\ state' = "busy"
        /\ call' = [call EXCEPT !["main"] = Frame("configure", NO_RES)]
        /\ UNCHANGED <<queueVars, reqResId, taskVars, clientVars>>
    BY <1>2 DEF GrantedTask, InTask
  <2>2. GrantDue /\ state = "granting" /\ ~ GrantQueued
    BY <1>1, <2>1 DEF GrantDue, Granting, NoCall, Protocol, GrantDueInv
  <2>3. /\ \A ctx \in Contexts : call[ctx].at \notin Deciding
        /\ \A c \in Clients : ~ holds[c]
    BY <1>1, <2>2 DEF Protocol, DecidingInv, HolderOnRecord
  <2>4. /\ call'["main"] = Frame("configure", NO_RES)
        /\ \A other \in Contexts : other # "main" => call'[other] = call[other]
        /\ call' \in [Contexts -> [at : Frames \cup {"none"}, id : Clients \cup {NO_RES}]]
    BY <1>1, <2>1, FrameMoves DEF Contexts, Frame, Frames
  <2>5. /\ QueueTypeOK' /\ TasksTypeOK' /\ NoTaskTwice'
        /\ GrantQueued' <=> GrantQueued
    BY <1>1, <2>1 DEF queueVars, taskVars, QueueTypeOK, TasksTypeOK, Protocol, NoTaskTwice,
                GrantQueued, Scheduler!IsQueued
  <2>6. FlatTypeOK'
    BY <1>1, <2>1, <2>4 DEF FlatTypeOK, States, clientVars
  <2>7. Granting' /\ ~ GrantDue'
    BY <2>2, <2>4, <2>5 DEF Granting, GrantDue, Frame
  <2>8. IdleInv' /\ HolderOnRecord' /\ GrantDueInv' /\ GrantingInv'
    BY <1>1, <2>1, <2>2, <2>3, <2>4, <2>5, <2>7 DEF IdleInv, HolderOnRecord, GrantDueInv, GrantingInv,
          clientVars, taskVars, Frame, FlatTypeOK
  <2>9. OneDecides' /\ DecidingInv'
    BY <1>1, <2>3, <2>4 DEF Protocol, OneDecides, DecidingInv, Deciding, Frame
  <2>10. QED
    BY <2>5, <2>6, <2>8, <2>9 DEF IInv, Protocol
<1>3. CASE Configure
  <2>1. /\ call["main"].at = "configure"
        /\ configured' = resId
        /\ call' = [call EXCEPT !["main"] = Frame("granted", call["main"].id)]
        /\ UNCHANGED <<queueVars, arbiterVars, taskVars, holds, pending>>
    BY <1>1, <1>3 DEF Configure, At, GoTo, FlatTypeOK, Contexts
  <2>2. Granting
    BY <2>1 DEF Granting
  <2>3. /\ running = "grantedTask" /\ state = "busy" /\ resId \in Clients
        /\ \A c \in Clients : ~ holds[c]
        /\ \A ctx \in Contexts : call[ctx].at \notin Deciding
        /\ ~ GrantDue
    BY <1>1, <2>2 DEF Protocol, GrantingInv, DecidingInv, Deciding, GrantDueInv
  <2>4. /\ call'["main"] = Frame("granted", call["main"].id)
        /\ \A other \in Contexts : other # "main" => call'[other] = call[other]
        /\ call' \in [Contexts -> [at : Frames \cup {"none"}, id : Clients \cup {NO_RES}]]
    BY <1>1, <2>1, FrameMoves DEF Contexts, Frame, Frames, FlatTypeOK
  <2>5. /\ QueueTypeOK' /\ TasksTypeOK' /\ NoTaskTwice'
        /\ GrantQueued' <=> GrantQueued
    BY <1>1, <2>1 DEF queueVars, taskVars, QueueTypeOK, TasksTypeOK, Protocol, NoTaskTwice,
                GrantQueued, Scheduler!IsQueued
  <2>6. FlatTypeOK'
    BY <1>1, <2>1, <2>3, <2>4 DEF FlatTypeOK, arbiterVars
  <2>7. Granting' /\ ~ GrantDue'
    BY <2>3, <2>4, <2>5 DEF Granting, GrantDue, Frame
  <2>8. IdleInv' /\ HolderOnRecord' /\ GrantDueInv' /\ GrantingInv'
    BY <1>1, <2>1, <2>3, <2>4, <2>5, <2>7 DEF IdleInv, HolderOnRecord, GrantDueInv, GrantDue, GrantingInv,
          arbiterVars, taskVars, Frame
  <2>9. OneDecides' /\ DecidingInv'
    BY <1>1, <2>3, <2>4 DEF Protocol, OneDecides, DecidingInv, Deciding, Frame
  <2>10. QED
    BY <2>5, <2>6, <2>8, <2>9 DEF IInv, Protocol
<1>4. CASE Granted
  <2>1. /\ call["main"].at = "granted"
        /\ holds' = [holds EXCEPT ![resId] = TRUE]
        /\ pending' = [pending EXCEPT ![resId] = FALSE]
        /\ call' = [call EXCEPT !["main"] = NoCall]
        /\ running' = NoTask /\ UNCHANGED tasks
        /\ UNCHANGED <<queueVars, arbiterVars, configured>>
    BY <1>4 DEF Granted, At, Return, Scheduler!Finish
  <2>2. Granting
    BY <2>1 DEF Granting
  <2>3. /\ running = "grantedTask" /\ state = "busy" /\ resId \in Clients
        /\ configured = resId
        /\ \A c \in Clients : ~ holds[c]
        /\ \A ctx \in Contexts : call[ctx].at \notin Deciding
        /\ ~ GrantDue
    BY <1>1, <2>1, <2>2 DEF Protocol, GrantingInv, DecidingInv, Deciding, GrantDueInv
  <2>4. /\ call'["main"] = NoCall
        /\ \A other \in Contexts : other # "main" => call'[other] = call[other]
        /\ call' \in [Contexts -> [at : Frames \cup {"none"}, id : Clients \cup {NO_RES}]]
    BY <1>1, <2>1, FrameMoves DEF Contexts, NoCall
  <2>5. /\ QueueTypeOK' /\ TasksTypeOK' /\ NoTaskTwice'
        /\ GrantQueued' <=> GrantQueued
    BY <1>1, <2>1 DEF queueVars, QueueTypeOK, TasksTypeOK, Protocol, NoTaskTwice,
                GrantQueued, Scheduler!IsQueued
  <2>6. FlatTypeOK'
    BY <1>1, <2>1, <2>4 DEF FlatTypeOK, arbiterVars
  <2>7. ~ Granting' /\ ~ GrantDue'
    BY <2>1, <2>3, <2>4, <2>5, TasksAssumption DEF Granting, GrantDue, NoCall
  <2>8. HolderOnRecord'
    BY <1>1, <2>1, <2>3 DEF HolderOnRecord, arbiterVars, FlatTypeOK
  <2>9. IdleInv' /\ GrantDueInv' /\ GrantingInv'
    BY <2>1, <2>3, <2>5, <2>7 DEF IdleInv, GrantDueInv, GrantDue, GrantingInv, arbiterVars
  <2>10. OneDecides' /\ DecidingInv'
    BY <1>1, <2>3, <2>4 DEF Protocol, OneDecides, DecidingInv, Deciding, NoCall
  <2>11. QED
    BY <2>5, <2>6, <2>8, <2>9, <2>10 DEF IInv, Protocol
<1>5. QED
  BY <1>2, <1>3, <1>4 DEF Grant

-----------------------------------------------------------------------------
LEMMA StutterKeepsIInv ==
    ASSUME IInv, UNCHANGED vars
    PROVE  IInv'
  BY DEF IInv, QueueTypeOK, TasksTypeOK, FlatTypeOK, Protocol, IdleInv, NoTaskTwice, HolderOnRecord,
         OneDecides, DecidingInv, GrantDueInv, GrantingInv, GrantDue, GrantQueued, Granting,
         Scheduler!IsQueued, vars, sharedVars, queueVars, arbiterVars, taskVars, clientVars

(***************************************************************************)
(* GrantInv holds in every reachable state: at any time a grant is decided *)
(* in one place only.                                                      *)
(***************************************************************************)
THEOREM GrantInvInvariant == Spec => []GrantInv
<1>1. IInv /\ [Next]_vars => IInv'
  <2> SUFFICES ASSUME IInv, [Next]_vars PROVE IInv'
    OBVIOUS
  <2>1. ASSUME NEW ctx \in Contexts, Ask(ctx)
        PROVE  IInv'
    BY <2>1, RequestKeepsIInv, ImmediateRequestKeepsIInv DEF Ask
  <2>2. ASSUME NEW ctx \in Contexts, Continue(ctx)
        PROVE  IInv'
    BY <2>2, DefaultRequestedKeepsIInv, DefaultImmediateRequestedKeepsIInv,
       FinishAskingKeepsIInv DEF Continue
  <2>3. ASSUME NEW ctx \in Contexts, NEW c \in Clients, Release(ctx, c)
        PROVE  IInv'
    BY <2>3, ReleaseKeepsIInv
  <2>4. CASE RunNextTask
    BY <2>4, RunNextTaskKeepsIInv
  <2>5. CASE Grant
    BY <2>5, GrantKeepsIInv
  <2>6. CASE UNCHANGED vars
    BY <2>6, StutterKeepsIInv
  <2>7. QED
    BY <2>1, <2>2, <2>3, <2>4, <2>5, <2>6 DEF Next
<1>2. QED
  BY <1>1, InitIInv, IInvIsGrantInv, PTL DEF Spec

(***************************************************************************)
(* Every variable keeps its type.                                          *)
(***************************************************************************)
THEOREM TypeCorrect == Spec => []TypeOK
<1>1. GrantInv => TypeOK
  BY DEF GrantInv
<1>2. QED
  BY <1>1, GrantInvInvariant, PTL

(***************************************************************************)
(* The arbiter has on record the client that was given the resource, and   *)
(* it is configured for that client.                                       *)
(***************************************************************************)
THEOREM HolderStaysOnRecord == Spec => []HolderOnRecord
<1>1. GrantInv => HolderOnRecord
  BY DEF GrantInv
<1>2. QED
  BY <1>1, GrantInvInvariant, PTL

(***************************************************************************)
(* Mutual exclusion: the resource is given to one client at a time.        *)
(***************************************************************************)
THEOREM MutualExclusion == Spec => []OneHolder
<1>1. HolderOnRecord => OneHolder
  BY DEF HolderOnRecord, OneHolder
<1>2. QED
  BY <1>1, HolderStaysOnRecord, PTL

-----------------------------------------------------------------------------
(* The queue holds nobody twice. *)

WaitOnce == \A i, j \in 1..Len(waiting) : waiting[i] = waiting[j] => i = j

LEMMA EnqueueAdds ==
    ASSUME QueueTypeOK, WaitOnce, NEW c \in Clients, Enqueue(c)
    PROVE  WaitOnce' /\ \A d \in Clients : IsEnqueued(d)' <=> IsEnqueued(d) \/ d = c
<1>1. /\ waiting' = Append(waiting, c) /\ \A i \in 1..Len(waiting) : waiting[i] # c
      /\ Len(waiting) \in Nat
  BY DEF Enqueue, IsEnqueued, QueueTypeOK
<1>2. /\ Len(waiting') = Len(waiting) + 1
      /\ \A i \in 1..Len(waiting) : waiting'[i] = waiting[i]
      /\ waiting'[Len(waiting) + 1] = c
  BY <1>1 DEF QueueTypeOK
<1>3. QED
  BY <1>1, <1>2 DEF WaitOnce, IsEnqueued

LEMMA DequeueRemoves ==
    ASSUME QueueTypeOK, WaitOnce, Dequeue
    PROVE  /\ WaitOnce' /\ IsEnqueued(NextUp)
           /\ \A d \in Clients : IsEnqueued(d)' <=> IsEnqueued(d) /\ d # NextUp
<1> DEFINE n == NextPlace
           front == SubSeq(waiting, 1, n - 1)
           back == SubSeq(waiting, n + 1, Len(waiting))
<1>1. n \in 1..Len(waiting) /\ Len(waiting) \in Nat /\ waiting' = front \o back
  BY NextPlaceIsPlace DEF Dequeue, QueueTypeOK
<1> HIDE DEF n
<1>2. /\ front \in Seq(Clients) /\ Len(front) = n - 1
      /\ \A i \in 1..(n - 1) : front[i] = waiting[i]
  BY <1>1 DEF QueueTypeOK
<1>3. /\ back \in Seq(Clients) /\ Len(back) = Len(waiting) - n
      /\ \A i \in 1..(Len(waiting) - n) : back[i] = waiting[n + i]
  BY <1>1 DEF QueueTypeOK
<1> HIDE DEF front, back
<1>4. /\ Len(waiting') = Len(waiting) - 1
      /\ \A i \in 1..(Len(waiting) - 1) :
            waiting'[i] = IF i < n THEN waiting[i] ELSE waiting[i + 1]
  <2>1. /\ Len(waiting') = Len(front) + Len(back)
        /\ \A i \in 1..(Len(front) + Len(back)) :
              waiting'[i] = IF i <= Len(front) THEN front[i] ELSE back[i - Len(front)]
    BY <1>1, <1>2, <1>3, ConcatProperties
  <2>2. ASSUME NEW i \in 1..(Len(waiting) - 1)
        PROVE  waiting'[i] = IF i < n THEN waiting[i] ELSE waiting[i + 1]
    <3>1. CASE i < n
      BY <1>1, <1>2, <1>3, <2>1, <3>1
    <3>2. CASE ~ (i < n)
      <4>1. i - (n - 1) \in 1..(Len(waiting) - n) /\ n + (i - (n - 1)) = i + 1
        BY <1>1, <3>2
      <4>2. waiting'[i] = back[i - (n - 1)]
        BY <1>1, <1>2, <1>3, <2>1, <3>2
      <4>3. QED
        BY <1>3, <3>2, <4>1, <4>2
    <3>3. QED
      BY <3>1, <3>2
  <2>3. QED
    BY <1>1, <1>2, <1>3, <2>1, <2>2
<1>5. waiting[n] = NextUp
  BY DEF NextUp, n
<1>6. WaitOnce'
  BY <1>1, <1>4 DEF WaitOnce
<1>7. ASSUME NEW i \in 1..Len(waiting), i # n
      PROVE  \E j \in 1..Len(waiting') : waiting'[j] = waiting[i]
  <2>1. CASE i < n
    BY <1>1, <1>4, <2>1
  <2>2. CASE i > n
    <3>1. i - 1 \in 1..Len(waiting') /\ ~ (i - 1 < n) /\ (i - 1) + 1 = i
      BY <1>1, <1>4, <2>2
    <3>2. QED
      BY <1>4, <3>1
  <2>3. QED
    BY <1>1, <1>7, <2>1, <2>2
<1>8. ASSUME NEW j \in 1..Len(waiting')
      PROVE  \E i \in 1..Len(waiting) : i # n /\ waiting[i] = waiting'[j]
  BY <1>1, <1>4
<1>9. ASSUME NEW d \in Clients
      PROVE  IsEnqueued(d)' <=> IsEnqueued(d) /\ d # NextUp
  <2>1. ASSUME IsEnqueued(d)'
        PROVE  IsEnqueued(d) /\ d # NextUp
    <3>1. PICK i \in 1..Len(waiting) : i # n /\ waiting[i] = d
      BY <1>8, <2>1 DEF IsEnqueued
    <3>2. QED
      BY <1>1, <1>5, <3>1 DEF IsEnqueued, WaitOnce
  <2>2. ASSUME IsEnqueued(d), d # NextUp
        PROVE  IsEnqueued(d)'
    BY <1>5, <1>7, <2>2 DEF IsEnqueued
  <2>3. QED
    BY <2>1, <2>2
<1>10. QED
  BY <1>1, <1>5, <1>6, <1>9 DEF IsEnqueued

-----------------------------------------------------------------------------
(***************************************************************************)
(* Whom the arbiter serves.  Nobody waits for an idle resource, the client *)
(* served is not in the queue any more, and a resource in use has been     *)
(* given to reqResId or is on its way there.                               *)
(***************************************************************************)
ServedInv ==
    /\ WaitOnce
    /\ state = "controlled" => IsEmpty
    /\ \A c \in Clients : IsEnqueued(c) => c # reqResId
    /\ state = "immGranting" => \E ctx \in Contexts : call[ctx].at = "immediateRequested"
    /\ state = "busy" =>
          /\ resId = reqResId
          /\ \/ Granting \/ holds[resId]
             \/ \E ctx \in Contexts : call[ctx].at = "immediateCheck"

\* reqResId was promised the resource, and has not been granted it.
Promised == state = "granting" \/ Granting

\* A client's promise is kept in the queue or in reqResId.  It is not for a client that
\* asks again while it has the resource: its request is accepted and forgotten.
PendingInv ==
    \A c \in Clients : pending[c] <=> IsEnqueued(c) \/ (reqResId = c /\ Promised)

LEMMA InitServed == Init => ServedInv /\ PendingInv
<1> SUFFICES ASSUME Init PROVE ServedInv /\ PendingInv
  OBVIOUS
<1>1. ~ Promised /\ \A c \in Clients : ~ IsEnqueued(c)
  BY DEF Init, SharedInit, QueueInit, Promised, Granting, IsEnqueued, NoCall, Contexts
<1>2. QED
  BY <1>1 DEF Init, SharedInit, QueueInit, ServedInv, PendingInv, WaitOnce, IsEmpty

\* Where the next invariants look: of the queue, ...
LEMMA QueueUnchanged ==
    ASSUME UNCHANGED queueVars
    PROVE  (WaitOnce' <=> WaitOnce) /\ (IsEmpty' <=> IsEmpty)
           /\ \A c \in Clients : IsEnqueued(c)' <=> IsEnqueued(c)
  BY DEF queueVars, WaitOnce, IsEmpty, IsEnqueued

LEMMA RequestKeepsServed ==
    ASSUME IInv, ServedInv, NEW ctx \in Contexts, NEW c \in Clients, Request(ctx, c)
    PROVE  ServedInv'
<1>1. CASE RequestControlled(ctx, c)
  <2>1. waiting = <<>> /\ waiting' = <<>> /\ state' = "granting" /\ reqResId' = c
    BY <1>1 DEF RequestControlled, ServedInv, IsEmpty, queueVars
  <2>2. QED
    BY <2>1 DEF ServedInv, WaitOnce, IsEnqueued
<1>2. CASE RequestAgain(ctx, c)
  BY <1>2, QueueUnchanged DEF RequestAgain, ServedInv, Granting, arbiterVars
<1>3. CASE RequestBusy(ctx, c)
  <2>1. /\ state # "controlled" /\ reqResId # c
        /\ UNCHANGED <<arbiterVars, call, holds>>
        /\ Enqueue(c) \/ UNCHANGED queueVars
    BY <1>3 DEF RequestBusy
  <2>2. /\ WaitOnce'
        /\ \A d \in Clients : IsEnqueued(d)' => IsEnqueued(d) \/ d = c
    BY <2>1, EnqueueAdds, QueueUnchanged DEF IInv, ServedInv
  <2>3. QED
    BY <2>1, <2>2 DEF ServedInv, Granting, arbiterVars
<1>4. QED
  BY <1>1, <1>2, <1>3 DEF Request

LEMMA ReleaseKeepsServed ==
    ASSUME IInv, ServedInv, NEW ctx \in Contexts, NEW c \in Clients, Release(ctx, c)
    PROVE  ServedInv'
<1>1. CASE ReleaseToNext(ctx, c)
  <2>1. Dequeue /\ reqResId' = NextUp /\ state' = "granting"
    BY <1>1 DEF ReleaseToNext
  <2>2. WaitOnce' /\ \A d \in Clients : IsEnqueued(d)' => d # NextUp
    BY <2>1, DequeueRemoves DEF IInv, ServedInv
  <2>3. QED
    BY <2>1, <2>2 DEF ServedInv
<1>2. CASE ReleaseToDefault(ctx, c)
  <2>1. IsEmpty /\ state' = "controlled" /\ UNCHANGED <<queueVars, reqResId>>
    BY <1>2 DEF ReleaseToDefault
  <2>2. QED
    BY <2>1, QueueUnchanged DEF ServedInv
<1>3. QED
  BY <1>1, <1>2 DEF Release

LEMMA ContinueKeepsServed ==
    ASSUME IInv, ServedInv, NEW ctx \in Contexts, Continue(ctx)
    PROVE  ServedInv'
<1>1. CASE DefaultRequested(ctx)
  <2>1. call[ctx].at = "requested" /\ state = "granting"
    BY <1>1 DEF DefaultRequested, At, IInv, Protocol, DecidingInv
  <2>2. UNCHANGED <<queueVars, arbiterVars>>
    BY <1>1, <2>1 DEF DefaultRequested, DefaultOwnerRelease, DefaultOwnerReleases
  <2>3. QED
    BY <2>1, <2>2, QueueUnchanged DEF ServedInv, arbiterVars
<1>2. CASE DefaultImmediateRequested(ctx)
  <2>1. call[ctx].at = "immediateRequested" /\ state = "immGranting" /\ resId = default_owner_id
    BY <1>2 DEF DefaultImmediateRequested, At, IInv, Protocol, DecidingInv
  <2>2. /\ state' = "busy" /\ resId' = reqResId /\ UNCHANGED <<queueVars, reqResId>>
        /\ call' = [call EXCEPT ![ctx] = Frame("immediateCheck", @.id)]
    BY <1>2, <2>1 DEF DefaultImmediateRequested, DefaultOwnerRelease, DefaultOwnerReleases,
                      CannotRelease, GoTo
  <2>3. call'[ctx].at = "immediateCheck"
    BY <2>2 DEF IInv, FlatTypeOK, Frame
  <2>4. QED
    BY <2>2, <2>3, QueueUnchanged DEF ServedInv
<1>3. CASE FinishAsking(ctx)
  <2>1. ImmediateGranted(ctx)
    BY <1>3 DEF FinishAsking, ImmediateRefused, ImmediateFail, At, IInv, Protocol, DecidingInv
  <2>2. /\ resId = call[ctx].id /\ resId \in Clients /\ state = "busy"
        /\ holds' = [holds EXCEPT ![resId] = TRUE] /\ UNCHANGED <<queueVars, arbiterVars>>
    BY <2>1 DEF ImmediateGranted, At, IInv, Protocol, DecidingInv, FlatTypeOK, Deciding
  <2>3. holds'[resId']
    BY <2>2 DEF IInv, FlatTypeOK, arbiterVars
  <2>4. QED
    BY <2>2, <2>3, QueueUnchanged DEF ServedInv, arbiterVars
<1>4. QED
  BY <1>1, <1>2, <1>3 DEF Continue

LEMMA GrantKeepsServed ==
    ASSUME IInv, ServedInv, Grant
    PROVE  ServedInv'
<1>1. CASE GrantedTask
  <2>1. /\ resId' = reqResId /\ state' = "busy" /\ UNCHANGED <<queueVars, reqResId>>
        /\ call' = [call EXCEPT !["main"] = Frame("configure", NO_RES)]
    BY <1>1 DEF GrantedTask
  <2>2. Granting'
    BY <2>1 DEF Granting, IInv, FlatTypeOK, Contexts, Frame
  <2>3. QED
    BY <2>1, <2>2, QueueUnchanged DEF ServedInv
<1>2. CASE Configure
  <2>1. /\ UNCHANGED <<queueVars, arbiterVars, holds>> /\ Granting
        /\ call' = [call EXCEPT !["main"] = Frame("granted", @.id)]
    BY <1>2 DEF Configure, At, GoTo, Granting
  <2>2. Granting' /\ state = "busy"
    BY <2>1 DEF Granting, IInv, Protocol, GrantingInv, FlatTypeOK, Contexts, Frame
  <2>3. QED
    BY <2>1, <2>2, QueueUnchanged DEF ServedInv, arbiterVars
<1>3. CASE Granted
  <2>1. /\ UNCHANGED <<queueVars, arbiterVars>> /\ Granting
        /\ holds' = [holds EXCEPT ![resId] = TRUE]
    BY <1>3 DEF Granted, At, Granting
  <2>2. state = "busy" /\ resId \in Clients
    BY <2>1 DEF IInv, Protocol, GrantingInv
  <2>3. holds'[resId']
    BY <2>1, <2>2 DEF IInv, FlatTypeOK, arbiterVars
  <2>4. QED
    BY <2>1, <2>2, <2>3, QueueUnchanged DEF ServedInv, arbiterVars
<1>4. QED
  BY <1>1, <1>2, <1>3 DEF Grant

LEMMA ServedInvInductive == IInv /\ ServedInv /\ [Next]_vars => ServedInv'
<1> SUFFICES ASSUME IInv, ServedInv, [Next]_vars PROVE ServedInv'
  OBVIOUS
<1>1. ASSUME NEW ctx \in Contexts, NEW c \in Clients, Request(ctx, c)
      PROVE  ServedInv'
  BY <1>1, RequestKeepsServed
<1>2. ASSUME NEW ctx \in Contexts, NEW c \in Clients, ImmediateRequest(ctx, c)
      PROVE  ServedInv'
  <2>1. /\ state = "controlled" /\ state' = "immGranting" /\ UNCHANGED queueVars
        /\ call' = [call EXCEPT ![ctx] = Frame("immediateRequested", c)]
    BY <1>2 DEF ImmediateRequest
  <2>2. call'[ctx].at = "immediateRequested"
    BY <2>1 DEF IInv, FlatTypeOK, Frame
  <2>3. waiting = <<>> /\ waiting' = <<>>
    BY <2>1 DEF ServedInv, IsEmpty, queueVars
  <2>4. QED
    BY <2>1, <2>2, <2>3 DEF ServedInv, WaitOnce, IsEnqueued
<1>3. ASSUME NEW ctx \in Contexts, Continue(ctx)
      PROVE  ServedInv'
  BY <1>3, ContinueKeepsServed
<1>4. ASSUME NEW ctx \in Contexts, NEW c \in Clients, Release(ctx, c)
      PROVE  ServedInv'
  BY <1>4, ReleaseKeepsServed
<1>5. CASE RunNextTask
  BY <1>5, QueueUnchanged DEF RunNextTask, ServedInv, Granting, arbiterVars, clientVars
<1>6. CASE Grant
  BY <1>6, GrantKeepsServed
<1>7. CASE UNCHANGED vars
  BY <1>7, QueueUnchanged DEF vars, sharedVars, ServedInv, Granting, arbiterVars, clientVars
<1>8. QED
  BY <1>1, <1>2, <1>3, <1>4, <1>5, <1>6, <1>7 DEF Next, Ask

-----------------------------------------------------------------------------
(***************************************************************************)
(* The resource of TEP 108: who owns it, and who has asked for it.         *)
(***************************************************************************)

Owner == IF \E c \in Clients : Has(c) THEN CHOOSE c \in Clients : Has(c) ELSE NO_RES
Asked == {c \in Clients : pending[c]}

\* The arbiter has decided for a client, and not in a grant that is still to be signaled.
Decided == state = "immGranting" \/ (state = "busy" /\ ~ Granting)

LEMMA OwnerIs ==
    IInv /\ ServedInv => Owner = IF Decided THEN reqResId ELSE NO_RES
<1> SUFFICES ASSUME IInv, ServedInv
             PROVE  Owner = IF Decided THEN reqResId ELSE NO_RES
  OBVIOUS
<1>1. ASSUME NEW c \in Clients, Has(c)
      PROVE  Decided /\ reqResId = c
  <2>1. CASE holds[c]
    BY <2>1 DEF IInv, Protocol, HolderOnRecord, GrantingInv, ServedInv, Decided
  <2>2. ASSUME NEW ctx \in Contexts, call[ctx].id = c,
               call[ctx].at \in {"immediateRequested", "immediateCheck"}
        PROVE  Decided /\ reqResId = c
    BY <2>2 DEF IInv, Protocol, DecidingInv, Deciding, Decided
  <2>3. \A ctx \in Contexts : call[ctx].at # "immediateStarted"
    BY DEF IInv, FlatTypeOK, Frames
  <2>4. QED
    BY <1>1, <2>1, <2>2, <2>3 DEF Has
<1>2. ASSUME Decided
      PROVE  Has(reqResId) /\ reqResId \in Clients
  <2>1. CASE state = "immGranting"
    <3>1. PICK ctx \in Contexts : call[ctx].at = "immediateRequested"
      BY <2>1 DEF ServedInv
    <3>2. QED
      BY <3>1 DEF Has, IInv, FlatTypeOK, Protocol, DecidingInv, Deciding
  <2>2. CASE state = "busy" /\ ~ Granting
    <3>1. resId = reqResId
      BY <2>2 DEF ServedInv
    <3>2. holds[resId] \/ \E ctx \in Contexts : call[ctx].at = "immediateCheck"
      BY <2>2 DEF ServedInv
    <3>3. QED
      BY <3>1, <3>2 DEF Has, IInv, FlatTypeOK, Protocol, DecidingInv, Deciding
  <2>3. QED
    BY <1>2, <2>1, <2>2 DEF Decided
<1>3. QED
  BY <1>1, <1>2 DEF Owner

\* An action that leaves alone what Promised and Decided look at.
LEMMA DecisionUnchanged ==
    ASSUME UNCHANGED <<state, call>>
    PROVE  (Promised' <=> Promised) /\ (Decided' <=> Decided)
  BY DEF Promised, Decided, Granting

(***************************************************************************)
(* What each action does to the promises and to the decision.  A client    *)
(* that has the resource does not ask: see PendingInv.                     *)
(***************************************************************************)
LEMMA NobodyAsked ==
    ASSUME IInv, ServedInv, PendingInv, state = "controlled"
    PROVE  /\ waiting = <<>> /\ ~ Promised /\ ~ Granting /\ ~ Decided
           /\ \A c \in Clients : ~ pending[c] /\ ~ IsEnqueued(c)
<1>1. ~ Promised /\ ~ Granting /\ ~ Decided
  BY DEF IInv, Protocol, GrantingInv, Promised, Decided
<1>2. waiting = <<>> /\ \A c \in Clients : ~ IsEnqueued(c)
  BY DEF ServedInv, IsEmpty, IsEnqueued
<1>3. QED
  BY <1>1, <1>2 DEF PendingInv

LEMMA RequestPromises ==
    ASSUME ~ RequestWhileOwner, IInv, ServedInv, PendingInv,
           NEW ctx \in Contexts, NEW c \in Clients, Request(ctx, c)
    PROVE  /\ PendingInv'
           /\ \/ ~ Decided /\ ~ Decided'
              \/ Decided /\ Decided' /\ UNCHANGED reqResId
           /\ Asked' = Asked \cup {c} \/ Asked' = Asked
<1> USE DEF IInv, FlatTypeOK
<1>1. CASE RequestControlled(ctx, c)
  <2>1. /\ state = "controlled" /\ state' = "granting" /\ reqResId' = c /\ waiting' = waiting
        /\ pending' = [pending EXCEPT ![c] = TRUE]
    BY <1>1 DEF RequestControlled, queueVars
  <2>2. /\ waiting = <<>> /\ ~ Decided /\ \A d \in Clients : ~ pending[d] /\ ~ IsEnqueued(d)
    BY <2>1, NobodyAsked
  <2>3. Promised' /\ ~ Decided' /\ \A d \in Clients : ~ IsEnqueued(d)'
    BY <2>1, <2>2 DEF Promised, Decided, IsEnqueued
  <2>4. QED
    BY <2>1, <2>2, <2>3 DEF PendingInv, Asked
<1>2. CASE RequestAgain(ctx, c)
  <2>1. /\ reqResId = c /\ state # "controlled" /\ ~ holds[c]
        /\ \A other \in Contexts : call[other].id # c
        /\ pending' = [pending EXCEPT ![c] = TRUE]
        /\ UNCHANGED <<queueVars, arbiterVars, call>>
    BY <1>2 DEF RequestAgain, MayRequest, Asks
  <2>2. Promised
    BY <2>1 DEF Promised, States, ServedInv, Protocol, DecidingInv, Deciding
  <2>3. pending[c]
    BY <2>1, <2>2 DEF PendingInv
  <2>4. UNCHANGED pending
    BY <2>1, <2>3
  <2>5. QED
    BY <2>1, <2>4, QueueUnchanged, DecisionUnchanged DEF PendingInv, Asked, arbiterVars
<1>3. CASE RequestBusy(ctx, c)
  <2>1. /\ UNCHANGED <<arbiterVars, call>>
        /\ \/ Enqueue(c) /\ pending' = [pending EXCEPT ![c] = TRUE]
           \/ UNCHANGED <<queueVars, pending>>
    BY <1>3 DEF RequestBusy
  <2>2. UNCHANGED <<state, resId, reqResId>> /\ (Promised' <=> Promised) /\ (Decided' <=> Decided)
    BY <2>1, DecisionUnchanged DEF arbiterVars
  <2>3. CASE Enqueue(c) /\ pending' = [pending EXCEPT ![c] = TRUE]
    <3>1. \A d \in Clients : IsEnqueued(d)' <=> IsEnqueued(d) \/ d = c
      BY <2>3, EnqueueAdds DEF ServedInv
    <3>2. QED
      BY <2>2, <2>3, <3>1 DEF PendingInv, Asked
  <2>4. CASE UNCHANGED <<queueVars, pending>>
    BY <2>2, <2>4, QueueUnchanged DEF PendingInv, Asked
  <2>5. QED
    BY <2>1, <2>3, <2>4
<1>4. QED
  BY <1>1, <1>2, <1>3 DEF Request

LEMMA ImmediateRequestPromises ==
    ASSUME IInv, ServedInv, PendingInv,
           NEW ctx \in Contexts, NEW c \in Clients, ImmediateRequest(ctx, c)
    PROVE  /\ PendingInv' /\ Asked = {} /\ Asked' = {}
           /\ ~ Decided /\ Decided' /\ reqResId' = c
<1>1. /\ state = "controlled" /\ state' = "immGranting" /\ reqResId' = c
      /\ call' = [call EXCEPT ![ctx] = Frame("immediateRequested", c)]
      /\ UNCHANGED <<queueVars, pending>>
  BY DEF ImmediateRequest, clientVars
<1>2. ~ Granting /\ ~ Decided /\ \A d \in Clients : ~ pending[d] /\ ~ IsEnqueued(d)
  BY <1>1, NobodyAsked
<1>3. ~ Promised' /\ Decided'
  BY <1>1, <1>2 DEF Promised, Decided, Granting, IInv, FlatTypeOK, Contexts, Frame
<1>4. QED
  BY <1>1, <1>2, <1>3, QueueUnchanged DEF PendingInv, Asked

LEMMA ReleasePromises ==
    ASSUME IInv, ServedInv, PendingInv,
           NEW ctx \in Contexts, NEW c \in Clients, Release(ctx, c)
    PROVE  /\ PendingInv' /\ Asked' = Asked
           /\ Decided /\ ~ Decided' /\ ~ Promised
<1>1. holds[c] /\ UNCHANGED <<call, pending>>
  BY DEF Release, ReleaseToNext, ReleaseToDefault
<1>2. state = "busy" /\ ~ Granting /\ ~ Granting' /\ reqResId = c
  BY <1>1, NobodyDecides DEF IInv, Protocol, HolderOnRecord, ServedInv, Granting
<1>3. CASE ReleaseToNext(ctx, c)
  <2>1. Dequeue /\ reqResId' = NextUp /\ state' = "granting"
    BY <1>3 DEF ReleaseToNext
  <2>2. /\ IsEnqueued(NextUp)
        /\ \A d \in Clients : IsEnqueued(d)' <=> IsEnqueued(d) /\ d # NextUp
    BY <2>1, DequeueRemoves DEF IInv, ServedInv
  <2>3. QED
    BY <1>1, <1>2, <2>1, <2>2 DEF PendingInv, Promised, Decided, Asked
<1>4. CASE ReleaseToDefault(ctx, c)
  <2>1. state' = "controlled" /\ UNCHANGED queueVars
    BY <1>4 DEF ReleaseToDefault
  <2>2. QED
    BY <1>1, <1>2, <2>1, QueueUnchanged DEF PendingInv, Promised, Decided, Asked
<1>5. QED
  BY <1>3, <1>4 DEF Release

LEMMA ContinuePromises ==
    ASSUME IInv, ServedInv, PendingInv, NEW ctx \in Contexts, Continue(ctx)
    PROVE  /\ PendingInv' /\ Asked' = Asked
           /\ (Decided' <=> Decided) /\ (Promised' <=> Promised)
           /\ UNCHANGED <<waiting, reqResId>>
<1>1. ASSUME (Decided' <=> Decided), (Promised' <=> Promised),
             UNCHANGED <<queueVars, reqResId, pending>>
      PROVE  PendingInv' /\ Asked' = Asked
  BY <1>1, QueueUnchanged DEF PendingInv, Asked
<1>2. CASE DefaultRequested(ctx)
  <2>1. call[ctx].at = "requested" /\ state = "granting"
    BY <1>2 DEF DefaultRequested, At, IInv, Protocol, DecidingInv
  <2>2. UNCHANGED <<queueVars, arbiterVars, pending>>
    BY <1>2, <2>1 DEF DefaultRequested, DefaultOwnerRelease, DefaultOwnerReleases, clientVars
  <2>3. QED
    BY <1>1, <2>1, <2>2 DEF Promised, Decided, arbiterVars, queueVars
<1>3. CASE DefaultImmediateRequested(ctx)
  <2>1. call[ctx].at = "immediateRequested" /\ state = "immGranting" /\ resId = default_owner_id
    BY <1>3 DEF DefaultImmediateRequested, At, IInv, Protocol, DecidingInv
  <2>2. /\ state' = "busy" /\ UNCHANGED <<queueVars, reqResId, pending>>
        /\ call' = [call EXCEPT ![ctx] = Frame("immediateCheck", @.id)]
    BY <1>3, <2>1 DEF DefaultImmediateRequested, DefaultOwnerRelease, DefaultOwnerReleases,
                      CannotRelease, GoTo, clientVars
  <2>3. ~ Granting
    BY <2>1 DEF IInv, Protocol, GrantingInv
  <2>4. ~ Granting'
    BY <2>2, <2>3 DEF Granting, IInv, FlatTypeOK, Contexts, Frame
  <2>5. QED
    BY <1>1, <2>1, <2>2, <2>3, <2>4 DEF Promised, Decided, queueVars
<1>4. CASE FinishAsking(ctx)
  <2>1. ImmediateGranted(ctx)
    BY <1>4 DEF FinishAsking, ImmediateRefused, ImmediateFail, At, IInv, Protocol, DecidingInv
  <2>2. /\ call[ctx].at = "immediateCheck"
        /\ call' = [call EXCEPT ![ctx] = NoCall]
        /\ UNCHANGED <<queueVars, arbiterVars, pending>>
    BY <2>1 DEF ImmediateGranted, At, Return
  <2>3. ~ Granting
    BY <2>2 DEF IInv, Protocol, DecidingInv
  <2>4. ~ Granting'
    BY <2>2, <2>3 DEF Granting, IInv, FlatTypeOK, Contexts, NoCall
  <2>5. QED
    BY <1>1, <2>2, <2>3, <2>4 DEF Promised, Decided, arbiterVars, queueVars
<1>5. QED
  BY <1>2, <1>3, <1>4 DEF Continue

LEMMA GrantPromises ==
    ASSUME IInv, ServedInv, PendingInv, Grant
    PROVE  /\ PendingInv' /\ ~ Decided /\ Promised /\ UNCHANGED <<waiting, reqResId>>
           /\ \/ Asked' = Asked /\ ~ Decided' /\ Promised'
              \/ /\ Asked' = Asked \ {reqResId} /\ reqResId \in Asked
                 /\ Decided' /\ ~ Promised' /\ holds'[reqResId]
<1>1. CASE GrantedTask
  <2>1. /\ running = "grantedTask" /\ call["main"] = NoCall /\ state' = "busy"
        /\ call' = [call EXCEPT !["main"] = Frame("configure", NO_RES)]
        /\ UNCHANGED <<queueVars, reqResId, pending>>
    BY <1>1 DEF GrantedTask, InTask, clientVars
  <2>2. state = "granting"
    BY <2>1 DEF GrantDue, Granting, NoCall, IInv, Protocol, GrantDueInv
  <2>3. Granting'
    BY <2>1 DEF Granting, IInv, FlatTypeOK, Contexts, Frame
  <2>4. ~ Decided /\ Promised /\ ~ Decided' /\ Promised'
    BY <2>1, <2>2, <2>3 DEF Decided, Promised
  <2>5. QED
    BY <2>1, <2>4, QueueUnchanged DEF PendingInv, Asked, queueVars
<1>2. CASE Configure
  <2>1. /\ Granting /\ UNCHANGED <<queueVars, arbiterVars, pending>>
        /\ call' = [call EXCEPT !["main"] = Frame("granted", @.id)]
    BY <1>2 DEF Configure, At, GoTo, Granting
  <2>2. Granting' /\ state = "busy"
    BY <2>1 DEF Granting, IInv, Protocol, GrantingInv, FlatTypeOK, Contexts, Frame
  <2>3. ~ Decided /\ Promised /\ ~ Decided' /\ Promised'
    BY <2>1, <2>2 DEF Decided, Promised, arbiterVars
  <2>4. QED
    BY <2>1, <2>3, QueueUnchanged DEF PendingInv, Asked, queueVars, arbiterVars
<1>3. CASE Granted
  <2>1. /\ Granting
        /\ holds' = [holds EXCEPT ![resId] = TRUE]
        /\ pending' = [pending EXCEPT ![resId] = FALSE]
        /\ call' = [call EXCEPT !["main"] = NoCall]
        /\ UNCHANGED <<queueVars, arbiterVars>>
    BY <1>3 DEF Granted, At, Return, Granting
  <2>2. state = "busy" /\ resId = reqResId /\ reqResId \in Clients
    BY <2>1 DEF IInv, Protocol, GrantingInv, ServedInv, FlatTypeOK
  <2>3. ~ Granting'
    BY <2>1 DEF Granting, IInv, FlatTypeOK, Contexts, NoCall
  <2>4. ~ Decided /\ Promised /\ Decided' /\ ~ Promised'
    BY <2>1, <2>2, <2>3 DEF Decided, Promised, arbiterVars
  <2>5. pending[reqResId] /\ ~ IsEnqueued(reqResId)
    BY <2>2, <2>4 DEF PendingInv, ServedInv
  <2>6. /\ \A c \in Clients : pending'[c] <=> pending[c] /\ c # reqResId
        /\ holds'[reqResId] /\ UNCHANGED <<waiting, reqResId>>
    BY <2>1, <2>2 DEF IInv, FlatTypeOK, queueVars, arbiterVars
  <2>7. PendingInv'
    BY <2>1, <2>4, <2>5, <2>6, QueueUnchanged DEF PendingInv
  <2>8. QED
    BY <2>2, <2>4, <2>5, <2>6, <2>7 DEF Asked
<1>4. QED
  BY <1>1, <1>2, <1>3 DEF Grant

LEMMA OtherPromises ==
    ASSUME PendingInv, RunNextTask \/ UNCHANGED vars
    PROVE  /\ PendingInv' /\ Asked' = Asked
           /\ (Decided' <=> Decided) /\ (Promised' <=> Promised)
           /\ UNCHANGED <<waiting, reqResId>>
<1>1. UNCHANGED <<queueVars, arbiterVars, call, pending>>
  BY DEF RunNextTask, vars, sharedVars, clientVars
<1>2. QED
  BY <1>1, QueueUnchanged, DecisionUnchanged DEF PendingInv, Asked, queueVars, arbiterVars

\* Every step is a step of the shared resource, or none.
Served == IF Decided THEN reqResId ELSE NO_RES

LEMMA StepOfSharedResource ==
    ASSUME ~ RequestWhileOwner, IInv, ServedInv, PendingInv, [Next]_vars,
           Owner = Served, Owner' = Served'
    PROVE  PendingInv' /\ [Shared!Next]_(Shared!vars)
<1> DEFINE Abstracts == PendingInv' /\ [Shared!Next]_(Shared!vars)
<1>1. \A c \in Clients : c # NO_RES
  BY Owners
<1>2. /\ Shared!vars = <<Owner, Asked>> /\ Shared!vars' = <<Owner', Asked'>>
      /\ Owner' = Owner /\ Asked' = Asked => UNCHANGED Shared!vars
  BY DEF Shared!vars, Owner, Asked
<1>3. /\ \A c \in Clients : Shared!Accept(c) <=> Asked' = Asked \cup {c} /\ Owner' = Owner
      /\ \A c \in Clients : Shared!GrantNow(c) <=>
            Owner = NO_RES /\ Asked = {} /\ Owner' = c /\ Asked' = Asked
      /\ \A c \in Clients : Shared!Grant(c) <=>
            Owner = NO_RES /\ c \in Asked /\ Owner' = c /\ Asked' = Asked \ {c}
      /\ Shared!Release <=> Owner # NO_RES /\ Owner' = NO_RES /\ Asked' = Asked
  BY DEF Shared!Accept, Shared!GrantNow, Shared!Grant, Shared!Release, Owner, Asked
<1>4. reqResId \in Clients
  BY DEF IInv, FlatTypeOK
<1>5. ASSUME NEW ctx \in Contexts, NEW c \in Clients, Request(ctx, c)
      PROVE  Abstracts
  BY <1>2, <1>3, <1>5, RequestPromises DEF Served, Shared!Next
<1>6. ASSUME NEW ctx \in Contexts, NEW c \in Clients, ImmediateRequest(ctx, c)
      PROVE  Abstracts
  BY <1>3, <1>6, ImmediateRequestPromises DEF Served, Shared!Next
<1>7. ASSUME NEW ctx \in Contexts, NEW c \in Clients, Release(ctx, c)
      PROVE  Abstracts
  BY <1>1, <1>3, <1>4, <1>7, ReleasePromises DEF Served, Shared!Next
<1>8. ASSUME NEW ctx \in Contexts, Continue(ctx)
      PROVE  Abstracts
  BY <1>2, <1>8, ContinuePromises DEF Served
<1>9. CASE Grant
  BY <1>2, <1>3, <1>4, <1>9, GrantPromises DEF Served, Shared!Next
<1>10. CASE RunNextTask \/ UNCHANGED vars
  BY <1>2, <1>10, OtherPromises DEF Served
<1>11. QED
  BY <1>5, <1>6, <1>7, <1>8, <1>9, <1>10 DEF Next, Ask

-----------------------------------------------------------------------------
(***************************************************************************)
(* First come, first served: the promised client and the queue in one line.*)
(***************************************************************************)
Lined == IF Promised THEN <<reqResId>> \o waiting ELSE waiting

LEMMA LineIs ==
    IInv /\ ServedInv /\ PendingInv => Line = Lined
<1> SUFFICES ASSUME IInv, ServedInv, PendingInv
             PROVE  Line = Lined
  OBVIOUS
<1> DEFINE taken == {c \in Clients : pending[c] /\ ~ IsEnqueued(c)}
<1>1. reqResId \in Clients /\ ~ IsEnqueued(reqResId)
  BY DEF IInv, FlatTypeOK, ServedInv
<1>2. taken = IF Promised THEN {reqResId} ELSE {}
  BY <1>1 DEF PendingInv
<1>3. Line = IF taken = {} THEN waiting ELSE <<CHOOSE c \in taken : TRUE>> \o waiting
  BY DEF Line
<1> HIDE DEF taken
<1>4. CASE Promised
  <2>1. (CHOOSE c \in taken : TRUE) = reqResId /\ taken # {}
    BY <1>2, <1>4
  <2>2. QED
    BY <1>3, <1>4, <2>1 DEF Lined
<1>5. CASE ~ Promised
  BY <1>2, <1>3, <1>5 DEF Lined
<1>6. QED
  BY <1>4, <1>5

LEMMA RequestLinesUp ==
    ASSUME ~ RequestWhileOwner, IInv, ServedInv, PendingInv,
           NEW ctx \in Contexts, NEW c \in Clients, Request(ctx, c)
    PROVE  Lined' = Lined \/ Lined' = Append(Lined, c)
<1>1. CASE RequestControlled(ctx, c)
  <2>1. waiting' = <<>> /\ Lined = <<>> /\ reqResId' = c /\ Promised'
    BY <1>1, NobodyAsked DEF RequestControlled, Lined, Promised, queueVars
  <2>2. QED
    BY <2>1 DEF Lined
<1>2. CASE RequestAgain(ctx, c)
  BY <1>2, DecisionUnchanged DEF RequestAgain, Lined, arbiterVars, queueVars
<1>3. CASE RequestBusy(ctx, c)
  <2>1. UNCHANGED <<reqResId, state, call>> /\ (Promised' <=> Promised)
    BY <1>3, DecisionUnchanged DEF RequestBusy, arbiterVars
  <2>2. waiting' = waiting \/ waiting' = Append(waiting, c)
    BY <1>3 DEF RequestBusy, Enqueue, queueVars
  <2>3. reqResId \in Clients /\ waiting \in Seq(Clients)
    BY DEF IInv, FlatTypeOK, QueueTypeOK
  <2>4. <<reqResId>> \o Append(waiting, c) = Append(<<reqResId>> \o waiting, c)
    BY <2>3
  <2>5. QED
    BY <2>1, <2>2, <2>4 DEF Lined
<1>4. QED
  BY <1>1, <1>2, <1>3 DEF Request

LEMMA ReleaseLines ==
    ASSUME ~ RoundRobin, IInv, ServedInv, PendingInv,
           NEW ctx \in Contexts, NEW c \in Clients, Release(ctx, c)
    PROVE  Lined' = Lined
<1>1. ~ Promised
  BY ReleasePromises
<1>2. CASE ReleaseToNext(ctx, c)
  <2>1. /\ waiting # <<>> /\ reqResId' = waiting[1] /\ state' = "granting"
        /\ waiting' = SubSeq(waiting, 1, 0) \o SubSeq(waiting, 2, Len(waiting))
    BY <1>2 DEF ReleaseToNext, Dequeue, NextUp, NextPlace
  <2>2. waiting \in Seq(Clients)
    BY DEF IInv, QueueTypeOK
  <2>3. waiting' = Tail(waiting)
    BY <2>1, <2>2
  <2>4. <<waiting[1]>> \o Tail(waiting) = waiting
    BY <2>1, <2>2
  <2>5. QED
    BY <1>1, <2>1, <2>3, <2>4 DEF Lined, Promised
<1>3. CASE ReleaseToDefault(ctx, c)
  <2>1. state' = "controlled" /\ UNCHANGED <<waiting, call>>
    BY <1>3 DEF ReleaseToDefault, queueVars
  <2>2. ~ Promised'
    BY <1>1, <2>1 DEF Promised, Granting
  <2>3. QED
    BY <1>1, <2>1, <2>2 DEF Lined
<1>4. QED
  BY <1>2, <1>3 DEF Release

KeepsOrder ==
    \/ Line' = Line
    \/ \E c \in Clients : Line' = Append(Line, c)
    \/ Line # <<>> /\ Line' = Tail(Line) /\ holds'[Head(Line)]

LEMMA StepOfLine ==
    ASSUME ~ RequestWhileOwner, ~ RoundRobin, IInv, ServedInv, PendingInv, [Next]_vars,
           Line = Lined, Line' = Lined'
    PROVE  KeepsOrder
<1>1. reqResId \in Clients /\ waiting \in Seq(Clients)
  BY DEF IInv, FlatTypeOK, QueueTypeOK
<1>2. ASSUME NEW ctx \in Contexts, NEW c \in Clients, Request(ctx, c)
      PROVE  KeepsOrder
  BY <1>2, RequestLinesUp DEF KeepsOrder
<1>3. ASSUME NEW ctx \in Contexts, NEW c \in Clients, ImmediateRequest(ctx, c)
      PROVE  KeepsOrder
  <2>1. state = "controlled" /\ state' = "immGranting" /\ UNCHANGED waiting
    BY <1>3 DEF ImmediateRequest, queueVars
  <2>2. PendingInv' /\ ~ Promised
    BY <1>3, <2>1, ImmediateRequestPromises, NobodyAsked
  <2>3. Decided'
    BY <1>3, ImmediateRequestPromises
  <2>4. ~ Promised'
    BY <2>1, <2>2, <1>3 DEF Promised, Granting, ImmediateRequest, IInv, FlatTypeOK, Contexts, Frame
  <2>5. QED
    BY <2>1, <2>2, <2>4 DEF Lined, KeepsOrder
<1>4. ASSUME NEW ctx \in Contexts, NEW c \in Clients, Release(ctx, c)
      PROVE  KeepsOrder
  BY <1>4, ReleaseLines DEF KeepsOrder
<1>5. ASSUME NEW ctx \in Contexts, Continue(ctx)
      PROVE  KeepsOrder
  BY <1>5, ContinuePromises DEF Lined, KeepsOrder
<1>6. CASE Grant
  <2>1. Promised /\ UNCHANGED <<waiting, reqResId>> /\ (Promised' \/ (~ Promised' /\ holds'[reqResId]))
    BY <1>6, GrantPromises
  <2>2. CASE Promised'
    BY <2>1, <2>2 DEF Lined, KeepsOrder
  <2>3. CASE ~ Promised' /\ holds'[reqResId]
    <3>1. Line = <<reqResId>> \o waiting /\ Line' = waiting
      BY <2>1, <2>3 DEF Lined
    <3>2. Line # <<>> /\ Head(Line) = reqResId /\ Tail(Line) = waiting
      BY <1>1, <3>1
    <3>3. QED
      BY <2>3, <3>1, <3>2 DEF KeepsOrder
  <2>4. QED
    BY <2>1, <2>2, <2>3
<1>7. CASE RunNextTask \/ UNCHANGED vars
  BY <1>7, OtherPromises DEF Lined, KeepsOrder
<1>8. QED
  BY <1>2, <1>3, <1>4, <1>5, <1>6, <1>7 DEF Next, Ask

-----------------------------------------------------------------------------
(***************************************************************************)
(* The clients see the shared resource of TEP 108, for both policies and   *)
(* whatever their order: one owner at a time, no grant that was not asked  *)
(* for, and no immediate grant past a client that waits.  Clients that ask *)
(* for their next turn before they release are excluded: the arbiter       *)
(* accepts and forgets the request of one it has served last, and then     *)
(* grants an immediate request past it (PendingInv).                       *)
(***************************************************************************)
THEOREM IsSharedResource ==
    ASSUME ~ RequestWhileOwner
    PROVE  Spec => ImplementsSharedResource
<1>1. Init => Shared!Init
  BY DEF Init, SharedInit, Shared!Init, Has, NoCall
<1>2. IInv /\ ServedInv => Owner = Served
  BY OwnerIs DEF Served
<1>3. /\ IInv /\ ServedInv /\ PendingInv /\ [Next]_vars
      /\ Owner = Served /\ (Owner = Served)'
      => PendingInv' /\ [Shared!Next]_(Shared!vars)
  BY StepOfSharedResource
<1>4. QED
  BY <1>1, <1>2, <1>3, InitIInv, InitServed, ServedInvInductive, GrantInvInvariant, IInvIsGrantInv, PTL
     DEF Spec, ImplementsSharedResource, Shared!Spec

(***************************************************************************)
(* Under first come, first served nobody is overtaken: the promised client *)
(* and the queue behind it grow at the end and shrink at the front, by the *)
(* client that is granted (FcfsResourceQueueC, ArbiterP.release).          *)
(***************************************************************************)
THEOREM NobodyIsOvertaken ==
    ASSUME ~ RequestWhileOwner, ~ RoundRobin
    PROVE  Spec => NoOvertaking
<1>1. IInv /\ ServedInv /\ PendingInv => Line = Lined
  BY LineIs
<1>2. /\ IInv /\ ServedInv /\ PendingInv /\ [Next]_vars
      /\ Owner = Served /\ (Owner = Served)'
      => PendingInv'
  BY StepOfSharedResource
<1>3. IInv /\ ServedInv => Owner = Served
  BY OwnerIs DEF Served
<1>4. /\ IInv /\ ServedInv /\ PendingInv /\ [Next]_vars
      /\ Line = Lined /\ (Line = Lined)'
      => [\/ Line' = Line
          \/ \E c \in Clients : Line' = Append(Line, c)
          \/ Line # <<>> /\ Line' = Tail(Line) /\ holds'[Head(Line)]
         ]_sharedVars
  BY StepOfLine DEF KeepsOrder
<1>5. QED
  BY <1>1, <1>2, <1>3, <1>4, InitIInv, InitServed, ServedInvInductive, GrantInvInvariant,
     IInvIsGrantInv, PTL DEF Spec, NoOvertaking

(***************************************************************************)
(* A client that was told SUCCESS is in the queue, or the arbiter is about *)
(* to grant it the resource.                                               *)
(***************************************************************************)
THEOREM PromisesAreKept ==
    ASSUME ~ RequestWhileOwner
    PROVE  Spec => []PromisesKept
<1>1. IInv /\ ServedInv /\ PendingInv => PromisesKept
  BY DEF IInv, Protocol, GrantingInv, ServedInv, PendingInv, Promised, PromisesKept
<1>2. IInv /\ ServedInv => Owner = Served
  BY OwnerIs DEF Served
<1>3. /\ IInv /\ ServedInv /\ PendingInv /\ [Next]_vars
      /\ Owner = Served /\ (Owner = Served)'
      => PendingInv'
  BY StepOfSharedResource
<1>4. QED
  BY <1>1, <1>2, <1>3, InitIInv, InitServed, ServedInvInductive, GrantInvInvariant,
     IInvIsGrantInv, PTL DEF Spec

-----------------------------------------------------------------------------
(***************************************************************************)
(* The linked list of FcfsResourceQueueC, in step with the queue.          *)
(***************************************************************************)

LEMMA FcfsArbiterIsArbiter == FcfsSpec => Spec
<1>1. FcfsInit => Init
  BY DEF FcfsInit
<1>2. [Next /\ QueueCalls]_<<vars, resQ, qHead, qTail>> => [Next]_vars
  OBVIOUS
<1>3. QED
  BY <1>1, <1>2, PTL DEF FcfsSpec, Spec

LEMMA Entries ==
    /\ Fcfs!Clients = Clients
    /\ Fcfs!NO_ENTRY \notin Clients
  BY ClientIdsFitInAByte DEF Fcfs!Clients, Fcfs!NO_ENTRY, Clients, NO_RES

ListInv ==
    /\ resQ \in [Clients -> Clients \cup {Fcfs!NO_ENTRY}]
    /\ Fcfs!Visits(waiting)

LEMMA WaitingHasLength ==
    ASSUME QueueTypeOK
    PROVE  /\ Len(waiting) \in Nat /\ (waiting = <<>> <=> Len(waiting) = 0)
           /\ \A i \in 1..Len(waiting) : waiting[i] \in Clients
  BY DEF QueueTypeOK

\* One link and the tail are enough to know whether a client waits.
LEMMA LinkTellsWhoWaits ==
    ASSUME QueueTypeOK, ListInv, NEW c \in Clients
    PROVE  Fcfs!isEnqueued(c) <=> IsEnqueued(c)
<1> USE WaitingHasLength, Entries DEF ListInv, Fcfs!Visits
<1>1. ASSUME NEW i \in 1..Len(waiting), waiting[i] = c
      PROVE  Fcfs!isEnqueued(c)
  <2>1. CASE i = Len(waiting)
    BY <1>1, <2>1 DEF Fcfs!isEnqueued
  <2>2. CASE i # Len(waiting)
    <3>1. i \in 1..(Len(waiting) - 1) /\ waiting[i + 1] \in Clients
      BY <2>2
    <3>2. QED
      BY <1>1, <3>1 DEF Fcfs!isEnqueued
  <2>3. QED
    BY <2>1, <2>2
<1>2. ASSUME resQ[c] # Fcfs!NO_ENTRY
      PROVE  IsEnqueued(c)
  <2>1. \E i \in 1..(Len(waiting) - 1) : waiting[i] = c
    BY <1>2
  <2>2. QED
    BY <2>1 DEF IsEnqueued
<1>3. ASSUME qTail = c
      PROVE  IsEnqueued(c)
  <2>1. waiting # <<>> /\ c = waiting[Len(waiting)]
    BY <1>3
  <2>2. QED
    BY <2>1 DEF IsEnqueued
<1>4. QED
  BY <1>1, <1>2, <1>3 DEF Fcfs!isEnqueued, IsEnqueued

LEMMA EnqueueKeepsList ==
    ASSUME QueueTypeOK, WaitOnce, ListInv, NEW c \in Clients,
           waiting' = Append(waiting, c), Fcfs!enqueue(c)
    PROVE  ListInv'
<1> DEFINE n == Len(waiting)
<1> USE WaitingHasLength, Entries
<1>1. /\ Len(waiting') = n + 1 /\ waiting' # <<>> /\ waiting'[n + 1] = c
      /\ \A i \in 1..n : waiting'[i] = waiting[i]
  BY DEF QueueTypeOK
<1>2. \A i \in 1..n : waiting[i] # c
  BY LinkTellsWhoWaits DEF Fcfs!enqueue, IsEnqueued
<1>3. CASE waiting = <<>>
  <2>1. qHead' = c /\ qTail' = c /\ resQ' = resQ
    BY <1>3 DEF Fcfs!enqueue, ListInv, Fcfs!Visits
  <2>2. QED
    BY <1>1, <1>3, <2>1 DEF ListInv, Fcfs!Visits
<1>4. CASE waiting # <<>>
  <2>1. n \in 1..n /\ qTail = waiting[n] /\ qHead = waiting[1]
    BY <1>4 DEF ListInv, Fcfs!Visits
  <2>2. qHead' = qHead /\ qTail' = c /\ resQ' = [resQ EXCEPT ![qTail] = c]
    BY <1>4, <2>1 DEF Fcfs!enqueue
  <2>3. \A i \in 1..(n - 1) : waiting[i] # qTail
    BY <2>1 DEF WaitOnce
  <2>4. /\ resQ' \in [Clients -> Clients \cup {Fcfs!NO_ENTRY}]
        /\ \A x \in Clients : resQ'[x] = IF x = qTail THEN c ELSE resQ[x]
    BY <2>1, <2>2 DEF ListInv
  <2>5. ASSUME NEW i \in 1..n
        PROVE  resQ'[waiting'[i]] = waiting'[i + 1]
    <3>1. CASE i = n
      BY <1>1, <2>1, <2>4, <3>1
    <3>2. CASE i # n
      <4>1. i \in 1..(n - 1) /\ i + 1 \in 1..n
        BY <3>2
      <4>2. resQ[waiting[i]] = waiting[i + 1]
        BY <4>1 DEF ListInv, Fcfs!Visits
      <4>3. QED
        BY <1>1, <2>3, <2>4, <4>1, <4>2
    <3>3. QED
      BY <3>1, <3>2
  <2>6. ASSUME NEW x \in Clients, \A i \in 1..n : waiting'[i] # x
        PROVE  resQ'[x] = Fcfs!NO_ENTRY
    <3>1. x # qTail /\ \A i \in 1..(n - 1) : waiting[i] # x
      BY <1>1, <2>1, <2>6
    <3>2. QED
      BY <2>4, <3>1 DEF ListInv, Fcfs!Visits
  <2>7. QED
    BY <1>1, <2>1, <2>2, <2>4, <2>5, <2>6 DEF ListInv, Fcfs!Visits
<1>5. QED
  BY <1>3, <1>4

LEMMA DequeueKeepsList ==
    ASSUME QueueTypeOK, WaitOnce, ListInv, waiting # <<>>, waiting' = Tail(waiting), Fcfs!dequeue
    PROVE  ListInv'
<1> DEFINE n == Len(waiting)
<1> USE WaitingHasLength, Entries
<1>1. /\ n \in Nat \ {0} /\ Len(waiting') = n - 1 /\ (waiting' = <<>> <=> n = 1)
      /\ \A i \in 1..(n - 1) : waiting'[i] = waiting[i + 1]
  <2>1. Len(waiting') = n - 1 /\ \A i \in 1..(n - 1) : waiting'[i] = waiting[i + 1]
    BY DEF QueueTypeOK
  <2>2. waiting' \in Seq(Clients)
    BY DEF QueueTypeOK
  <2>3. QED
    BY <2>1, <2>2
<1>2. qHead = waiting[1] /\ qHead \in Clients /\ qTail = waiting[n]
  BY DEF ListInv, Fcfs!Visits
<1>3. /\ qHead' = resQ[qHead]
      /\ qTail' = (IF resQ[qHead] = Fcfs!NO_ENTRY THEN Fcfs!NO_ENTRY ELSE qTail)
      /\ resQ' \in [Clients -> Clients \cup {Fcfs!NO_ENTRY}]
      /\ \A x \in Clients : resQ'[x] = IF x = qHead THEN Fcfs!NO_ENTRY ELSE resQ[x]
  BY <1>2 DEF Fcfs!dequeue, ListInv
<1>4. resQ[qHead] = IF n = 1 THEN Fcfs!NO_ENTRY ELSE waiting[2]
  BY <1>1, <1>2 DEF ListInv, Fcfs!Visits
<1>5. /\ qHead' = IF waiting' = <<>> THEN Fcfs!NO_ENTRY ELSE waiting'[1]
      /\ qTail' = IF waiting' = <<>> THEN Fcfs!NO_ENTRY ELSE waiting'[n - 1]
  BY <1>1, <1>2, <1>3, <1>4
<1>6. ASSUME NEW i \in 1..(n - 2)
      PROVE  resQ'[waiting'[i]] = waiting'[i + 1]
  <2>1. i \in 1..(n - 1) /\ i + 1 \in 1..(n - 1) /\ i + 1 \in 1..n /\ 1 \in 1..n /\ i + 1 # 1
    BY <1>1
  <2>2. resQ[waiting[i + 1]] = waiting[(i + 1) + 1]
    BY <2>1 DEF ListInv, Fcfs!Visits
  <2>3. waiting[i + 1] # qHead
    BY <1>2, <2>1 DEF WaitOnce
  <2>4. QED
    BY <1>1, <1>3, <2>1, <2>2, <2>3
<1>7. ASSUME NEW x \in Clients, \A i \in 1..(n - 2) : waiting'[i] # x
      PROVE  resQ'[x] = Fcfs!NO_ENTRY
  <2>1. CASE x = qHead
    BY <1>3, <2>1
  <2>2. CASE x # qHead
    <3>1. ASSUME NEW i \in 1..(n - 1), waiting[i] = x
          PROVE  FALSE
      <4>1. i # 1 /\ i - 1 \in 1..(n - 2) /\ i - 1 \in 1..(n - 1)
        BY <1>1, <1>2, <2>2, <3>1
      <4>2. waiting'[i - 1] = waiting[(i - 1) + 1]
        BY <1>1, <4>1
      <4>3. QED
        BY <1>7, <3>1, <4>1, <4>2
    <3>2. QED
      BY <1>3, <2>2, <3>1 DEF ListInv, Fcfs!Visits
  <2>3. QED
    BY <2>1, <2>2
<1>8. QED
  BY <1>1, <1>3, <1>5, <1>6, <1>7 DEF ListInv, Fcfs!Visits

\* A step of the arbiter leaves the queue alone, or adds or takes one client.
LEMMA StepOfQueue ==
    ASSUME ~ RoundRobin, IInv, ServedInv, [Next]_vars
    PROVE  \/ waiting' = waiting
           \/ \E c \in Clients : waiting' = Append(waiting, c)
           \/ waiting # <<>> /\ waiting' = Tail(waiting)
<1> DEFINE OneCall == \/ waiting' = waiting
                      \/ \E c \in Clients : waiting' = Append(waiting, c)
                      \/ waiting # <<>> /\ waiting' = Tail(waiting)
<1>1. ASSUME NEW ctx \in Contexts, NEW c \in Clients, Request(ctx, c)
      PROVE  OneCall
  BY <1>1 DEF Request, RequestControlled, RequestAgain, RequestBusy, Enqueue, queueVars
<1>2. ASSUME NEW ctx \in Contexts, NEW c \in Clients, ReleaseToNext(ctx, c)
      PROVE  OneCall
  <2>1. /\ waiting # <<>>
        /\ waiting' = SubSeq(waiting, 1, 0) \o SubSeq(waiting, 2, Len(waiting))
    BY <1>2 DEF ReleaseToNext, Dequeue, NextPlace
  <2>2. waiting \in Seq(Clients)
    BY DEF IInv, QueueTypeOK
  <2>3. QED
    BY <2>1, <2>2
<1>3. ASSUME NEW ctx \in Contexts, NEW c \in Clients,
             ImmediateRequest(ctx, c) \/ ReleaseToDefault(ctx, c)
      PROVE  OneCall
  BY <1>3 DEF ImmediateRequest, ReleaseToDefault, queueVars
<1>4. ASSUME NEW ctx \in Contexts, Continue(ctx)
      PROVE  OneCall
  BY <1>4 DEF Continue, DefaultRequested, DefaultImmediateRequested, FinishAsking,
              ImmediateGranted, ImmediateRefused, ImmediateFail, queueVars
<1>5. CASE RunNextTask \/ Grant \/ UNCHANGED vars
  BY <1>5 DEF RunNextTask, Grant, GrantedTask, Configure, Granted, vars, sharedVars, queueVars
<1>6. QED
  BY <1>1, <1>2, <1>3, <1>4, <1>5 DEF Next, Ask, Release

LEMMA ListInvInductive ==
    ASSUME ~ RoundRobin, IInv, ServedInv, ListInv,
           [Next /\ QueueCalls]_<<vars, resQ, qHead, qTail>>
    PROVE  ListInv'
<1>1. QueueTypeOK /\ WaitOnce /\ [Next]_vars
  BY DEF IInv, ServedInv
<1>2. CASE UNCHANGED <<queueVars, resQ, qHead, qTail>>
  BY <1>2 DEF ListInv, Fcfs!Visits, queueVars
<1>3. ASSUME NEW c \in Clients, waiting' = Append(waiting, c), Fcfs!enqueue(c)
      PROVE  ListInv'
  BY <1>1, <1>3, EnqueueKeepsList
<1>4. CASE Len(waiting') < Len(waiting) /\ Fcfs!dequeue
  <2>1. waiting # <<>> /\ waiting' = Tail(waiting)
    <3>1. waiting' # waiting /\ \A c \in Clients : waiting' # Append(waiting, c)
      BY <1>1, <1>4 DEF QueueTypeOK
    <3>2. QED
      BY <1>1, <3>1, StepOfQueue
  <2>2. QED
    BY <1>1, <1>4, <2>1, DequeueKeepsList
<1>5. CASE UNCHANGED <<vars, resQ, qHead, qTail>>
  BY <1>2, <1>5 DEF vars, sharedVars
<1>6. QED
  BY <1>2, <1>3, <1>4, <1>5 DEF QueueCalls

(***************************************************************************)
(* FcfsArbiterC: the linked list answers as the queue it stands for, after *)
(* any mix of requests and releases (FcfsResourceQueueC.nc:60-94).         *)
(***************************************************************************)
THEOREM ListStaysInStep ==
    ASSUME ~ RoundRobin
    PROVE  FcfsSpec => []ListInStep
<1>1. FcfsInit => Init /\ ListInv
  <2>1. FcfsInit => resQ = [c \in Clients |-> Fcfs!NO_ENTRY] /\ qHead = Fcfs!NO_ENTRY
                    /\ qTail = Fcfs!NO_ENTRY /\ waiting = <<>> /\ Init
    BY Entries DEF FcfsInit, Fcfs!Init, Init, SharedInit, QueueInit
  <2>2. QED
    BY <2>1, Entries DEF ListInv, Fcfs!Visits
<1>2. IInv /\ ServedInv /\ ListInv => ListInStep
  BY LinkTellsWhoWaits DEF IInv, ListInv, ListInStep
<1>3. IInv /\ ServedInv /\ ListInv /\ [Next /\ QueueCalls]_<<vars, resQ, qHead, qTail>> => ListInv'
  BY ListInvInductive
<1>4. [Next /\ QueueCalls]_<<vars, resQ, qHead, qTail>> => [Next]_vars
  OBVIOUS
<1>5. QED
  BY <1>1, <1>2, <1>3, <1>4, InitIInv, InitServed, ServedInvInductive, FcfsArbiterIsArbiter,
     GrantInvInvariant, IInvIsGrantInv, PTL DEF FcfsSpec
=============================================================================
