------------------------- MODULE AMQueueImplP_proofs -------------------------
(***************************************************************************)
(* Proofs about the send queue, for every number of clients and packets.   *)
(***************************************************************************)
EXTENDS AMQueueImplP, WellFoundedInduction, TLAPS

LEMMA ClientNumbers ==
    /\ NumClients \in Nat \ {0}
    /\ Clients \subseteq Nat /\ 0 \in Clients
    /\ NumClients \notin Clients
    /\ \A c \in Clients : c < NumClients /\ c + 1 \in 0..NumClients
  BY NumClientsAssumption DEF Clients

LEMMA SmallestNumber ==
    ASSUME NEW S, S \subseteq Nat, S # {}
    PROVE  \E m \in S : \A n \in S : m <= n
<1> DEFINE R == OpToRel(<, Nat)
<1>1. \E m \in S : \A n \in S : <<n, m>> \notin R
  <2>1. IsWellFoundedOn(R, Nat)
    BY NatLessThanWellFounded
  <2> HIDE DEF R
  <2>2. QED
    BY <2>1, WFMin
<1>2. \A m, n \in Nat : n < m => <<n, m>> \in R
  BY DEF OpToRel
<1> HIDE DEF R
<1>3. PICK m \in S : \A n \in S : <<n, m>> \notin R
  BY <1>1
<1>4. \A n \in S : ~ (n < m)
  BY <1>2, <1>3
<1>5. QED
  BY <1>4

-----------------------------------------------------------------------------
(* The ring of clients. *)

LEMMA Remainder ==
    ASSUME NEW n \in Nat \ {0}, NEW x \in 0 .. n + n - 1
    PROVE  x % n = IF x < n THEN x ELSE x - n
<1>1. CASE x < n
  BY <1>1
<1>2. CASE ~ (x < n)
  BY <1>2
<1>3. QED
  BY <1>1, <1>2

LEMMA DistanceInRing ==
    ASSUME NEW from \in Clients, NEW to \in Clients
    PROVE  /\ Distance(from, to) = IF from < to THEN to - from - 1 ELSE to + NumClients - from - 1
           /\ Distance(from, to) \in Clients
<1> DEFINE x == to + NumClients - from - 1
<1>1. x \in 0 .. NumClients + NumClients - 1
  BY ClientNumbers DEF Clients
<1>2. Distance(from, to) = IF x < NumClients THEN x ELSE x - NumClients
  BY <1>1, Remainder, ClientNumbers DEF Distance
<1>3. QED
  BY <1>1, <1>2, ClientNumbers DEF Clients

LEMMA SameDistance ==
    ASSUME NEW from \in Clients, NEW c \in Clients, NEW d \in Clients,
           Distance(from, c) = Distance(from, d)
    PROVE  c = d
<1>1. (IF from < c THEN c - from - 1 ELSE c + NumClients - from - 1)
        = (IF from < d THEN d - from - 1 ELSE d + NumClients - from - 1)
  BY DistanceInRing
<1>2. QED
  BY <1>1, ClientNumbers DEF Clients

\* Who is behind another stays behind when the radio goes to one before both.
LEMMA DistanceFromNext ==
    ASSUME NEW from \in Clients, NEW next \in Clients, NEW c \in Clients, NEW d \in Clients,
           Distance(from, next) < Distance(from, c),
           Distance(from, c) < Distance(from, d) \/ d = next
    PROVE  Distance(next, c) < Distance(next, d)
<1>1. \A f, t \in Clients :
         Distance(f, t) = IF f < t THEN t - f - 1 ELSE t + NumClients - f - 1
  BY DistanceInRing
<1>2. CASE d = next
  BY <1>1, <1>2, ClientNumbers DEF Clients
<1>3. CASE Distance(from, c) < Distance(from, d)
  BY <1>1, <1>3, ClientNumbers DEF Clients
<1>4. QED
  BY <1>2, <1>3

LEMMA FirstAfter ==
    ASSUME current \in Clients, NEW S, S \subseteq Clients
    PROVE  /\ S = {} => FirstAfterCurrent(S) = NumClients
           /\ S # {} => /\ FirstAfterCurrent(S) \in S
                        /\ \A d \in S : Distance(current, FirstAfterCurrent(S)) <= Distance(current, d)
<1>1. CASE S = {}
  BY <1>1 DEF FirstAfterCurrent
<1>2. CASE S # {}
  <2> DEFINE Distances == {Distance(current, c) : c \in S}
  <2>1. Distances \subseteq Nat /\ Distances # {}
    <3>1. \A c \in S : Distance(current, c) \in Nat
      BY DistanceInRing, ClientNumbers
    <3>2. QED
      BY <1>2, <3>1
  <2>2. PICK m \in Distances : \A n \in Distances : m <= n
    <3> HIDE DEF Distances
    <3>1. QED
      BY <2>1, SmallestNumber
  <2>3. \E c \in S : \A d \in S : Distance(current, c) <= Distance(current, d)
    BY <2>2
  <2>4. QED
    BY <1>2, <2>3 DEF FirstAfterCurrent
<1>3. QED
  BY <1>1, <1>2
-----------------------------------------------------------------------------
(* The task queue. *)

TasksTypeOK == tasks \in Seq(Tasks) /\ running \in Tasks \cup {NoTask}

LEMMA Posted ==
    ASSUME TasksTypeOK, NoTaskTwice, NEW t \in Tasks, PostTask(t)
    PROVE  /\ tasks' \in Seq(Tasks) /\ NoTaskTwice'
           /\ ErrorQueued' <=> ErrorQueued \/ t = "errorTask"
<1>1. CASE Scheduler!LineUp(t)
  <2>1. tasks' = Append(tasks, t) /\ \A i \in 1..Len(tasks) : tasks[i] # t
    BY <1>1 DEF Scheduler!LineUp, Scheduler!IsQueued
  <2>2. /\ tasks' \in Seq(Tasks) /\ Len(tasks') = Len(tasks) + 1 /\ Len(tasks) \in Nat
        /\ \A i \in 1..Len(tasks) : tasks'[i] = tasks[i]
        /\ tasks'[Len(tasks) + 1] = t
    BY <2>1 DEF TasksTypeOK
  <2>3. NoTaskTwice'
    BY <2>1, <2>2 DEF NoTaskTwice
  <2>4. ErrorQueued' <=> ErrorQueued \/ t = "errorTask"
    BY <2>2 DEF ErrorQueued, Scheduler!IsQueued
  <2>5. QED
    BY <2>2, <2>3, <2>4
<1>2. CASE Scheduler!IsQueued(t) /\ UNCHANGED tasks
  BY <1>2 DEF TasksTypeOK, NoTaskTwice, ErrorQueued, Scheduler!IsQueued
<1>3. QED
  BY <1>1, <1>2 DEF PostTask

LEMMA Started ==
    ASSUME TasksTypeOK, NoTaskTwice, Scheduler!Start
    PROVE  /\ TasksTypeOK' /\ NoTaskTwice'
           /\ ErrorQueued' => ErrorQueued
           /\ running' = "errorTask" => ErrorQueued /\ ~ ErrorQueued'
<1>1. /\ running' = tasks[1] /\ 1 \in 1..Len(tasks)
      /\ Len(tasks') = Len(tasks) - 1 /\ Len(tasks) \in Nat \ {0}
      /\ \A i \in 1..Len(tasks') : i + 1 \in 1..Len(tasks) /\ tasks'[i] = tasks[i + 1]
      /\ tasks' \in Seq(Tasks)
  BY DEF TasksTypeOK, Scheduler!Start
<1>2. TasksTypeOK' /\ NoTaskTwice'
  <2>1. running' \in Tasks
    BY <1>1 DEF TasksTypeOK
  <2>2. ASSUME NEW i \in 1..Len(tasks'), NEW j \in 1..Len(tasks'), tasks'[i] = tasks'[j]
        PROVE  i = j
    BY <1>1, <2>2 DEF NoTaskTwice
  <2>3. QED
    BY <1>1, <2>1, <2>2 DEF TasksTypeOK, NoTaskTwice
<1>3. ErrorQueued' => ErrorQueued
  BY <1>1 DEF ErrorQueued, Scheduler!IsQueued
<1>4. running' = "errorTask" => ErrorQueued /\ ~ ErrorQueued'
  <2>1. ASSUME NEW i \in 1..Len(tasks'), tasks'[i] = tasks[1]
        PROVE  FALSE
    BY <1>1, <2>1 DEF NoTaskTwice
  <2>2. QED
    BY <1>1, <2>1 DEF ErrorQueued, Scheduler!IsQueued
<1>5. QED
  BY <1>2, <1>3, <1>4
-----------------------------------------------------------------------------
(* The invariants hold at first, and every action keeps them. *)

\* The parts of TypeOK that the scheduler is not in.
QueueTypeOK ==
    /\ current \in 0..NumClients
    /\ queue \in [Clients -> Packets \cup {NoPacket}]
    /\ cancelMask \subseteq {c \in Clients : queue[c] # NoPacket}
    /\ scan \in 0..NumClients
    /\ air \in Packets \cup {NoPacket}
    /\ airCancelled \in BOOLEAN
    /\ report = <<>> \/ report \in Clients \X Packets \X {"SUCCESS", "FAIL", "ECANCEL"}
    /\ passedBy \in [Clients -> SUBSET Clients]

InStep == CurrentIsQueued /\ RadioHasCurrent /\ ErrorIsCurrent

IInv == QueueTypeOK /\ TasksTypeOK /\ NoTaskTwice /\ InStep /\ TurnInv

LEMMA IInvIsBoth == IInv <=> QueueInv /\ TurnInv
  BY DEF IInv, QueueInv, TypeOK, QueueTypeOK, TasksTypeOK, InStep

LEMMA CurrentClient ==
    ASSUME IInv, current # NumClients
    PROVE  current \in Clients /\ queue[current] \in Packets /\ current \notin cancelMask
  BY ClientNumbers DEF IInv, QueueTypeOK, InStep, CurrentIsQueued, Clients

LEMMA InitIInv == Init => IInv
<1> SUFFICES ASSUME Init PROVE IInv
  OBVIOUS
<1>1. QueueTypeOK /\ TasksTypeOK
  BY ClientNumbers DEF Init, QueueTypeOK, TasksTypeOK
<1>2. NoTaskTwice /\ ~ ErrorDue
  BY NoTaskAssumption DEF Init, NoTaskTwice, ErrorDue, ErrorQueued, Scheduler!IsQueued, Tasks
<1>3. InStep
  BY <1>2 DEF Init, InStep, CurrentIsQueued, RadioHasCurrent, ErrorIsCurrent, ErrorDue
<1>4. TurnInv
  BY DEF Init, TurnInv, Sendable, PassedAreBehind, Waiting
<1>5. QED
  BY <1>1, <1>2, <1>3, <1>4 DEF IInv

\* What an action that leaves the scheduler alone need not show of it.
LEMMA TasksUnchanged ==
    ASSUME IInv, UNCHANGED <<tasks, running>>
    PROVE  TasksTypeOK' /\ NoTaskTwice' /\ (ErrorQueued' <=> ErrorQueued) /\ (ErrorDue' <=> ErrorDue)
  BY DEF IInv, TasksTypeOK, NoTaskTwice, ErrorDue, ErrorQueued, Scheduler!IsQueued

LEMMA PassesType ==
    ASSUME passedBy \in [Clients -> SUBSET Clients], NEW d \in Clients, NEW q, Passes(d, q)
    PROVE  passedBy' \in [Clients -> SUBSET Clients]
  BY DEF Passes

LEMMA SendQueuedKeepsIInv ==
    ASSUME IInv, NEW c \in Clients, NEW p \in Packets, SendQueued(c, p)
    PROVE  IInv'
<1>1. /\ queue[c] = NoPacket /\ current # NumClients
      /\ queue' = [queue EXCEPT ![c] = p]
      /\ UNCHANGED <<current, cancelMask, tasks, running, scan, air, airCancelled, report, passedBy>>
  BY DEF SendQueued, taskVars, radioVars
<1>2. current \in Clients /\ c # current
  BY <1>1, CurrentClient, NoPacketAssumption
<1>3. QueueTypeOK'
  BY <1>1, NoPacketAssumption DEF IInv, QueueTypeOK
<1>4. InStep'
  BY <1>1, <1>2, TasksUnchanged
     DEF IInv, QueueTypeOK, InStep, CurrentIsQueued, RadioHasCurrent, ErrorIsCurrent
<1>5. passedBy[c] = {}
  BY <1>1 DEF IInv, TurnInv
<1>6. PassedAreBehind'
  BY <1>1, <1>5 DEF IInv, QueueTypeOK, TurnInv, PassedAreBehind, Waiting, Distance
<1>7. TurnInv'
  BY <1>1, <1>6 DEF IInv, QueueTypeOK, TurnInv
<1>8. QED
  BY <1>1, <1>3, <1>4, <1>7, TasksUnchanged DEF IInv

LEMMA SendDirectKeepsIInv ==
    ASSUME IInv, NEW c \in Clients, NEW p \in Packets, SendDirect(c, p)
    PROVE  IInv'
<1>1. /\ queue[c] = NoPacket /\ current = NumClients
      /\ queue' = [queue EXCEPT ![c] = p]
      /\ current' = c
      /\ air' = p /\ airCancelled' = FALSE
      /\ Passes(c, queue')
      /\ UNCHANGED <<cancelMask, tasks, running, scan, report>>
  BY DEF SendDirect, taskVars
<1>2. QueueTypeOK'
  <2>1. c \in 0..NumClients
    BY ClientNumbers DEF Clients
  <2>2. passedBy' \in [Clients -> SUBSET Clients]
    BY <1>1, PassesType DEF IInv, QueueTypeOK
  <2>3. QED
    BY <1>1, <2>1, <2>2, NoPacketAssumption DEF IInv, QueueTypeOK
<1>3. InStep'
  <2>1. ~ ErrorDue'
    BY <1>1, TasksUnchanged DEF IInv, InStep, ErrorIsCurrent
  <2>2. queue'[c] = p /\ c \notin cancelMask
    BY <1>1 DEF IInv, QueueTypeOK
  <2>3. QED
    BY <1>1, <2>1, <2>2, NoPacketAssumption, ClientNumbers
       DEF InStep, CurrentIsQueued, RadioHasCurrent, ErrorIsCurrent, ErrorDue
<1>4. \A d \in Clients : ~ Waiting(d)'
  BY <1>1 DEF IInv, QueueTypeOK, TurnInv, Sendable, Waiting
<1>5. TurnInv'
  BY <1>1, <1>4, ClientNumbers DEF TurnInv, PassedAreBehind, Passes
<1>6. QED
  BY <1>1, <1>2, <1>3, <1>5, TasksUnchanged DEF IInv

LEMMA CancelQueuedKeepsIInv ==
    ASSUME IInv, NEW c \in Clients, CancelQueued(c)
    PROVE  IInv'
<1>1. /\ queue[c] # NoPacket /\ current # c
      /\ cancelMask' = cancelMask \cup {c}
      /\ PostTask("CancelTask")
      /\ UNCHANGED <<current, queue, running, scan, air, airCancelled, report, passedBy>>
  BY DEF CancelQueued, radioVars
<1>2. TasksTypeOK' /\ NoTaskTwice' /\ (ErrorQueued' <=> ErrorQueued)
  BY <1>1, Posted DEF IInv, Tasks, TasksTypeOK
<1>3. QueueTypeOK'
  BY <1>1 DEF IInv, QueueTypeOK
<1>4. InStep'
  BY <1>1, <1>2 DEF IInv, InStep, CurrentIsQueued, RadioHasCurrent, ErrorIsCurrent, ErrorDue
<1>5. TurnInv'
  BY <1>1 DEF IInv, TurnInv, Sendable, PassedAreBehind, Waiting, Distance
<1>6. QED
  BY <1>2, <1>3, <1>4, <1>5 DEF IInv

LEMMA CancelCurrentKeepsIInv ==
    ASSUME IInv, NEW c \in Clients, CancelCurrent(c)
    PROVE  IInv'
<1>1. /\ queue[c] # NoPacket /\ current = c /\ air = queue[c]
      /\ airCancelled' = TRUE
      /\ UNCHANGED <<current, queue, cancelMask, tasks, running, scan, air, report, passedBy>>
  BY DEF CancelCurrent, queueVars, taskVars
<1>2. QueueTypeOK' /\ TurnInv'
  BY <1>1 DEF IInv, QueueTypeOK, TurnInv, Sendable, PassedAreBehind, Waiting, Distance
<1>3. InStep'
  BY <1>1, TasksUnchanged DEF IInv, InStep, CurrentIsQueued, RadioHasCurrent, ErrorIsCurrent
<1>4. QED
  BY <1>1, <1>2, <1>3, TasksUnchanged DEF IInv
-----------------------------------------------------------------------------
(* The end of a transmission, and the start of the next. *)

\* What is left when the packet of the current client has been taken out.
Rest == [queue EXCEPT ![current] = NoPacket]

\* The client that is next has a packet to send, and is the nearest one that has.
LEMMA NextToSend ==
    ASSUME IInv, current # NumClients
    PROVE  \/ nextPacket(Rest) = NumClients /\ Sendable(Rest) = {}
           \/ /\ nextPacket(Rest) \in Clients
              /\ Rest[nextPacket(Rest)] \in Packets
              /\ nextPacket(Rest) \notin cancelMask
              /\ \A d \in Sendable(Rest) :
                    Distance(current, nextPacket(Rest)) <= Distance(current, d)
<1>1. current \in Clients
  BY CurrentClient
<1>2. Sendable(Rest) \subseteq Clients
  BY DEF Sendable
<1>3. CASE Sendable(Rest) = {}
  BY <1>1, <1>2, <1>3, FirstAfter DEF nextPacket
<1>4. CASE Sendable(Rest) # {}
  <2>1. /\ nextPacket(Rest) \in Sendable(Rest)
        /\ \A d \in Sendable(Rest) :
              Distance(current, nextPacket(Rest)) <= Distance(current, d)
    BY <1>1, <1>2, <1>4, FirstAfter DEF nextPacket
  <2>2. Rest \in [Clients -> Packets \cup {NoPacket}]
    BY DEF IInv, QueueTypeOK, Rest
  <2> DEFINE next == nextPacket(Rest)
  <2>3. next \in Clients /\ Rest[next] # NoPacket /\ next \notin cancelMask
    BY <2>1 DEF Sendable
  <2>4. QED
    BY <2>1, <2>2, <2>3
<1>5. QED
  BY <1>3, <1>4

\* What sendDone does, by the client that is next.
LEMMA SendDoneStep ==
    ASSUME IInv, current # NumClients, NEW err, sendDone(err)
    PROVE  LET next == nextPacket(Rest)
           IN  /\ queue' = Rest
               /\ current' = next
               /\ airCancelled' = FALSE
               /\ report' = <<current, queue[current], err>>
               /\ UNCHANGED <<cancelMask, scan>>
               /\ \/ next = NumClients /\ air' = NoPacket /\ UNCHANGED <<tasks, passedBy>>
                  \/ next # NumClients /\ air' = Rest[next] /\ Passes(next, Rest) /\ UNCHANGED tasks
                  \/ next # NumClients /\ air' = NoPacket /\ Passes(next, Rest) /\ PostTask("errorTask")
  BY DEF sendDone, tryToSend, Rest

LEMMA SendDoneKeepsTurns ==
    ASSUME IInv, current # NumClients, NEW err, sendDone(err)
    PROVE  TurnInv'
<1> DEFINE next == nextPacket(Rest)
<1>1. /\ queue' = Rest /\ current' = next /\ cancelMask' = cancelMask
      /\ \/ next = NumClients /\ passedBy' = passedBy
         \/ next # NumClients /\ Passes(next, Rest)
  BY SendDoneStep
<1>2. current \in Clients
  BY CurrentClient
<1>3. \A c \in Clients : Rest[c] = NoPacket <=> queue[c] = NoPacket \/ c = current
  BY <1>2 DEF IInv, QueueTypeOK, Rest
<1>4. CASE next = NumClients
  <2>1. Sendable(queue)' = {} /\ passedBy' = passedBy
    BY <1>1, <1>4, NextToSend, ClientNumbers DEF Sendable
  <2>2. \A c \in Clients : queue'[c] = NoPacket \/ c = current' => passedBy'[c] = {}
    BY <1>1, <1>3, <1>4, <2>1, ClientNumbers DEF IInv, TurnInv
  <2>3. PassedAreBehind'
    BY <1>1, <2>1 DEF Sendable, PassedAreBehind, Waiting
  <2>4. QED
    BY <2>1, <2>2, <2>3 DEF TurnInv
<1>5. CASE next # NumClients
  <2>1. /\ next \in Clients
        /\ \A d \in Sendable(Rest) : Distance(current, next) <= Distance(current, d)
    BY <1>5, NextToSend
  <2>2. \A c \in Clients :
           passedBy'[c] = IF Rest[c] = NoPacket \/ c = next THEN {} ELSE passedBy[c] \cup {next}
    BY <1>1, <1>5 DEF Passes
  <2>3. ASSUME NEW c \in Clients, NEW d \in Clients, Waiting(c)', d \in passedBy'[c]
        PROVE  Distance(next, c) < Distance(next, d)
    <3>1. /\ Rest[c] # NoPacket /\ c \notin cancelMask /\ c # next
          /\ d \in passedBy[c] \/ d = next
      BY <1>1, <2>2, <2>3 DEF Waiting
    <3>2. c \in Sendable(Rest) /\ Waiting(c)
      BY <1>3, <3>1 DEF Sendable, Waiting
    <3>3. Distance(current, next) < Distance(current, c)
      <4>1. Distance(current, next) <= Distance(current, c)
        BY <2>1, <3>2
      <4>2. Distance(current, next) # Distance(current, c)
        BY <1>2, <2>1, <3>1, SameDistance
      <4>3. Distance(current, next) \in Nat /\ Distance(current, c) \in Nat
        BY <1>2, <2>1, DistanceInRing, ClientNumbers
      <4>4. QED
        BY <4>1, <4>2, <4>3
    <3>4. Distance(current, c) < Distance(current, d) \/ d = next
      BY <3>1, <3>2 DEF IInv, TurnInv, PassedAreBehind
    <3>5. QED
      BY <1>2, <2>1, <3>3, <3>4, DistanceFromNext
  <2>4. PassedAreBehind'
    BY <1>1, <2>3 DEF PassedAreBehind, Distance
  <2>5. QED
    BY <1>1, <1>5, <2>2, <2>4 DEF TurnInv
<1>6. QED
  BY <1>4, <1>5

\* The packet whose transmission ended was not waiting for an errorTask that is queued.
LEMMA SendDoneKeepsIInv ==
    ASSUME IInv, current # NumClients, NEW err \in {"SUCCESS", "FAIL", "ECANCEL"}, sendDone(err),
           ~ ErrorQueued, running' = NoTask
    PROVE  IInv'
<1> DEFINE next == nextPacket(Rest)
<1>1. /\ queue' = Rest /\ current' = next /\ airCancelled' = FALSE
      /\ report' = <<current, queue[current], err>>
      /\ UNCHANGED <<cancelMask, scan>>
      /\ \/ next = NumClients /\ air' = NoPacket /\ UNCHANGED <<tasks, passedBy>>
         \/ next # NumClients /\ air' = Rest[next] /\ Passes(next, Rest) /\ UNCHANGED tasks
         \/ next # NumClients /\ air' = NoPacket /\ Passes(next, Rest) /\ PostTask("errorTask")
  BY SendDoneStep
<1>2. current \in Clients /\ queue[current] \in Packets /\ current \notin cancelMask
  BY CurrentClient
<1>3. \/ next = NumClients
      \/ next \in Clients /\ next # NumClients /\ Rest[next] \in Packets /\ next \notin cancelMask
  BY NextToSend, ClientNumbers
<1> HIDE DEF next
<1>4. /\ TasksTypeOK' /\ NoTaskTwice'
      /\ ErrorQueued' => next # NumClients /\ air' = NoPacket
  <2>1. CASE UNCHANGED tasks
    BY <2>1 DEF IInv, TasksTypeOK, NoTaskTwice, ErrorQueued, Scheduler!IsQueued
  <2>2. CASE next # NumClients /\ air' = NoPacket /\ PostTask("errorTask")
    BY <2>2, Posted DEF IInv, Tasks, TasksTypeOK
  <2>3. QED
    BY <1>1, <2>1, <2>2
<1>5. QueueTypeOK'
  <2>1. current' \in 0..NumClients
    BY <1>1, <1>3, ClientNumbers DEF Clients
  <2>2. queue' \in [Clients -> Packets \cup {NoPacket}] /\ scan' \in 0..NumClients
    BY <1>1 DEF IInv, QueueTypeOK, Rest
  <2>3. cancelMask' \subseteq {c \in Clients : queue'[c] # NoPacket}
    BY <1>1, <1>2 DEF IInv, QueueTypeOK, Rest
  <2>4. air' \in Packets \cup {NoPacket} /\ airCancelled' \in BOOLEAN
    BY <1>1, <1>3
  <2>5. report' \in Clients \X Packets \X {"SUCCESS", "FAIL", "ECANCEL"}
    BY <1>1, <1>2
  <2>6. passedBy' \in [Clients -> SUBSET Clients]
    BY <1>1, <1>3, PassesType DEF IInv, QueueTypeOK
  <2>7. QED
    BY <2>1, <2>2, <2>3, <2>4, <2>5, <2>6 DEF QueueTypeOK
<1>6. InStep'
  <2>1. CurrentIsQueued' /\ RadioHasCurrent'
    BY <1>1, <1>3, NoPacketAssumption DEF CurrentIsQueued, RadioHasCurrent
  <2>2. ErrorIsCurrent'
    BY <1>1, <1>4, NoTaskAssumption DEF ErrorIsCurrent, ErrorDue, Tasks
  <2>3. QED
    BY <2>1, <2>2 DEF InStep
<1>7. QED
  BY <1>4, <1>5, <1>6, SendDoneKeepsTurns DEF IInv
LEMMA RadioSendDoneKeepsIInv ==
    ASSUME IInv, RadioSendDone
    PROVE  IInv'
<1>1. running' = NoTask /\ current # NumClients /\ ~ ErrorQueued
  BY DEF RadioSendDone, IInv, InStep, ErrorIsCurrent, ErrorDue
<1>2. PICK err \in {"SUCCESS", "FAIL", "ECANCEL"} : sendDone(err)
  BY DEF RadioSendDone
<1>3. QED
  BY <1>1, <1>2, SendDoneKeepsIInv

LEMMA errorTaskKeepsIInv ==
    ASSUME IInv, errorTask
    PROVE  IInv'
<1>1. running' = NoTask /\ current # NumClients /\ ~ ErrorQueued /\ sendDone("FAIL")
  BY DEF errorTask, IInv, InStep, ErrorIsCurrent, ErrorDue
<1>2. QED
  BY <1>1, SendDoneKeepsIInv

-----------------------------------------------------------------------------
(* The tasks. *)

LEMMA CancelTaskReportsKeepsIInv ==
    ASSUME IInv, CancelTaskReports
    PROVE  IInv'
<1>1. PICK c \in Clients :
        /\ c \in cancelMask
        /\ queue' = [queue EXCEPT ![c] = NoPacket]
        /\ cancelMask' = cancelMask \ {c}
        /\ report' = <<c, queue[c], "ECANCEL">>
        /\ passedBy' = [passedBy EXCEPT ![c] = {}]
        /\ scan' = c + 1
  BY DEF CancelTaskReports, NextCancelled
<1>2. UNCHANGED <<current, air, airCancelled, tasks, running>>
  BY DEF CancelTaskReports, radioVars
<1>3. queue[c] \in Packets /\ c # current
  BY <1>1 DEF IInv, QueueTypeOK, InStep, CurrentIsQueued, Clients
<1>4. QueueTypeOK'
  BY <1>1, <1>2, <1>3, ClientNumbers DEF IInv, QueueTypeOK
<1>5. InStep'
  BY <1>1, <1>2, <1>3, TasksUnchanged
     DEF IInv, QueueTypeOK, InStep, CurrentIsQueued, RadioHasCurrent, ErrorIsCurrent
<1>6. TurnInv'
  <2>1. \A d \in Clients : /\ queue'[d] = IF d = c THEN NoPacket ELSE queue[d]
                           /\ passedBy'[d] = IF d = c THEN {} ELSE passedBy[d]
    BY <1>1 DEF IInv, QueueTypeOK
  <2>2. Sendable(queue)' = Sendable(queue)
    BY <1>1, <2>1 DEF Sendable
  <2>3. PassedAreBehind'
    BY <1>1, <1>2, <2>1 DEF IInv, TurnInv, PassedAreBehind, Waiting, Distance
  <2>4. QED
    BY <1>2, <2>1, <2>2, <2>3 DEF IInv, TurnInv
<1>7. QED
  BY <1>2, <1>4, <1>5, <1>6, TasksUnchanged DEF IInv

LEMMA QueueUnchanged ==
    ASSUME IInv, UNCHANGED <<queueVars, radioVars, report, passedBy>>, scan' \in 0..NumClients
    PROVE  QueueTypeOK' /\ CurrentIsQueued' /\ RadioHasCurrent' /\ TurnInv'
  BY DEF queueVars, radioVars, IInv, QueueTypeOK, InStep, CurrentIsQueued, RadioHasCurrent,
         TurnInv, Sendable, PassedAreBehind, Waiting, Distance

LEMMA CancelTaskEndsKeepsIInv ==
    ASSUME IInv, CancelTaskEnds
    PROVE  IInv'
<1>1. /\ running' = NoTask /\ UNCHANGED <<queueVars, radioVars, tasks, report, passedBy>>
      /\ scan' \in 0..NumClients
  BY ClientNumbers DEF CancelTaskEnds
<1>2. TasksTypeOK' /\ NoTaskTwice' /\ (ErrorQueued' <=> ErrorQueued)
  BY <1>1 DEF IInv, TasksTypeOK, NoTaskTwice, ErrorQueued, Scheduler!IsQueued
<1>3. ErrorIsCurrent'
  BY <1>1, <1>2, NoTaskAssumption
     DEF IInv, InStep, ErrorIsCurrent, ErrorDue, Tasks, queueVars, radioVars
<1>4. QED
  BY <1>1, <1>2, <1>3, QueueUnchanged DEF IInv, InStep

LEMMA RunNextTaskKeepsIInv ==
    ASSUME IInv, RunNextTask
    PROVE  IInv'
<1>1. /\ Scheduler!Start /\ UNCHANGED <<queueVars, radioVars, report, passedBy>>
      /\ scan' \in 0..NumClients
  BY DEF RunNextTask, IInv, QueueTypeOK
<1>2. /\ TasksTypeOK' /\ NoTaskTwice'
      /\ ErrorQueued' => ErrorQueued
      /\ running' = "errorTask" => ErrorQueued /\ ~ ErrorQueued'
  BY <1>1, Started DEF IInv
<1>3. ErrorIsCurrent'
  BY <1>1, <1>2 DEF IInv, InStep, ErrorIsCurrent, ErrorDue, queueVars, radioVars
<1>4. QED
  BY <1>1, <1>2, <1>3, QueueUnchanged DEF IInv, InStep

LEMMA StutterKeepsIInv ==
    ASSUME IInv, UNCHANGED vars
    PROVE  IInv'
<1>1. UNCHANGED <<queueVars, radioVars, report, passedBy, tasks, running, scan>>
  BY DEF vars, taskVars
<1>2. scan' \in 0..NumClients
  BY <1>1 DEF IInv, QueueTypeOK
<1>3. ErrorIsCurrent'
  BY <1>1, TasksUnchanged DEF IInv, InStep, ErrorIsCurrent, queueVars, radioVars
<1>4. QED
  BY <1>1, <1>2, <1>3, TasksUnchanged, QueueUnchanged DEF IInv, InStep

LEMMA NextKeepsIInv == IInv /\ [Next]_vars => IInv'
<1> SUFFICES ASSUME IInv, [Next]_vars PROVE IInv'
  OBVIOUS
<1>1. ASSUME NEW c \in Clients, ClientCall(c)
      PROVE  IInv'
  BY <1>1, SendQueuedKeepsIInv, SendDirectKeepsIInv, CancelQueuedKeepsIInv,
     CancelCurrentKeepsIInv DEF ClientCall
<1>2. CASE RadioSendDone
  BY <1>2, RadioSendDoneKeepsIInv
<1>3. CASE RunNextTask
  BY <1>3, RunNextTaskKeepsIInv
<1>4. CASE TaskStep
  BY <1>4, errorTaskKeepsIInv, CancelTaskReportsKeepsIInv, CancelTaskEndsKeepsIInv DEF TaskStep
<1>5. CASE UNCHANGED vars
  BY <1>5, StutterKeepsIInv
<1>6. QED
  BY <1>1, <1>2, <1>3, <1>4, <1>5 DEF Next
(***************************************************************************)
(* A task is queued once; the current packet is in the queue, and it is in *)
(* the radio or errorTask will report it; and who waits is before those it *)
(* has let pass (AMQueueImplP.nc:65-205).                                  *)
(***************************************************************************)
THEOREM QueueInvariant == Spec => [](QueueInv /\ TurnInv)
<1>1. Spec => []IInv
  BY InitIInv, NextKeepsIInv, PTL DEF Spec
<1>2. QED
  BY <1>1, IInvIsBoth, PTL

(***************************************************************************)
(* Every variable keeps its type.                                          *)
(***************************************************************************)
THEOREM TypeCorrect == Spec => []TypeOK
<1>1. QueueInv => TypeOK
  BY DEF QueueInv
<1>2. QED
  BY <1>1, QueueInvariant, PTL

-----------------------------------------------------------------------------
(* The queue implements SendQueue: each action is one of its steps, or none. *)

Cancelled == cancelMask \cup (IF airCancelled THEN {current} ELSE {})

LEMMA InitImplements == Init => Abstract!Init
  BY DEF Init, Abstract!Init

LEMMA SendImplements ==
    ASSUME IInv, NEW c \in Clients, NEW p \in Packets, SendQueued(c, p) \/ SendDirect(c, p)
    PROVE  Abstract!Accept(c, p)
<1>1. /\ queue[c] = NoPacket /\ queue' = [queue EXCEPT ![c] = p]
      /\ UNCHANGED <<cancelMask, report>>
  BY DEF SendQueued, SendDirect
<1>2. UNCHANGED Cancelled
  <2>1. CASE SendQueued(c, p)
    BY <2>1 DEF SendQueued, radioVars, Cancelled
  <2>2. CASE SendDirect(c, p)
    <3>1. ~ airCancelled
      BY <2>2 DEF SendDirect, IInv, InStep, RadioHasCurrent
    <3>2. QED
      BY <2>2, <3>1 DEF SendDirect, Cancelled
  <2>3. QED
    BY <2>1, <2>2
<1>3. QED
  BY <1>1, <1>2 DEF Abstract!Accept, Cancelled

LEMMA CancelImplements ==
    ASSUME IInv, NEW c \in Clients, CancelQueued(c) \/ CancelCurrent(c)
    PROVE  Abstract!Cancel(c)
<1>1. CASE CancelQueued(c)
  BY <1>1 DEF CancelQueued, radioVars, Abstract!Cancel
<1>2. CASE CancelCurrent(c)
  BY <1>2 DEF CancelCurrent, queueVars, Abstract!Cancel
<1>3. QED
  BY <1>1, <1>2

\* A sendDone reports ECANCEL if the cancel of the packet in the radio succeeded.
LEMMA SendDoneImplements ==
    ASSUME IInv, current # NumClients, NEW err, sendDone(err), err = "ECANCEL" <=> airCancelled
    PROVE  Abstract!Report(current, err)
<1>1. /\ queue' = Rest /\ airCancelled' = FALSE
      /\ report' = <<current, queue[current], err>> /\ cancelMask' = cancelMask
  BY SendDoneStep
<1>2. current \in Clients /\ queue[current] # NoPacket /\ current \notin cancelMask
  BY CurrentClient, NoPacketAssumption
<1>3. err = "ECANCEL" <=> current \in Cancelled
  BY <1>2 DEF Cancelled
<1>4. Cancelled' = Cancelled \ {current}
  BY <1>1, <1>2 DEF Cancelled
<1>5. QED
  BY <1>1, <1>2, <1>3, <1>4 DEF Abstract!Report, Cancelled, Rest

LEMMA ReportImplements ==
    ASSUME IInv, RadioSendDone \/ errorTask
    PROVE  \E c \in Clients : \E err \in Abstract!Errors : Abstract!Report(c, err)
<1>1. CASE RadioSendDone
  <2>1. PICK err \in (IF airCancelled THEN {"ECANCEL"} ELSE {"SUCCESS", "FAIL"}) : sendDone(err)
    BY <1>1 DEF RadioSendDone
  <2>2. err \in Abstract!Errors /\ (err = "ECANCEL" <=> airCancelled)
    BY <2>1 DEF Abstract!Errors
  <2>3. QED
    BY <1>1, <2>1, <2>2, SendDoneImplements, CurrentClient DEF RadioSendDone
<1>2. CASE errorTask
  <2>1. current # NumClients /\ ~ airCancelled /\ sendDone("FAIL")
    BY <1>2 DEF errorTask, IInv, InStep, ErrorIsCurrent, ErrorDue, RadioHasCurrent
  <2>2. QED
    BY <2>1, SendDoneImplements, CurrentClient DEF Abstract!Errors
<1>3. QED
  BY <1>1, <1>2

LEMMA CancelTaskImplements ==
    ASSUME IInv, CancelTaskReports
    PROVE  \E c \in Clients : Abstract!Report(c, "ECANCEL")
<1>1. PICK c \in Clients :
        /\ c \in cancelMask
        /\ queue' = [queue EXCEPT ![c] = NoPacket]
        /\ cancelMask' = cancelMask \ {c}
        /\ report' = <<c, queue[c], "ECANCEL">>
  BY DEF CancelTaskReports, NextCancelled
<1>2. UNCHANGED <<current, airCancelled>>
  BY DEF CancelTaskReports, radioVars
<1>3. queue[c] # NoPacket
  BY <1>1 DEF IInv, QueueTypeOK
<1>4. Cancelled' = Cancelled \ {c}
  <2>1. c # current
    BY <1>1, ClientNumbers DEF IInv, InStep, CurrentIsQueued
  <2>2. QED
    BY <1>1, <1>2, <2>1 DEF Cancelled
<1>5. QED
  BY <1>1, <1>3, <1>4 DEF Abstract!Report, Cancelled

LEMMA NextImplements ==
    IInv /\ [Next]_vars => [Abstract!Next]_(Abstract!vars)
<1> SUFFICES ASSUME IInv, [Next]_vars PROVE Abstract!Next \/ UNCHANGED Abstract!vars
  OBVIOUS
<1>1. ASSUME NEW c \in Clients, ClientCall(c)
      PROVE  Abstract!Next
  BY <1>1, SendImplements, CancelImplements DEF ClientCall, Abstract!Next
<1>2. CASE RadioSendDone \/ errorTask
  BY <1>2, ReportImplements DEF Abstract!Next
<1>3. CASE CancelTaskReports
  BY <1>3, CancelTaskImplements DEF Abstract!Next, Abstract!Errors
<1>4. CASE CancelTaskEnds \/ RunNextTask \/ UNCHANGED vars
  BY <1>4 DEF CancelTaskEnds, RunNextTask, vars, queueVars, radioVars, Abstract!vars
<1>5. QED
  BY <1>1, <1>2, <1>3, <1>4 DEF Next, TaskStep

(***************************************************************************)
(* The queue keeps the promise of SendQueue: one sendDone for each packet, *)
(* with ECANCEL if and only if its cancel returned SUCCESS                 *)
(* (AMQueueImplP.nc:81-205).                                               *)
(***************************************************************************)
THEOREM Implements == Spec => ImplementsSendQueue
<1>1. Spec => []IInv
  BY InitIInv, NextKeepsIInv, PTL DEF Spec
<1>2. QED
  BY <1>1, InitImplements, NextImplements, PTL DEF Spec, ImplementsSendQueue, Abstract!Spec
-----------------------------------------------------------------------------
(* Turns are fair. *)

LEMMA SendDoneGivesNoSecondTurn ==
    ASSUME IInv, current # NumClients, NEW err, sendDone(err),
           NEW c \in Clients, NEW d \in Clients, Waiting(c), d \in passedBy[c]
    PROVE  current' # d
<1> DEFINE next == nextPacket(Rest)
<1>1. current' = next
  BY SendDoneStep
<1>2. current \in Clients /\ c \in Sendable(Rest)
  BY CurrentClient DEF Waiting, Sendable, Rest, IInv, QueueTypeOK
<1>3. CASE next = NumClients
  BY <1>1, <1>3, ClientNumbers
<1>4. CASE next # NumClients
  <2>1. next \in Clients /\ Distance(current, next) <= Distance(current, c)
    BY <1>2, <1>4, NextToSend
  <2>2. Distance(current, c) < Distance(current, d)
    BY DEF IInv, TurnInv, PassedAreBehind
  <2>3. /\ Distance(current, next) \in Nat /\ Distance(current, c) \in Nat
        /\ Distance(current, d) \in Nat
    BY <1>2, <2>1, DistanceInRing, ClientNumbers
  <2>4. Distance(current, next) # Distance(current, d)
    BY <2>1, <2>2, <2>3
  <2>5. QED
    BY <1>1, <2>4
<1>5. QED
  BY <1>3, <1>4

LEMMA NextGivesNoSecondTurn ==
    ASSUME IInv, [Next]_vars, NEW c \in Clients, NEW d \in Clients, Waiting(c), d \in passedBy[c]
    PROVE  ~ (current' = d /\ current # d)
<1>1. current # NumClients
  BY DEF IInv, TurnInv, Sendable, Waiting
<1>2. ASSUME NEW b \in Clients, ClientCall(b)
      PROVE  current' = current
  BY <1>1, <1>2 DEF ClientCall, SendQueued, SendDirect, CancelQueued, CancelCurrent, queueVars
<1>3. CASE RadioSendDone \/ errorTask
  BY <1>1, <1>3, SendDoneGivesNoSecondTurn DEF RadioSendDone, errorTask
<1>4. CASE CancelTaskReports \/ CancelTaskEnds \/ RunNextTask \/ UNCHANGED vars
  BY <1>4 DEF CancelTaskReports, CancelTaskEnds, RunNextTask, vars, queueVars
<1>5. QED
  BY <1>2, <1>3, <1>4 DEF Next, TaskStep

(***************************************************************************)
(* Fair share (TEP 116): no client is given the radio twice while the      *)
(* packet of another waits (AMQueueImplP.nc:65-79, 163-187).               *)
(***************************************************************************)
THEOREM FairShare == Spec => NoSecondTurn
<1>1. Spec => []IInv
  BY InitIInv, NextKeepsIInv, PTL DEF Spec
<1>2. IInv /\ [Next]_vars =>
        [\A c, d \in Clients :
            Waiting(c) /\ d \in passedBy[c] => ~ (current' = d /\ current # d)]_vars
  BY NextGivesNoSecondTurn
<1>3. QED
  BY <1>1, <1>2, PTL DEF Spec, NoSecondTurn
=============================================================================
