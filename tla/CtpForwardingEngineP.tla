------------------------ MODULE CtpForwardingEngineP ------------------------
(***************************************************************************)
(* The forwarding engine of the collection tree protocol on one node,      *)
(* tos/lib/net/ctp/CtpForwardingEngineP.nc, with its send queue (QueueC),  *)
(* its pools of messages and of queue entries (PoolP) and the cache of the *)
(* packets it has forwarded (LruCtpMsgCacheP).  The routing engine, the    *)
(* radio below and the neighbours are the environment.                     *)
(*                                                                         *)
(* A packet of a client is known by the client, a forwarded one by the     *)
(* buffer it is in; what is in the buffer is an instance of a packet.  The *)
(* radio takes one packet at a time, and refuses it only when it is not    *)
(* on.  No packet is too long, the engine is started, so that a send fails *)
(* only when the client is busy.  What a client does in its sendDone is as *)
(* a call right after it.  A node becomes root only when the radio has no  *)
(* packet of this engine: a timer that runs meanwhile clears SENDING, and  *)
(* sendTask would take the packet for sent while the radio has it.         *)
(***************************************************************************)
EXTENDS Integers, FiniteSets, Sequences, SequencesExt

CONSTANTS Clients,
          Entries,      \* the pool of queue entries: FORWARD_COUNT of them
          Buffers,      \* the pool of messages, and the radio's receive buffer
          Instances,    \* the packets that neighbours forward to this node
          CacheSize, MaxRetries,
          Changes       \* a bound on how often the node becomes root or ceases to be

ASSUME EntriesAssumption ==
    /\ IsFiniteSet(Entries) /\ IsFiniteSet(Buffers)
    /\ Cardinality(Buffers) = Cardinality(Entries) + 1
ASSUME CacheAssumption == CacheSize \in Nat \ {0} /\ MaxRetries \in Nat \ {0}
ASSUME ChangesAssumption == Changes \in Nat

NoPacket == "none"

ASSUME NamesAssumption == Clients \cap Entries = {} /\ NoPacket \notin Clients \cup Buffers

\* What a free entry was last used for is not kept: nothing looks at it.
FreeEntry == [msg |-> NoPacket, packet |-> NoPacket, retries |-> 0]

VARIABLES
    SENDING, ACK_PENDING, RADIO_ON,   \* the bits of forwardingState
    clientPtrs,     \* the clients that are idle, whose queue entry is free
    QEntryPool, MessagePool,
    SendQueue,      \* entries; that of a client is the client
    qe,             \* qe[e]: the message of entry e, the packet in it, the retries left
    cache,          \* the instances forwarded last
    sendTask,       \* it is posted
    RetxmitTimer,   \* it is running
    \* the environment:
    isRoot, hasRoute,
    changes,        \* the times the node has become root or ceased to be
    power,          \* of the radio: "off", "on" or "stopping"
    radio,          \* the packet the radio is to send, or NoPacket
    received,       \* the buffer it receives into
    report          \* the last sendDone to a client: the client, the packet, the error

engineVars == <<SENDING, ACK_PENDING, RADIO_ON, clientPtrs, QEntryPool, MessagePool,
                SendQueue, qe, cache, sendTask, RetxmitTimer>>
vars == <<engineVars, isRoot, hasRoute, changes, power, radio, received, report>>

poolVars == <<clientPtrs, QEntryPool, MessagePool, qe, cache, report>>

Init ==
    /\ SENDING = FALSE /\ ACK_PENDING = FALSE /\ RADIO_ON = FALSE
    /\ clientPtrs = Clients
    /\ QEntryPool = SetToSeq(Entries)
    /\ received = CHOOSE b \in Buffers : TRUE
    /\ MessagePool = SetToSeq(Buffers \ {received})
    /\ SendQueue = <<>>
    /\ qe = [e \in Clients \cup Entries |-> FreeEntry]
    /\ cache = <<>>
    /\ sendTask = FALSE /\ RetxmitTimer = FALSE
    /\ isRoot \in BOOLEAN /\ hasRoute = isRoot /\ changes = 0
    /\ power = "off" /\ radio = NoPacket
    /\ report = <<>>

QueueSize == Cardinality(Clients) + Cardinality(Entries)
Put(pool, x, size) == IF Len(pool) < size THEN Append(pool, x) ELSE pool

-----------------------------------------------------------------------------
\* Send.send of a client that is not busy.
Send(c) ==
    /\ c \in clientPtrs
    /\ Len(SendQueue) < QueueSize
    /\ qe' = [qe EXCEPT ![c] = [msg |-> c, packet |-> c, retries |-> MaxRetries]]
    /\ SendQueue' = Append(SendQueue, c)
    /\ sendTask' = (sendTask \/ (RADIO_ON /\ ~ SENDING))
    /\ clientPtrs' = clientPtrs \ {c}
    /\ UNCHANGED <<SENDING, ACK_PENDING, RADIO_ON, QEntryPool, MessagePool, cache,
                   RetxmitTimer, isRoot, hasRoute, changes, power, radio, received,
                   report>>

\* Slip: nothing goes.
InsertedAlways(i) == Append(cache, i)

\* Cache.insert: the least recently inserted goes when the cache is full.
Inserted(i) ==
    IF Len(cache) < CacheSize THEN Append(cache, i)
    ELSE Append(IF Contains(cache, i) THEN Remove(cache, i) ELSE Tail(cache), i)

packetComplete(e, success) ==
    /\ qe' = [qe EXCEPT ![e] = FreeEntry]
    /\ \/ /\ e \in Clients
          /\ clientPtrs' = clientPtrs \cup {e}
          /\ report' = <<e, qe[e].msg, "SUCCESS">>
          /\ UNCHANGED <<QEntryPool, MessagePool, cache>>
       \/ /\ e \in Entries
          /\ MessagePool' = Put(MessagePool, qe[e].msg, Cardinality(Entries))
          /\ QEntryPool' = Put(QEntryPool, e, Cardinality(Entries))
          /\ cache' = IF success THEN Inserted(qe[e].packet) ELSE cache
          /\ UNCHANGED <<clientPtrs, report>>

\* The packet leaves the queue: it was acknowledged, or is dropped.
Dequeued(e, success) ==
    SendQueue' = Tail(SendQueue) /\ SENDING' = FALSE /\ packetComplete(e, success)

\* The packet at the head was not acknowledged: it is retried, or dropped.
RetryOrDrop(e) ==
    \/ /\ qe[e].retries > 1
       /\ qe' = [qe EXCEPT ![e].retries = @ - 1]
       /\ UNCHANGED <<SENDING, SendQueue, clientPtrs, QEntryPool, MessagePool, cache, report>>
    \/ qe[e].retries = 1 /\ Dequeued(e, FALSE)

\* SubSend.sendDone, which takes the packet for the one at the head of the queue.
SubSendDone(e, error, acked) ==
    /\ RetxmitTimer' = TRUE
    /\ \/ error # "SUCCESS" /\ UNCHANGED <<SENDING, SendQueue, poolVars>>
       \/ error = "SUCCESS" /\ ACK_PENDING /\ ~ acked /\ RetryOrDrop(e)
       \/ error = "SUCCESS" /\ (acked \/ ~ ACK_PENDING) /\ Dequeued(e, TRUE)

-----------------------------------------------------------------------------
(* The cases of the task sendTask.  It also drops a packet that is in the  *)
(* cache, which never happens: NoPacketTwice.                              *)

RunsSendTask == sendTask /\ ~ SENDING /\ SendQueue # <<>>
HeadEntry == Head(SendQueue)
CanRoute == isRoot \/ hasRoute

SendTaskIdle ==
    /\ sendTask /\ (SENDING \/ SendQueue = <<>>)
    /\ sendTask' = FALSE
    /\ UNCHANGED <<SENDING, ACK_PENDING, RADIO_ON, SendQueue, poolVars, RetxmitTimer,
                   isRoot, hasRoute, changes, power, radio, received>>

SendTaskNoRoute ==
    /\ RunsSendTask /\ ~ CanRoute
    /\ RetxmitTimer' = TRUE
    /\ sendTask' = FALSE
    /\ UNCHANGED <<SENDING, ACK_PENDING, RADIO_ON, SendQueue, poolVars,
                   isRoot, hasRoute, changes, power, radio, received>>

\* A root receives a copy of its packet, and calls sendDone itself.  Whether the packet
\* counts as acknowledged is what its metadata says, which nothing has set.
SendTaskRoot ==
    /\ RunsSendTask /\ CanRoute /\ isRoot
    /\ sendTask' = FALSE
    /\ \E acked \in BOOLEAN : SubSendDone(HeadEntry, "SUCCESS", acked)
    /\ UNCHANGED <<ACK_PENDING, RADIO_ON, isRoot, hasRoute, changes, power, radio, received>>

\* SubSend.send returns SUCCESS.
Submits == power = "on" /\ radio = NoPacket

SendTaskSends ==
    /\ RunsSendTask /\ CanRoute /\ ~ isRoot
    /\ sendTask' = FALSE
    /\ ACK_PENDING' = TRUE
    /\ IF Submits THEN radio' = qe[HeadEntry].msg /\ SENDING' = TRUE
       ELSE UNCHANGED <<radio, SENDING>>
    /\ UNCHANGED <<RADIO_ON, SendQueue, poolVars, RetxmitTimer, isRoot, hasRoute, changes,
                   power, received>>

-----------------------------------------------------------------------------
\* The radio signals sendDone of its packet; not sent when it was switched off.
SendDone(error, acked) ==
    /\ radio # NoPacket
    /\ power # "on" => error = "FAIL"
    /\ radio' = NoPacket
    /\ SubSendDone(HeadEntry, error, acked)
    /\ UNCHANGED <<ACK_PENDING, RADIO_ON, sendTask, isRoot, hasRoute, changes, power,
                   received>>

\* Slip: the timer leaves it to others to post the task.
RetxmitTimerFiredIdly ==
    /\ RetxmitTimer
    /\ RetxmitTimer' = FALSE
    /\ SENDING' = FALSE
    /\ UNCHANGED <<ACK_PENDING, RADIO_ON, SendQueue, poolVars, sendTask, isRoot, hasRoute,
                   changes, power, radio, received>>

RetxmitTimerFired ==
    /\ RetxmitTimer
    /\ RetxmitTimer' = FALSE
    /\ SENDING' = FALSE
    /\ sendTask' = TRUE
    /\ UNCHANGED <<ACK_PENDING, RADIO_ON, SendQueue, poolVars, isRoot, hasRoute, changes,
                   power, radio, received>>

-----------------------------------------------------------------------------
\* Slip: the head of the queue is not looked at.
QueuedBehindHead(i) ==
    \E k \in 2..Len(SendQueue) : SendQueue[k] \in Entries /\ qe[SendQueue[k]].packet = i

Queued(i) == \E e \in Range(SendQueue) : e \in Entries /\ qe[e].packet = i

(***************************************************************************)
(* SubReceive.receive of a packet that is to be forwarded.  The buffer it  *)
(* is in stays, and the radio gets another of the pool.  A loop is seen    *)
(* when the metric of the sender is no larger than that of this node.      *)
(***************************************************************************)
Forward(i, looped) ==
    /\ power = "on" /\ ~ isRoot
    /\ ~ Contains(cache, i) /\ ~ Queued(i)
    /\ MessagePool # <<>> /\ QEntryPool # <<>>
    /\ looped => hasRoute
    /\ LET e == Head(QEntryPool) IN
       /\ qe' = [qe EXCEPT ![e] = [msg |-> received, packet |-> i, retries |-> MaxRetries]]
       /\ SendQueue' = Append(SendQueue, e)
    /\ received' = Head(MessagePool)
    /\ QEntryPool' = Tail(QEntryPool) /\ MessagePool' = Tail(MessagePool)
    /\ RetxmitTimer' = (RetxmitTimer \/ looped)
    /\ sendTask' = (sendTask \/ ~ (RetxmitTimer \/ looped))
    /\ UNCHANGED <<SENDING, ACK_PENDING, RADIO_ON, clientPtrs, cache, isRoot, hasRoute,
                   changes, power, radio, report>>

-----------------------------------------------------------------------------
(* The radio and the routing engine.                                       *)

Goes(on, to) ==
    /\ power' = to /\ RADIO_ON' = on
    /\ UNCHANGED <<SENDING, ACK_PENDING, SendQueue, poolVars, RetxmitTimer, isRoot, hasRoute,
                   changes, radio, received>>

RadioStartDone ==
    /\ power = "off"
    /\ Goes(TRUE, "on")
    /\ sendTask' = (sendTask \/ SendQueue # <<>>)

RadioStops == power = "on" /\ Goes(RADIO_ON, "stopping") /\ UNCHANGED sendTask

RadioStopDone ==
    power = "stopping" /\ radio = NoPacket /\ Goes(FALSE, "off") /\ UNCHANGED sendTask

routingVars ==
    <<SENDING, ACK_PENDING, RADIO_ON, SendQueue, poolVars, RetxmitTimer, power, radio, received>>

\* updateRouteTask signals routeFound when it had no metric: there was no parent, or the
\* parent has no route itself any more and another takes its place.
RouteFound ==
    /\ ~ isRoot /\ hasRoute' = TRUE
    /\ sendTask' = TRUE
    /\ UNCHANGED <<routingVars, isRoot, changes>>

\* LinkEstimator.evicted of the parent.
RouteLost ==
    /\ ~ isRoot /\ hasRoute' = FALSE
    /\ UNCHANGED <<routingVars, sendTask, isRoot, changes>>

\* After it updateRouteTask finds another parent, and signals nothing.
RouteReplaced ==
    /\ ~ isRoot /\ hasRoute' = TRUE
    /\ UNCHANGED <<routingVars, sendTask, isRoot, changes>>

\* RootControl.setRoot signals routeFound if there was no route.
SetRoot ==
    /\ ~ isRoot /\ changes < Changes /\ radio = NoPacket
    /\ isRoot' = TRUE /\ hasRoute' = TRUE
    /\ sendTask' = (sendTask \/ ~ hasRoute)
    /\ changes' = changes + 1
    /\ UNCHANGED routingVars

UnsetRoot ==
    /\ isRoot /\ changes < Changes
    /\ isRoot' = FALSE /\ hasRoute' = FALSE
    /\ changes' = changes + 1
    /\ UNCHANGED <<routingVars, sendTask>>

-----------------------------------------------------------------------------
SendTask == SendTaskIdle \/ SendTaskNoRoute \/ SendTaskRoot \/ SendTaskSends

AnySendDone == \E error \in {"SUCCESS", "FAIL"}, acked \in BOOLEAN : SendDone(error, acked)

Next ==
    \/ \E c \in Clients : Send(c)
    \/ SendTask
    \/ AnySendDone
    \/ RetxmitTimerFired
    \/ \E i \in Instances, looped \in BOOLEAN : Forward(i, looped)
    \/ RadioStartDone \/ RadioStops \/ RadioStopDone
    \/ RouteFound \/ RouteLost \/ RouteReplaced \/ SetRoot \/ UnsetRoot

Spec == Init /\ [][Next]_vars

(***************************************************************************)
(* Tasks run, the timer fires, the radio completes what it takes and does  *)
(* not fail for ever.  A radio that is off is switched on again, a route   *)
(* that is missing comes back while it is on, signaled or not, and the two *)
(* last together, again and again, until the timer has fired and the task  *)
(* has sent.  Nobody need post the task but the engine while there is one. *)
(***************************************************************************)
RouteReturns == ~ hasRoute /\ (RouteFound \/ RouteReplaced)

Fairness ==
    /\ WF_vars(SendTask) /\ WF_vars(RetxmitTimerFired) /\ WF_vars(AnySendDone)
    /\ SF_vars(\E acked \in BOOLEAN : SendDone("SUCCESS", acked))
    /\ SF_vars(SendTaskRoot \/ (SendTaskSends /\ Submits))
    /\ SF_vars(RetxmitTimerFired /\ CanRoute /\ power = "on")
    /\ WF_vars(RadioStartDone) /\ WF_vars(RadioStopDone)
    /\ SF_vars(RouteReturns /\ power = "on")

FairSpec == Spec /\ Fairness

-----------------------------------------------------------------------------
\* The variables have their types.
TypeOK ==
    /\ {SENDING, ACK_PENDING, RADIO_ON, sendTask, RetxmitTimer, isRoot, hasRoute} \subseteq BOOLEAN
    /\ clientPtrs \subseteq Clients
    /\ QEntryPool \in Seq(Entries) /\ MessagePool \in Seq(Buffers)
    /\ SendQueue \in Seq(Clients \cup Entries)
    /\ qe \in [Clients \cup Entries -> [msg : Clients \cup Buffers \cup {NoPacket},
                                        packet : Clients \cup Instances \cup {NoPacket},
                                        retries : 0..MaxRetries]]
    /\ cache \in Seq(Instances) /\ Len(cache) <= CacheSize
    /\ changes \in 0..Changes
    /\ power \in {"off", "on", "stopping"}
    /\ radio \in Clients \cup Buffers \cup {NoPacket}
    /\ received \in Buffers

\* The entries in the queue, and the messages that they point at.
Forwarded == Range(SendQueue) \cap Entries
ForwardedMessages == {qe[e].msg : e \in Forwarded}

\* No queue entry and no buffer is lost, or in two places at once: each entry of the
\* pool is in the pool or in the queue, and each message in its pool, in the queue or
\* in the hands of the radio; a client has its entry back or is in the queue.
NothingLost ==
    /\ IsInjective(SendQueue) /\ Range(SendQueue) \cap Clients = Clients \ clientPtrs
    /\ IsInjective(QEntryPool) /\ Range(QEntryPool) = Entries \ Forwarded
    /\ \A e, f \in Forwarded : qe[e].msg = qe[f].msg => e = f
    /\ ForwardedMessages \subseteq Buffers \ {received}
    /\ IsInjective(MessagePool)
    /\ Range(MessagePool) = Buffers \ (ForwardedMessages \cup {received})

\* A packet is in the queue once, and not when it is in the cache: what a neighbour
\* sends again after a lost acknowledgement is not forwarded again meanwhile.
NoPacketTwice ==
    /\ \A e, f \in Forwarded : qe[e].packet = qe[f].packet => e = f
    /\ IsInjective(cache)
    /\ \A e \in Forwarded : ~ Contains(cache, qe[e].packet)

\* Both, and what the radio sends is the packet that its sendDone is taken for, the
\* head of the queue: the buffer that sendDone frees is not one the radio reads.
BuffersAccounted ==
    /\ NothingLost
    /\ NoPacketTwice
    /\ radio # NoPacket => SendQueue # <<>> /\ radio = qe[HeadEntry].msg

\* What a client sends is reported to it, once: as in SendQueue, where a packet is
\* pending from its send to its sendDone; and it is reported, retries, lost routes,
\* loops and a radio that goes on and off notwithstanding.
Abstract ==
    INSTANCE SendQueue WITH
        Packets <- Clients, cancelled <- {},
        pending <- [c \in Clients |-> IF c \in clientPtrs THEN NoPacket ELSE c]

EveryPacketReportedOnce ==
    Abstract!Spec /\ \A c \in Clients : c \notin clientPtrs ~> c \in clientPtrs
=============================================================================
