---------------------- MODULE SimpleRoundRobinArbiterC ----------------------
(***************************************************************************)
(* tos/system/SimpleRoundRobinArbiterC.nc: SimpleArbiterP wired to         *)
(* RoundRobinResourceQueueC.  The arbiter is modelled on the abstract      *)
(* ResourceQueue; here every call it makes of its queue is made of the bit *)
(* map as well.                                                            *)
(***************************************************************************)
EXTENDS SimpleArbiterP

CONSTANT BITS   \* bits in a byte of the bit map: 8 in the code

ASSUME BitsAssumption == BITS \in Nat \ {0}

VARIABLES resQ, served   \* served: the queue's own variable last

Map == INSTANCE RoundRobinResourceQueueC WITH size <- NumClients, last <- served

MapInit == Init /\ Map!Init

\* The arbiter enqueues a client, dequeues the next one, or leaves the queue alone.
QueueCalls ==
    \/ UNCHANGED <<queueVars, resQ, served>>
    \/ \E c \in Clients : waiting' = Append(waiting, c) /\ Map!enqueue(c)
    \/ Len(waiting') < Len(waiting) /\ Map!dequeue

MapSpec == MapInit /\ [][Next /\ QueueCalls]_<<vars, resQ, served>> /\ Fairness

(***************************************************************************)
(* The bit map answers as the queue it stands for, after any mix of        *)
(* requests and releases: a bit is set exactly for the clients that wait,  *)
(* whichever byte it is in, and the scan of a queue that is not empty      *)
(* finds the client whose turn it is before it is back where it started    *)
(* (RoundRobinResourceQueueC.nc:66-105).                                   *)
(***************************************************************************)
MapInStep ==
    /\ \A c \in Clients : Map!isEnqueued(c) <=> IsEnqueued(c)
    /\ Map!isEmpty <=> IsEmpty
    /\ ~ IsEmpty => Map!scan[1] = NextUp
=============================================================================
