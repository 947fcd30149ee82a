---------------------------- MODULE FcfsArbiterC ----------------------------
(***************************************************************************)
(* tos/system/FcfsArbiterC.nc: ArbiterP wired to FcfsResourceQueueC.  The  *)
(* arbiter is modelled on the abstract ResourceQueue; here every call it   *)
(* makes of its queue is made of the linked list as well.                  *)
(***************************************************************************)
EXTENDS UnmanagedArbiter

VARIABLES resQ, qHead, qTail

Fcfs == INSTANCE FcfsResourceQueueC WITH size <- NumClients

FcfsInit == Init /\ Fcfs!Init

\* The arbiter enqueues a client, dequeues the next one, or leaves the queue alone.
QueueCalls ==
    \/ UNCHANGED <<queueVars, resQ, qHead, qTail>>
    \/ \E c \in Clients : waiting' = Append(waiting, c) /\ Fcfs!enqueue(c)
    \/ Len(waiting') < Len(waiting) /\ Fcfs!dequeue

FcfsSpec == FcfsInit /\ [][Next /\ QueueCalls]_<<vars, resQ, qHead, qTail>> /\ Fairness

(***************************************************************************)
(* The linked list answers as the queue it stands for, after any mix of    *)
(* requests and releases: its links visit the waiting clients in the order *)
(* they came and end at qTail, and isEnqueued, which looks at one link and *)
(* the tail only, is exactly membership (FcfsResourceQueueC.nc:60-94).     *)
(***************************************************************************)
ListInStep ==
    /\ Fcfs!Visits(waiting)
    /\ \A c \in Clients : Fcfs!isEnqueued(c) <=> IsEnqueued(c)
=============================================================================
