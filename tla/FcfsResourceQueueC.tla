------------------------- MODULE FcfsResourceQueueC -------------------------
(***************************************************************************)
(* The first-come first-served queue of tos/system/FcfsResourceQueueC.nc:  *)
(* a linked list threaded through an array with one byte for each client.  *)
(* Each command is one atomic section, called by an arbiter, and client    *)
(* ids are bytes (size < NO_ENTRY).  FcfsArbiterC calls these operations.  *)
(***************************************************************************)
EXTENDS Integers, Sequences

CONSTANT size   \* the number of clients

NO_ENTRY == 255
Clients == 0..(size - 1)

VARIABLES resQ,            \* resQ[id]: the client that waits behind id
          qHead, qTail

vars == <<resQ, qHead, qTail>>

\* After Init.init.
Init ==
    /\ resQ = [id \in Clients |-> NO_ENTRY]
    /\ qHead = NO_ENTRY
    /\ qTail = NO_ENTRY

isEnqueued(id) == resQ[id] # NO_ENTRY \/ qTail = id

\* enqueue returns EBUSY, and changes nothing, when the client waits already.
enqueue(id) ==
    /\ ~ isEnqueued(id)
    /\ IF qHead = NO_ENTRY
       THEN qHead' = id /\ UNCHANGED resQ
       ELSE resQ' = [resQ EXCEPT ![qTail] = id] /\ UNCHANGED qHead
    /\ qTail' = id

\* Slip: the tail still names the client that left when the queue runs empty.
dequeueKeepsTail ==
    /\ qHead # NO_ENTRY
    /\ qHead' = resQ[qHead]
    /\ resQ' = [resQ EXCEPT ![qHead] = NO_ENTRY]
    /\ UNCHANGED qTail

\* dequeue returns qHead.
dequeue ==
    /\ qHead # NO_ENTRY
    /\ qHead' = resQ[qHead]
    /\ qTail' = IF resQ[qHead] = NO_ENTRY THEN NO_ENTRY ELSE qTail
    /\ resQ' = [resQ EXCEPT ![qHead] = NO_ENTRY]

-----------------------------------------------------------------------------
\* From qHead the links visit the clients of s in their order and end at qTail, and a
\* client that is not in s has no link.
Visits(s) ==
    /\ qHead = IF s = <<>> THEN NO_ENTRY ELSE s[1]
    /\ qTail = IF s = <<>> THEN NO_ENTRY ELSE s[Len(s)]
    /\ \A i \in 1..(Len(s) - 1) : resQ[s[i]] = s[i + 1]
    /\ \A c \in Clients : (\A i \in 1..(Len(s) - 1) : s[i] # c) => resQ[c] = NO_ENTRY
=============================================================================
