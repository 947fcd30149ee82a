---------------------- MODULE RoundRobinResourceQueueC ----------------------
(***************************************************************************)
(* The round-robin queue of tos/system/RoundRobinResourceQueueC.nc: a bit  *)
(* map with one bit for each client, packed in bytes, and the client that  *)
(* was served last.  Each command is one atomic section, and client ids    *)
(* are bytes.  SimpleRoundRobinArbiterC calls these operations.            *)
(***************************************************************************)
EXTENDS Integers

CONSTANTS size,   \* the number of clients
          BITS    \* bits in a byte: 8 in the code, fewer to see more bytes

Clients == 0..(size - 1)
SIZE == (size - 1) \div BITS + 1

VARIABLES resQ,     \* resQ[b]: the bits that are set in byte b
          last

vars == <<resQ, last>>

Init ==
    /\ resQ = [b \in 0..(SIZE - 1) |-> {}]
    /\ last = 0

isEmpty == \A b \in 0..(SIZE - 1) : resQ[b] = {}
isEnqueued(id) == id % BITS \in resQ[id \div BITS]
clearEntry(id) == resQ' = [resQ EXCEPT ![id \div BITS] = @ \ {id % BITS}]

enqueue(id) ==
    /\ ~ isEnqueued(id)
    /\ resQ' = [resQ EXCEPT ![id \div BITS] = @ \cup {id % BITS}]
    /\ UNCHANGED last

\* The n-th client the loop of dequeue looks at.
lookedAt(n) == (last + n) % size

\* The loop of dequeue, from the n-th client on; it gives up when it is back at last.
scan[n \in 1..size] ==
    IF isEnqueued(lookedAt(n)) THEN lookedAt(n)
    ELSE IF lookedAt(n) = last THEN -1 ELSE scan[n + 1]

\* Slip: dequeue does not remember whom it served.
dequeueForgetsLast ==
    /\ ~ isEmpty
    /\ clearEntry(scan[1])
    /\ UNCHANGED last

\* dequeue of a queue that is not empty, as the arbiter calls it, returns scan[1].
dequeue ==
    /\ ~ isEmpty
    /\ clearEntry(scan[1])
    /\ last' = scan[1]
=============================================================================
