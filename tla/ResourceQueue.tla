--------------------------- MODULE ResourceQueue ---------------------------
(***************************************************************************)
(* What an arbiter expects of the ResourceQueue interface: every client    *)
(* waits at most once, and the next client served is the one that waited   *)
(* longest (first come first served) or the first one after the client     *)
(* served before, in the circular order of the ids (round robin).          *)
(* The arbiters are modelled on top of it; FcfsArbiterC runs the linked    *)
(* list of FcfsResourceQueueC in step with it, SimpleRoundRobinArbiterC    *)
(* the bit map of RoundRobinResourceQueueC.                                *)
(***************************************************************************)
EXTENDS Integers, Sequences

CONSTANTS NumClients,   \* uniqueCount(resourceName): the clients are 0, 1, ...
          RoundRobin    \* the policy: TRUE round robin, FALSE first come first served

Clients == 0..(NumClients - 1)

VARIABLES waiting,   \* the enqueued clients in the order they came
          last       \* round robin: the client served before

queueVars == <<waiting, last>>

QueueInit == waiting = <<>> /\ last = 0

IsEmpty == waiting = <<>>
IsEnqueued(id) == \E i \in 1..Len(waiting) : waiting[i] = id

\* enqueue returns SUCCESS; for an enqueued client it returns EBUSY instead.
Enqueue(id) ==
    /\ ~ IsEnqueued(id)
    /\ waiting' = Append(waiting, id)
    /\ UNCHANGED last

\* How many clients the turn passes before it comes to id.
Distance(id) == (id - last - 1) % NumClients

\* Slip: the client that came last is served first.
NextPlaceNewest == Len(waiting)

\* Where the client to be served stands in the queue.
NextPlace ==
    IF RoundRobin
    THEN CHOOSE i \in 1..Len(waiting) :
            \A j \in 1..Len(waiting) : Distance(waiting[i]) <= Distance(waiting[j])
    ELSE 1

NextUp == waiting[NextPlace]

\* dequeue returns NextUp.
Dequeue ==
    /\ waiting # <<>>
    /\ waiting' = SubSeq(waiting, 1, NextPlace - 1)
                      \o SubSeq(waiting, NextPlace + 1, Len(waiting))
    /\ last' = IF RoundRobin THEN NextUp ELSE last
=============================================================================
