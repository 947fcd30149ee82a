-------------------- MODULE SimpleRoundRobinArbiterC_proofs --------------------
(***************************************************************************)
(* Proofs about SimpleArbiterP, for every number of clients that fits in a *)
(* byte and for both policies, and at the end about the bit map that       *)
(* SimpleRoundRobinArbiterC runs in step with the queue, for every number  *)
(* of bits in a byte.                                                      *)
(***************************************************************************)
EXTENDS SimpleRoundRobinArbiterC, SequenceTheorems, WellFoundedInduction, TLAPS

LEMMA ClientIds ==
    /\ NumClients \in Nat \ {0}
    /\ Clients \subseteq Nat
    /\ NO_RES \notin Clients
    /\ 0 \in Clients
  BY ClientIdsFitInAByte DEF Clients, NO_RES

LEMMA SmallestNumber ==
    ASSUME NEW S, S \subseteq Nat, S # {}
    PROVE  \E m \in S : \A n \in S : m <= n
<1> DEFINE R == OpToRel(<, Nat)
<1>1. \E m \in S : \A n \in S : <<n, m>> \notin R
  <2>1. IsWellFoundedOn(R, Nat)
    BY NatLessThanWellFounded
  <2> HIDE DEF R
  <2>2. QED
    BY <2>1, WFMin
<1>2. \A m, n \in Nat : n < m => <<n, m>> \in R
  BY DEF OpToRel
<1>3. QED
  <2> HIDE DEF R
  <2>1. PICK m \in S : \A n \in S : <<n, m>> \notin R
    BY <1>1
  <2>2. \A n \in S : ~ (n < m)
    BY <2>1, <1>2
  <2>3. QED
    BY <2>2

-----------------------------------------------------------------------------
(***************************************************************************)
(* The queue: it holds clients, and nobody twice.                          *)
(***************************************************************************)
QueueTypeOK == waiting \in Seq(Clients) /\ last \in Clients

WaitOnce == \A i, j \in 1..Len(waiting) : waiting[i] = waiting[j] => i = j

\* The client to be served is one that waits.
LEMMA NextPlaceIsPlace ==
    ASSUME QueueTypeOK, waiting # <<>>
    PROVE  NextPlace \in 1..Len(waiting)
<1>1. Len(waiting) \in Nat /\ Len(waiting) > 0
  BY DEF QueueTypeOK
<1>2. CASE ~ RoundRobin
  BY <1>1, <1>2 DEF NextPlace
<1>3. CASE RoundRobin
  <2> DEFINE P == 1..Len(waiting)
             D(i) == Distance(waiting[i])
             Distances == {D(i) : i \in P}
  <2>1. \A i \in P : D(i) \in Nat
    BY ClientIds DEF QueueTypeOK, Distance, Clients
  <2>2. Distances \subseteq Nat /\ Distances # {}
    BY <1>1, <2>1
  <2>3. PICK d \in Distances : \A e \in Distances : d <= e
    <3> HIDE DEF Distances
    <3>1. QED
      BY <2>2, SmallestNumber
  <2>4. QED
    BY <2>3, <1>3 DEF NextPlace
<1>4. QED
  BY <1>2, <1>3

LEMMA DequeueType ==
    ASSUME QueueTypeOK, Dequeue
    PROVE  QueueTypeOK' /\ NextUp \in Clients
<1>1. waiting # <<>>
  BY DEF Dequeue
<1>2. NextPlace \in 1..Len(waiting)
  BY <1>1, NextPlaceIsPlace
<1> DEFINE i == NextPlace
<1> HIDE DEF i
<1>3. NextUp \in Clients
  BY <1>2 DEF NextUp, QueueTypeOK
<1>4. SubSeq(waiting, 1, i - 1) \o SubSeq(waiting, i + 1, Len(waiting)) \in Seq(Clients)
  BY <1>2 DEF QueueTypeOK, i
<1>5. last' \in Clients
  BY <1>3 DEF Dequeue, QueueTypeOK
<1>6. QED
  BY <1>3, <1>4, <1>5 DEF Dequeue, QueueTypeOK, i

LEMMA EnqueueAdds ==
    ASSUME QueueTypeOK, WaitOnce, NEW c \in Clients, Enqueue(c)
    PROVE  QueueTypeOK' /\ WaitOnce' /\ \A d \in Clients : IsEnqueued(d)' <=> IsEnqueued(d) \/ d = c
<1>1. /\ waiting' = Append(waiting, c) /\ \A i \in 1..Len(waiting) : waiting[i] # c
      /\ Len(waiting) \in Nat
  BY DEF Enqueue, IsEnqueued, QueueTypeOK
<1>2. /\ Len(waiting') = Len(waiting) + 1
      /\ \A i \in 1..Len(waiting) : waiting'[i] = waiting[i]
      /\ waiting'[Len(waiting) + 1] = c
  BY <1>1 DEF QueueTypeOK
<1>3. QueueTypeOK'
  BY DEF QueueTypeOK, Enqueue
<1>4. QED
  BY <1>1, <1>2, <1>3 DEF WaitOnce, IsEnqueued

LEMMA DequeueRemoves ==
    ASSUME QueueTypeOK, WaitOnce, Dequeue
    PROVE  /\ WaitOnce' /\ IsEnqueued(NextUp) /\ Len(waiting') = Len(waiting) - 1
           /\ \A d \in Clients : IsEnqueued(d)' <=> IsEnqueued(d) /\ d # NextUp
<1> DEFINE n == NextPlace
           front == SubSeq(waiting, 1, n - 1)
           back == SubSeq(waiting, n + 1, Len(waiting))
<1>1. n \in 1..Len(waiting) /\ Len(waiting) \in Nat /\ waiting' = front \o back
  BY NextPlaceIsPlace DEF Dequeue, QueueTypeOK
<1> HIDE DEF n
<1>2. /\ front \in Seq(Clients) /\ Len(front) = n - 1
      /\ \A i \in 1..(n - 1) : front[i] = waiting[i]
  BY <1>1 DEF QueueTypeOK
<1>3. /\ back \in Seq(Clients) /\ Len(back) = Len(waiting) - n
      /\ \A i \in 1..(Len(waiting) - n) : back[i] = waiting[n + i]
  BY <1>1 DEF QueueTypeOK
<1> HIDE DEF front, back
<1>4. /\ Len(waiting') = Len(waiting) - 1
      /\ \A i \in 1..(Len(waiting) - 1) :
            waiting'[i] = IF i < n THEN waiting[i] ELSE waiting[i + 1]
  <2>1. /\ Len(waiting') = Len(front) + Len(back)
        /\ \A i \in 1..(Len(front) + Len(back)) :
              waiting'[i] = IF i <= Len(front) THEN front[i] ELSE back[i - Len(front)]
    BY <1>1, <1>2, <1>3, ConcatProperties
  <2>2. ASSUME NEW i \in 1..(Len(waiting) - 1)
        PROVE  waiting'[i] = IF i < n THEN waiting[i] ELSE waiting[i + 1]
    <3>1. CASE i < n
      BY <1>1, <1>2, <1>3, <2>1, <3>1
    <3>2. CASE ~ (i < n)
      <4>1. i - (n - 1) \in 1..(Len(waiting) - n) /\ n + (i - (n - 1)) = i + 1
        BY <1>1, <3>2
      <4>2. waiting'[i] = back[i - (n - 1)]
        BY <1>1, <1>2, <1>3, <2>1, <3>2
      <4>3. QED
        BY <1>3, <3>2, <4>1, <4>2
    <3>3. QED
      BY <3>1, <3>2
  <2>3. QED
    BY <1>1, <1>2, <1>3, <2>1, <2>2
<1>5. waiting[n] = NextUp
  BY DEF NextUp, n
<1>6. WaitOnce'
  BY <1>1, <1>4 DEF WaitOnce
<1>7. ASSUME NEW i \in 1..Len(waiting), i # n
      PROVE  \E j \in 1..Len(waiting') : waiting'[j] = waiting[i]
  <2>1. CASE i < n
    BY <1>1, <1>4, <2>1
  <2>2. CASE i > n
    <3>1. i - 1 \in 1..Len(waiting') /\ ~ (i - 1 < n) /\ (i - 1) + 1 = i
      BY <1>1, <1>4, <2>2
    <3>2. QED
      BY <1>4, <3>1
  <2>3. QED
    BY <1>1, <1>7, <2>1, <2>2
<1>8. ASSUME NEW j \in 1..Len(waiting')
      PROVE  \E i \in 1..Len(waiting) : i # n /\ waiting[i] = waiting'[j]
  BY <1>1, <1>4
<1>9. ASSUME NEW d \in Clients
      PROVE  IsEnqueued(d)' <=> IsEnqueued(d) /\ d # NextUp
  <2>1. ASSUME IsEnqueued(d)'
        PROVE  IsEnqueued(d) /\ d # NextUp
    <3>1. PICK i \in 1..Len(waiting) : i # n /\ waiting[i] = d
      BY <1>8, <2>1 DEF IsEnqueued
    <3>2. QED
      BY <1>1, <1>5, <3>1 DEF IsEnqueued, WaitOnce
  <2>2. ASSUME IsEnqueued(d), d # NextUp
        PROVE  IsEnqueued(d)'
    BY <1>5, <1>7, <2>2 DEF IsEnqueued
  <2>3. QED
    BY <2>1, <2>2
<1>10. QED
  BY <1>1, <1>4, <1>5, <1>6, <1>9 DEF IsEnqueued

LEMMA QueueUnchanged ==
    ASSUME UNCHANGED queueVars
    PROVE  (WaitOnce' <=> WaitOnce) /\ (IsEmpty' <=> IsEmpty)
           /\ \A c \in Clients : IsEnqueued(c)' <=> IsEnqueued(c)
  BY DEF queueVars, WaitOnce, IsEmpty, IsEnqueued

-----------------------------------------------------------------------------
(***************************************************************************)
(* The invariant.  grantedTask is posted exactly while the arbiter is      *)
(* granting, the resource has an owner on record unless it is idle, and    *)
(* nobody waits for an idle resource.                                      *)
(***************************************************************************)
ArbiterInv ==
    /\ posted <=> state = "granting"
    /\ signaling => state = "busy"
    /\ resId = NO_RES <=> state = "idle"
    /\ state = "idle" => IsEmpty

\* The client on record has the resource, once it has been told.
Told == state = "busy" /\ ~ signaling
HoldsInv == \A c \in Clients : holds[c] <=> Told /\ resId = c

ConfiguredInv == configured = IF state = "busy" THEN resId ELSE NO_RES

\* A promise is kept in the queue, or in resId until the client is told.
Granting == posted \/ signaling
PendingInv ==
    /\ \A c \in Clients : pending[c] <=> IsEnqueued(c) \/ (Granting /\ resId = c)
    /\ Granting => ~ IsEnqueued(resId)

\* The parts of TypeOK that no data structure is in.
FlatTypeOK ==
    /\ state \in {"idle", "granting", "busy"}
    /\ resId \in Clients \cup {NO_RES}
    /\ posted \in BOOLEAN /\ signaling \in BOOLEAN
    /\ holds \in [Clients -> BOOLEAN]
    /\ pending \in [Clients -> BOOLEAN]
    /\ configured \in Clients \cup {NO_RES}

IInv ==
    /\ QueueTypeOK /\ WaitOnce
    /\ FlatTypeOK
    /\ ArbiterInv /\ HoldsInv /\ ConfiguredInv /\ PendingInv

LEMMA InitIInv == Init => IInv
<1> SUFFICES ASSUME Init PROVE IInv
  OBVIOUS
<1> USE ClientIds DEF Init, QueueInit
<1>1. QueueTypeOK /\ WaitOnce /\ \A c \in Clients : ~ IsEnqueued(c)
  BY DEF QueueTypeOK, WaitOnce, IsEnqueued
<1>2. QED
  BY <1>1 DEF IInv, FlatTypeOK, ArbiterInv, HoldsInv, ConfiguredInv, PendingInv, Granting, Told,
              IsEmpty

\* A queue with somebody in it is not empty.
LEMMA EmptyIsNobody ==
    ASSUME QueueTypeOK
    PROVE  IsEmpty <=> \A c \in Clients : ~ IsEnqueued(c)
<1>1. CASE waiting = <<>>
  BY <1>1 DEF IsEmpty, IsEnqueued
<1>2. CASE waiting # <<>>
  <2>1. 1 \in 1..Len(waiting) /\ waiting[1] \in Clients
    BY <1>2 DEF QueueTypeOK
  <2>2. QED
    BY <1>2, <2>1 DEF IsEmpty, IsEnqueued
<1>3. QED
  BY <1>1, <1>2

LEMMA RequestKeepsIInv ==
    ASSUME IInv, NEW c \in Clients, Request(c)
    PROVE  IInv'
<1> USE ClientIds
<1>1. QueueTypeOK /\ WaitOnce /\ FlatTypeOK /\ ArbiterInv /\ HoldsInv /\ ConfiguredInv /\ PendingInv
  BY DEF IInv
<1>2. ~ pending[c] /\ pending' = [pending EXCEPT ![c] = TRUE]
      /\ UNCHANGED <<signaling, holds, configured>>
  BY DEF Request, RequestIdle, RequestBusy
<1>3. CASE RequestIdle(c)
  <2>1. /\ state = "idle" /\ state' = "granting" /\ resId' = c /\ posted' = TRUE
        /\ UNCHANGED queueVars
    BY <1>3 DEF RequestIdle
  <2>2. QueueTypeOK' /\ WaitOnce' /\ \A d \in Clients : ~ IsEnqueued(d) /\ ~ IsEnqueued(d)'
    BY <1>1, <2>1, EmptyIsNobody, QueueUnchanged DEF ArbiterInv, QueueTypeOK, queueVars
  <2>3. FlatTypeOK' /\ ArbiterInv' /\ HoldsInv' /\ ConfiguredInv'
    BY <1>1, <1>2, <2>1 DEF FlatTypeOK, ArbiterInv, HoldsInv, ConfiguredInv, Told
  <2>4. PendingInv'
    BY <1>1, <1>2, <2>1, <2>2 DEF PendingInv, Granting, ArbiterInv, FlatTypeOK
  <2>5. QED
    BY <2>2, <2>3, <2>4 DEF IInv
<1>4. CASE RequestBusy(c)
  <2>1. state # "idle" /\ Enqueue(c) /\ UNCHANGED <<state, resId, posted>>
    BY <1>4 DEF RequestBusy
  <2>2. /\ QueueTypeOK' /\ WaitOnce'
        /\ \A d \in Clients : IsEnqueued(d)' <=> IsEnqueued(d) \/ d = c
    BY <1>1, <2>1, EnqueueAdds
  <2>3. FlatTypeOK' /\ ArbiterInv' /\ HoldsInv' /\ ConfiguredInv'
    BY <1>1, <1>2, <2>1 DEF FlatTypeOK, ArbiterInv, HoldsInv, ConfiguredInv, Told
  <2>4. Granting => resId \in Clients /\ resId # c
    BY <1>1, <1>2 DEF PendingInv, FlatTypeOK, ArbiterInv, Granting
  <2>5. PendingInv'
    BY <1>1, <1>2, <2>1, <2>2, <2>4 DEF PendingInv, Granting, FlatTypeOK
  <2>6. QED
    BY <2>2, <2>3, <2>5 DEF IInv
<1>5. QED
  BY <1>3, <1>4 DEF Request

LEMMA ImmediateRequestKeepsIInv ==
    ASSUME IInv, NEW c \in Clients, ImmediateRequest(c)
    PROVE  IInv'
<1> USE ClientIds
<1>1. QueueTypeOK /\ WaitOnce /\ FlatTypeOK /\ ArbiterInv /\ HoldsInv /\ ConfiguredInv /\ PendingInv
  BY DEF IInv
<1>2. /\ state = "idle" /\ state' = "busy" /\ resId' = c /\ configured' = c
      /\ holds' = [holds EXCEPT ![c] = TRUE]
      /\ UNCHANGED <<queueVars, posted, signaling, pending>>
  BY DEF ImmediateRequest
<1>3. QueueTypeOK' /\ WaitOnce' /\ \A d \in Clients : IsEnqueued(d)' <=> IsEnqueued(d)
  BY <1>1, <1>2, QueueUnchanged DEF QueueTypeOK, queueVars
<1>4. ~ posted /\ ~ signaling
  BY <1>1, <1>2 DEF ArbiterInv
<1>5. FlatTypeOK' /\ ArbiterInv' /\ ConfiguredInv' /\ PendingInv'
  BY <1>1, <1>2, <1>3, <1>4 DEF FlatTypeOK, ArbiterInv, ConfiguredInv, PendingInv, Granting
<1>6. HoldsInv'
  BY <1>1, <1>2, <1>4 DEF FlatTypeOK, HoldsInv, Told
<1>7. QED
  BY <1>3, <1>5, <1>6 DEF IInv

LEMMA ReleaseKeepsIInv ==
    ASSUME IInv, NEW c \in Clients, Release(c)
    PROVE  IInv'
<1> USE ClientIds
<1>1. QueueTypeOK /\ WaitOnce /\ FlatTypeOK /\ ArbiterInv /\ HoldsInv /\ ConfiguredInv /\ PendingInv
  BY DEF IInv
<1>2. /\ holds[c] /\ state = "busy" /\ resId = c
      /\ configured' = NO_RES /\ holds' = [holds EXCEPT ![c] = FALSE]
      /\ UNCHANGED <<signaling, pending>>
  BY DEF Release, ReleaseToNext, ReleaseToIdle
<1>3. ~ posted /\ ~ signaling
  BY <1>1, <1>2 DEF ArbiterInv, HoldsInv, Told
<1>4. \A d \in Clients : ~ holds'[d]
  BY <1>1, <1>2 DEF HoldsInv, FlatTypeOK
<1>5. CASE ReleaseToNext(c)
  <2>1. Dequeue /\ resId' = NextUp /\ state' = "granting" /\ posted' = TRUE
    BY <1>5 DEF ReleaseToNext
  <2>2. /\ QueueTypeOK' /\ WaitOnce' /\ NextUp \in Clients /\ IsEnqueued(NextUp)
        /\ \A d \in Clients : IsEnqueued(d)' <=> IsEnqueued(d) /\ d # NextUp
    BY <1>1, <2>1, DequeueType, DequeueRemoves
  <2>3. FlatTypeOK' /\ ArbiterInv' /\ HoldsInv' /\ ConfiguredInv'
    BY <1>1, <1>2, <1>3, <1>4, <2>1, <2>2
       DEF FlatTypeOK, ArbiterInv, HoldsInv, ConfiguredInv, Told
  <2>4. PendingInv'
    BY <1>1, <1>2, <1>3, <2>1, <2>2 DEF PendingInv, Granting
  <2>5. QED
    BY <2>2, <2>3, <2>4 DEF IInv
<1>6. CASE ReleaseToIdle(c)
  <2>1. IsEmpty /\ resId' = NO_RES /\ state' = "idle" /\ UNCHANGED <<queueVars, posted>>
    BY <1>6 DEF ReleaseToIdle
  <2>2. /\ QueueTypeOK' /\ WaitOnce' /\ IsEmpty'
        /\ \A d \in Clients : IsEnqueued(d)' <=> IsEnqueued(d)
    BY <1>1, <2>1, QueueUnchanged DEF QueueTypeOK, queueVars
  <2>3. FlatTypeOK' /\ ArbiterInv' /\ HoldsInv' /\ ConfiguredInv' /\ PendingInv'
    BY <1>1, <1>2, <1>3, <1>4, <2>1, <2>2
       DEF FlatTypeOK, ArbiterInv, HoldsInv, ConfiguredInv, Told, PendingInv, Granting
  <2>4. QED
    BY <2>2, <2>3 DEF IInv
<1>7. QED
  BY <1>5, <1>6 DEF Release

LEMMA GrantKeepsIInv ==
    ASSUME IInv, GrantedTask \/ Granted \/ UNCHANGED vars
    PROVE  IInv'
<1> USE ClientIds
<1>1. QueueTypeOK /\ WaitOnce /\ FlatTypeOK /\ ArbiterInv /\ HoldsInv /\ ConfiguredInv /\ PendingInv
  BY DEF IInv
<1>2. /\ QueueTypeOK' /\ WaitOnce' /\ (IsEmpty' <=> IsEmpty)
      /\ \A d \in Clients : IsEnqueued(d)' <=> IsEnqueued(d)
  <2>1. UNCHANGED queueVars
    BY DEF GrantedTask, Granted, vars
  <2>2. QED
    BY <1>1, <2>1, QueueUnchanged DEF QueueTypeOK, queueVars
<1>3. FlatTypeOK' /\ ArbiterInv' /\ HoldsInv' /\ ConfiguredInv' /\ PendingInv'
  <2>1. CASE GrantedTask
    <3>1. /\ state = "granting" /\ ~ signaling /\ resId \in Clients
          /\ posted' = FALSE /\ state' = "busy" /\ configured' = resId /\ signaling' = TRUE
          /\ UNCHANGED <<resId, holds, pending>>
      BY <1>1, <2>1 DEF GrantedTask, ArbiterInv, FlatTypeOK
    <3>2. QED
      BY <1>1, <1>2, <3>1, <2>1 DEF FlatTypeOK, ArbiterInv, HoldsInv, ConfiguredInv, Told,
         PendingInv, Granting, GrantedTask
  <2>2. CASE Granted
    <3>1. /\ state = "busy" /\ ~ posted /\ signaling /\ resId \in Clients
          /\ signaling' = FALSE
          /\ UNCHANGED <<state, resId, posted, configured>>
      BY <1>1, <2>2 DEF Granted, ArbiterInv, FlatTypeOK
    <3>2. /\ \A d \in Clients : holds'[d] <=> holds[d] \/ d = resId
          /\ \A d \in Clients : pending'[d] <=> pending[d] /\ d # resId
          /\ holds' \in [Clients -> BOOLEAN] /\ pending' \in [Clients -> BOOLEAN]
      BY <1>1, <2>2, <3>1 DEF Granted, FlatTypeOK
    <3>3. FlatTypeOK' /\ ArbiterInv' /\ HoldsInv' /\ ConfiguredInv'
      BY <1>1, <1>2, <3>1, <3>2 DEF FlatTypeOK, ArbiterInv, HoldsInv, ConfiguredInv, Told
    <3>4. PendingInv'
      BY <1>1, <1>2, <3>1, <3>2 DEF PendingInv, Granting
    <3>5. QED
      BY <3>3, <3>4
  <2>3. CASE UNCHANGED vars
    BY <1>1, <1>2, <2>3 DEF vars, FlatTypeOK, ArbiterInv, HoldsInv, ConfiguredInv, Told,
       PendingInv, Granting
  <2>4. QED
    BY <2>1, <2>2, <2>3
<1>4. QED
  BY <1>2, <1>3 DEF IInv

LEMMA IInvInvariant == Spec => []IInv
<1>1. IInv /\ [Next]_vars => IInv'
  <2> SUFFICES ASSUME IInv, [Next]_vars PROVE IInv'
    OBVIOUS
  <2>1. QED
    BY RequestKeepsIInv, ImmediateRequestKeepsIInv, ReleaseKeepsIInv, GrantKeepsIInv DEF Next
<1>2. QED
  BY InitIInv, <1>1, PTL DEF Spec

\* The variables keep their types; resId is a client or NO_RES.
THEOREM TypeCorrect == Spec => []TypeOK
<1>1. IInv => TypeOK
  BY DEF IInv, QueueTypeOK, FlatTypeOK, TypeOK
<1>2. QED
  BY <1>1, IInvInvariant, PTL

(***************************************************************************)
(* The resource is configured for the client on record as its owner, and   *)
(* for nobody while it is between owners (SimpleArbiterP.nc:83-113).       *)
(***************************************************************************)
THEOREM OwnerIsConfigured == Spec => []ConfiguredForOwner
<1>1. IInv => ConfiguredForOwner
  BY DEF IInv, HoldsInv, ConfiguredInv, Told, ConfiguredForOwner
<1>2. QED
  BY <1>1, IInvInvariant, PTL

-----------------------------------------------------------------------------
(***************************************************************************)
(* The resource of TEP 108: who owns it, and who has asked for it.         *)
(***************************************************************************)
Owner == IF \E c \in Clients : holds[c] THEN CHOOSE c \in Clients : holds[c] ELSE NO_RES
Asked == {c \in Clients : pending[c]}
OwnerOnRecord == IF Told THEN resId ELSE NO_RES

LEMMA OwnerIs == IInv => Owner = OwnerOnRecord
<1> SUFFICES ASSUME IInv PROVE Owner = OwnerOnRecord
  OBVIOUS
<1>1. CASE Told
  <2>1. resId \in Clients
    BY <1>1 DEF IInv, FlatTypeOK, ArbiterInv, Told
  <2>2. \A c \in Clients : holds[c] <=> c = resId
    BY <1>1 DEF IInv, HoldsInv
  <2>3. QED
    BY <1>1, <2>1, <2>2 DEF Owner, OwnerOnRecord
<1>2. CASE ~ Told
  BY <1>2 DEF IInv, HoldsInv, Owner, OwnerOnRecord
<1>3. QED
  BY <1>1, <1>2

LEMMA StepOfSharedResource ==
    ASSUME IInv, [Next]_vars, Owner = OwnerOnRecord, Owner' = OwnerOnRecord'
    PROVE  [Shared!Next]_(Shared!vars)
<1> DEFINE Abstracts == [Shared!Next]_(Shared!vars)
<1>1. /\ ~ Told => OwnerOnRecord = NO_RES
      /\ Told => OwnerOnRecord = resId
      /\ ~ Told' => OwnerOnRecord' = NO_RES
      /\ Told' => OwnerOnRecord' = resId'
  BY DEF OwnerOnRecord
<1>2. Owner' = Owner /\ Asked' = Asked => Abstracts
  BY DEF Shared!vars, Owner, Asked
<1>3. /\ \A c \in Clients : Shared!Accept(c) <=> Asked' = Asked \cup {c} /\ Owner' = Owner
      /\ \A c \in Clients : Shared!GrantNow(c) <=>
            Owner = NO_RES /\ Asked = {} /\ Owner' = c /\ Asked' = Asked
      /\ \A c \in Clients : Shared!Grant(c) <=>
            Owner = NO_RES /\ c \in Asked /\ Owner' = c /\ Asked' = Asked \ {c}
      /\ Shared!Release <=> Owner # NO_RES /\ Owner' = NO_RES /\ Asked' = Asked
  BY DEF Shared!Accept, Shared!GrantNow, Shared!Grant, Shared!Release, Owner, Asked
<1>4. FlatTypeOK /\ ArbiterInv /\ HoldsInv /\ PendingInv /\ QueueTypeOK
  BY DEF IInv
<1>5. ASSUME NEW c \in Clients, Request(c)
      PROVE  Abstracts
  <2>1. Asked' = Asked \cup {c}
    BY <1>4, <1>5 DEF Request, RequestIdle, RequestBusy, FlatTypeOK, Asked
  <2>2. OwnerOnRecord' = OwnerOnRecord
    BY <1>5 DEF Request, RequestIdle, RequestBusy, OwnerOnRecord, Told
  <2>3. QED
    BY <1>3, <2>1, <2>2 DEF Shared!Next
<1>6. ASSUME NEW c \in Clients, ImmediateRequest(c)
      PROVE  Abstracts
  <2>1. state = "idle" /\ state' = "busy" /\ resId' = c /\ UNCHANGED <<signaling, pending>>
    BY <1>6 DEF ImmediateRequest
  <2>2. ~ Told /\ Told' /\ \A d \in Clients : ~ pending[d]
    BY <1>4, <2>1, EmptyIsNobody DEF ArbiterInv, PendingInv, Granting, Told
  <2>3. Asked = {} /\ Asked' = Asked
    BY <2>1, <2>2 DEF Asked
  <2>4. QED
    BY <1>1, <1>3, <2>1, <2>2, <2>3 DEF Shared!Next
<1>7. ASSUME NEW c \in Clients, Release(c)
      PROVE  Abstracts
  <2>1. /\ holds[c] /\ resId = c /\ state' # "busy" /\ Asked' = Asked
    BY <1>7 DEF Release, ReleaseToNext, ReleaseToIdle, Asked
  <2>2. Told /\ ~ Told' /\ c # NO_RES
    BY <1>4, <2>1, ClientIds DEF HoldsInv, Told
  <2>3. QED
    BY <1>1, <1>3, <2>1, <2>2 DEF Shared!Next
<1>8. CASE GrantedTask
  BY <1>1, <1>2, <1>4, <1>8 DEF GrantedTask, ArbiterInv, Told, Asked
<1>9. CASE Granted
  <2>1. /\ resId \in Clients /\ pending[resId] /\ ~ Told /\ Told' /\ resId' = resId
        /\ pending' = [pending EXCEPT ![resId] = FALSE]
    BY <1>4, <1>9 DEF Granted, ArbiterInv, FlatTypeOK, PendingInv, Granting, Told
  <2>2. resId \in Asked /\ Asked' = Asked \ {resId}
    BY <1>4, <2>1 DEF Asked, FlatTypeOK
  <2>3. QED
    BY <1>1, <1>3, <2>1, <2>2 DEF Shared!Next
<1>10. CASE UNCHANGED vars
  BY <1>1, <1>2, <1>10 DEF vars, Told, Asked
<1>11. QED
  BY <1>5, <1>6, <1>7, <1>8, <1>9, <1>10 DEF Next

(***************************************************************************)
(* The clients see the shared resource of TEP 108, for both policies and   *)
(* whatever their order, also when they ask for their next turn before     *)
(* they release: unlike ArbiterP, SimpleArbiterP enqueues its owner.       *)
(***************************************************************************)
THEOREM IsSharedResource == Spec => ImplementsSharedResource
<1>1. Init => Shared!Init
  BY DEF Init, Shared!Init
<1>2. /\ IInv /\ [Next]_vars /\ Owner = OwnerOnRecord /\ (Owner = OwnerOnRecord)'
      => [Shared!Next]_(Shared!vars)
  BY StepOfSharedResource
<1>3. QED
  BY <1>1, <1>2, OwnerIs, IInvInvariant, PTL DEF Spec, ImplementsSharedResource, Shared!Spec

-----------------------------------------------------------------------------
(***************************************************************************)
(* The bit map of RoundRobinResourceQueueC, in step with the queue.  A bit *)
(* is set in its byte for the clients that wait and for nobody else.       *)
(***************************************************************************)
MapInv ==
    /\ resQ \in [0..(Map!SIZE - 1) -> SUBSET (0..(BITS - 1))]
    /\ \A b \in 0..(Map!SIZE - 1) : \A k \in resQ[b] : b * BITS + k \in Clients
    /\ \A c \in Clients : Map!isEnqueued(c) <=> IsEnqueued(c)
    /\ served = last

\* Every client has a bit of its own.
LEMMA Places ==
    /\ \A c \in Clients : /\ c \div BITS \in 0..(Map!SIZE - 1)
                          /\ c % BITS \in 0..(BITS - 1)
                          /\ c = (c \div BITS) * BITS + (c % BITS)
    /\ \A b \in 0..(Map!SIZE - 1), k \in 0..(BITS - 1) :
          b * BITS + k \in Clients =>
              (b * BITS + k) \div BITS = b /\ (b * BITS + k) % BITS = k
<1> USE ClientIds, BitsAssumption
<1>1. ASSUME NEW c \in Clients
      PROVE  /\ c \div BITS \in 0..(Map!SIZE - 1)
             /\ c % BITS \in 0..(BITS - 1)
             /\ c = (c \div BITS) * BITS + (c % BITS)
  <2>1. c \in Nat /\ NumClients - 1 \in Nat /\ c <= NumClients - 1
    BY DEF Clients
  <2>2. c \div BITS <= (NumClients - 1) \div BITS
    BY <2>1
  <2>3. /\ c \div BITS \in Nat /\ (NumClients - 1) \div BITS \in Nat
        /\ c % BITS \in 0..(BITS - 1)
        /\ c = (c \div BITS) * BITS + (c % BITS)
    BY <2>1
  <2>4. QED
    BY <2>2, <2>3 DEF Map!SIZE
<1>2. ASSUME NEW b \in 0..(Map!SIZE - 1), NEW k \in 0..(BITS - 1), b * BITS + k \in Clients
      PROVE  (b * BITS + k) \div BITS = b /\ (b * BITS + k) % BITS = k
  <2>1. b \in Nat /\ k \in Nat /\ k < BITS
    BY <1>2, (NumClients - 1) \div BITS \in Nat DEF Map!SIZE
  <2>2. QED
    BY <2>1
<1>3. QED
  BY <1>1, <1>2

LEMMA SameBit ==
    ASSUME NEW c \in Clients, NEW d \in Clients
    PROVE  c \div BITS = d \div BITS /\ c % BITS = d % BITS => c = d
  BY Places

LEMMA InitMapInv == MapInit => MapInv
<1> SUFFICES ASSUME MapInit PROVE MapInv
  OBVIOUS
<1>1. resQ = [b \in 0..(Map!SIZE - 1) |-> {}] /\ served = 0 /\ last = 0 /\ waiting = <<>>
  BY DEF MapInit, Map!Init, Init, QueueInit
<1>2. QED
  BY <1>1, Places DEF MapInv, Map!isEnqueued, IsEnqueued

LEMMA SetBit ==
    ASSUME MapInv, NEW c \in Clients,
           resQ' = [resQ EXCEPT ![c \div BITS] = @ \cup {c % BITS}]
    PROVE  /\ resQ' \in [0..(Map!SIZE - 1) -> SUBSET (0..(BITS - 1))]
           /\ \A b \in 0..(Map!SIZE - 1) : \A k \in resQ'[b] : b * BITS + k \in Clients
           /\ \A d \in Clients : Map!isEnqueued(d)' <=> Map!isEnqueued(d) \/ d = c
<1> USE Places DEF MapInv
<1>1. \A b \in 0..(Map!SIZE - 1) :
          resQ'[b] = IF b = c \div BITS THEN resQ[b] \cup {c % BITS} ELSE resQ[b]
  OBVIOUS
<1>2. resQ' \in [0..(Map!SIZE - 1) -> SUBSET (0..(BITS - 1))]
  OBVIOUS
<1>3. \A b \in 0..(Map!SIZE - 1) : \A k \in resQ'[b] : b * BITS + k \in Clients
  BY <1>1
<1>4. \A d \in Clients : Map!isEnqueued(d)' <=> Map!isEnqueued(d) \/ d = c
  BY <1>1, SameBit DEF Map!isEnqueued
<1>5. QED
  BY <1>2, <1>3, <1>4

LEMMA ClearBit ==
    ASSUME MapInv, NEW c \in Clients, Map!clearEntry(c)
    PROVE  /\ resQ' \in [0..(Map!SIZE - 1) -> SUBSET (0..(BITS - 1))]
           /\ \A b \in 0..(Map!SIZE - 1) : \A k \in resQ'[b] : b * BITS + k \in Clients
           /\ \A d \in Clients : Map!isEnqueued(d)' <=> Map!isEnqueued(d) /\ d # c
<1> USE Places DEF MapInv, Map!clearEntry
<1>1. \A b \in 0..(Map!SIZE - 1) :
          resQ'[b] = IF b = c \div BITS THEN resQ[b] \ {c % BITS} ELSE resQ[b]
  OBVIOUS
<1>2. resQ' \in [0..(Map!SIZE - 1) -> SUBSET (0..(BITS - 1))]
  OBVIOUS
<1>3. \A b \in 0..(Map!SIZE - 1) : \A k \in resQ'[b] : b * BITS + k \in Clients
  BY <1>1
<1>4. \A d \in Clients : Map!isEnqueued(d)' <=> Map!isEnqueued(d) /\ d # c
  BY <1>1, SameBit DEF Map!isEnqueued
<1>5. QED
  BY <1>2, <1>3, <1>4

LEMMA MapEmpty ==
    ASSUME MapInv
    PROVE  Map!isEmpty <=> \A c \in Clients : ~ IsEnqueued(c)
<1>1. ASSUME NEW b \in 0..(Map!SIZE - 1), NEW k \in resQ[b]
      PROVE  \E c \in Clients : IsEnqueued(c)
  <2>1. b * BITS + k \in Clients /\ k \in 0..(BITS - 1)
    BY DEF MapInv
  <2>2. Map!isEnqueued(b * BITS + k)
    BY <2>1, Places DEF Map!isEnqueued
  <2>3. QED
    BY <2>1, <2>2 DEF MapInv
<1>2. ASSUME NEW c \in Clients, IsEnqueued(c)
      PROVE  ~ Map!isEmpty
  BY <1>2, Places DEF MapInv, Map!isEnqueued, Map!isEmpty
<1>3. QED
  BY <1>1, <1>2 DEF Map!isEmpty

-----------------------------------------------------------------------------
(***************************************************************************)
(* The scan of dequeue.  Its n-th client is the one the turn comes to      *)
(* after n - 1 others, and after NumClients it is back where it started.   *)
(***************************************************************************)
LEMMA Turns ==
    ASSUME MapInv, QueueTypeOK
    PROVE  /\ \A n \in 1..NumClients :
                 /\ Map!lookedAt(n) \in Clients
                 /\ Distance(Map!lookedAt(n)) = n - 1
                 /\ Map!lookedAt(n) = served <=> n = NumClients
           /\ \A c \in Clients : /\ Distance(c) \in 0..(NumClients - 1)
                                 /\ Map!lookedAt(Distance(c) + 1) = c
<1> DEFINE N == NumClients
<1>1. N \in Nat \ {0} /\ served = last /\ last \in 0..(N - 1)
  BY ClientIds DEF MapInv, QueueTypeOK, Clients
<1>2. /\ \A x \in 0..(N - 1) : x % N = x
      /\ \A x \in N..(2 * N - 1) : x % N = x - N
      /\ \A x \in (-N)..(-1) : x % N = x + N
  BY <1>1
<1> HIDE DEF N
<1>3. ASSUME NEW n \in 1..N
      PROVE  Map!lookedAt(n) = IF last + n < N THEN last + n ELSE last + n - N
  BY <1>1, <1>2 DEF Map!lookedAt, N
<1>4. ASSUME NEW c \in 0..(N - 1)
      PROVE  Distance(c) = IF c > last THEN c - last - 1 ELSE c - last - 1 + N
  BY <1>1, <1>2 DEF Distance, N
<1>5. Clients = 0..(N - 1)
  BY DEF Clients, N
<1>6. \A n \in 1..N : /\ Map!lookedAt(n) \in Clients
                      /\ Distance(Map!lookedAt(n)) = n - 1
                      /\ Map!lookedAt(n) = served <=> n = N
  BY <1>1, <1>3, <1>4, <1>5
<1>7. ASSUME NEW c \in Clients
      PROVE  Distance(c) \in 0..(N - 1) /\ Map!lookedAt(Distance(c) + 1) = c
  <2>1. c \in 0..(N - 1)
    BY <1>5
  <2>2. CASE c > last
    <3>1. Distance(c) = c - last - 1
      BY <1>4, <2>1, <2>2
    <3>2. PICK n \in 1..N : n = Distance(c) + 1 /\ last + n = c
      BY <1>1, <2>1, <2>2, <3>1
    <3>3. Map!lookedAt(Distance(c) + 1) = c
      <4>1. Map!lookedAt(n) = c
        BY <1>1, <1>3, <2>1, <3>2
      <4>2. QED
        BY <3>2, <4>1
    <3>4. QED
      BY <1>1, <2>1, <2>2, <3>1, <3>3
  <2>3. CASE ~ (c > last)
    <3>1. Distance(c) = c - last - 1 + N
      BY <1>4, <2>1, <2>3
    <3>2. PICK n \in 1..N : n = Distance(c) + 1 /\ last + n = c + N
      BY <1>1, <2>1, <2>3, <3>1
    <3>3. Map!lookedAt(Distance(c) + 1) = c
      <4>1. Map!lookedAt(n) = c
        BY <1>1, <1>3, <2>1, <3>2
      <4>2. QED
        BY <3>2, <4>1
    <3>4. QED
      BY <1>1, <2>1, <2>3, <3>1, <3>3
  <2>4. QED
    BY <2>2, <2>3
<1>8. QED
  BY <1>6, <1>7 DEF N

\* The places where the scan would stop, from the n-th on.
Stops(n) == {m \in n..NumClients : Map!isEnqueued(Map!lookedAt(m))}
FirstStop(n) == CHOOSE m \in Stops(n) : \A k \in Stops(n) : m <= k

LEMMA FirstStopIs ==
    ASSUME NEW n \in 1..NumClients, Stops(n) # {}
    PROVE  FirstStop(n) \in Stops(n) /\ \A k \in Stops(n) : FirstStop(n) <= k
<1> DEFINE S == Stops(n)
<1>1. S \subseteq Nat /\ S # {}
  BY ClientIds DEF Stops
<1>2. \E m \in S : \A k \in S : m <= k
  <2> HIDE DEF S
  <2>1. QED
    BY <1>1, SmallestNumber
<1>3. QED
  BY <1>2 DEF FirstStop

\* The loop, as a function of the place it has come to: it stops at the first client that
\* waits, and gives up when there is none before it is back at last.
LEMMA ScanIs ==
    ASSUME MapInv, QueueTypeOK
    PROVE  \A n \in 1..NumClients :
              Map!scan[n] = IF Map!isEnqueued(Map!lookedAt(n)) THEN Map!lookedAt(n)
                            ELSE IF Map!lookedAt(n) = served THEN -1 ELSE Map!scan[n + 1]
<1> DEFINE P == 1..NumClients
           Loop(g) == [n \in P |-> IF Map!isEnqueued(Map!lookedAt(n)) THEN Map!lookedAt(n)
                                   ELSE IF Map!lookedAt(n) = served THEN -1 ELSE g[n + 1]]
           h == [n \in P |-> IF Stops(n) # {} THEN Map!lookedAt(FirstStop(n)) ELSE -1]
<1>1. Map!scan = CHOOSE g : g = Loop(g)
  BY DEF Map!scan
<1>2. ASSUME NEW n \in P
      PROVE  h[n] = IF Map!isEnqueued(Map!lookedAt(n)) THEN Map!lookedAt(n)
                    ELSE IF Map!lookedAt(n) = served THEN -1 ELSE h[n + 1]
  <2>1. NumClients \in Nat /\ n \in Nat /\ n <= NumClients
    BY ClientIds
  <2>2. h[n] = IF Stops(n) # {} THEN Map!lookedAt(FirstStop(n)) ELSE -1
    OBVIOUS
  <2>3. CASE Map!isEnqueued(Map!lookedAt(n))
    <3>1. n \in Stops(n) /\ \A k \in Stops(n) : k \in Nat /\ n <= k
      BY <2>1, <2>3 DEF Stops
    <3>2. FirstStop(n) = n
      BY <2>1, <3>1, FirstStopIs
    <3>3. QED
      BY <2>2, <2>3, <3>1, <3>2
  <2>4. CASE ~ Map!isEnqueued(Map!lookedAt(n)) /\ n = NumClients
    <3>1. Stops(n) = {}
      BY <2>1, <2>4 DEF Stops
    <3>2. Map!lookedAt(n) = served
      BY <2>4, Turns
    <3>3. QED
      BY <2>2, <2>4, <3>1, <3>2
  <2>5. CASE ~ Map!isEnqueued(Map!lookedAt(n)) /\ n # NumClients
    <3>1. n + 1 \in P /\ Map!lookedAt(n) # served
      BY <2>1, <2>5, Turns
    <3>2. Stops(n + 1) = Stops(n)
      BY <2>1, <2>5 DEF Stops
    <3>3. FirstStop(n + 1) = FirstStop(n)
      BY <3>2 DEF FirstStop
    <3>4. h[n + 1] = IF Stops(n + 1) # {} THEN Map!lookedAt(FirstStop(n + 1)) ELSE -1
      BY <3>1
    <3>5. QED
      BY <2>2, <2>5, <3>1, <3>2, <3>3, <3>4
  <2>6. QED
    BY <2>3, <2>4, <2>5
<1>3. h = Loop(h)
  <2>1. h = [n \in P |-> h[n]]
    OBVIOUS
  <2> HIDE DEF h
  <2>2. QED
    BY <1>2, <2>1
<1> HIDE DEF h
<1>4. Map!scan = Loop(Map!scan)
  BY <1>1, <1>3
<1>5. QED
  BY <1>4

\* The scan of a queue that is not empty finds the client whose turn it is.
LEMMA ScanFindsNextUp ==
    ASSUME RoundRobin, QueueTypeOK, WaitOnce, MapInv, ~ IsEmpty
    PROVE  Map!scan[1] = NextUp
<1> DEFINE Bad == {n \in 1..NumClients : n <= FirstStop(1) /\ Map!scan[n] # NextUp}
<1>1. 1 \in 1..NumClients /\ NumClients \in Nat
  BY ClientIds
<1>2. PICK c \in Clients : IsEnqueued(c)
  BY EmptyIsNobody
<1>3. /\ NextUp \in Clients /\ IsEnqueued(NextUp)
      /\ \A d \in Clients : IsEnqueued(d) => Distance(NextUp) <= Distance(d)
  <2>1. NextPlace \in 1..Len(waiting)
    BY NextPlaceIsPlace DEF IsEmpty
  <2> DEFINE P == 1..Len(waiting)
             Least(i) == \A j \in P : Distance(waiting[i]) <= Distance(waiting[j])
  <2>2. \E i \in P : Least(i)
    <3> DEFINE Distances == {Distance(waiting[i]) : i \in P}
    <3>1. \A i \in P : Distance(waiting[i]) \in Nat
      BY Turns DEF QueueTypeOK
    <3>2. Distances \subseteq Nat /\ Distances # {}
      BY <2>1, <3>1
    <3>3. PICK d \in Distances : \A e \in Distances : d <= e
      <4> HIDE DEF Distances
      <4>1. QED
        BY <3>2, SmallestNumber
    <3>4. QED
      BY <3>3
  <2>3. NextPlace \in P /\ Least(NextPlace)
    <3>1. NextPlace = CHOOSE i \in P : Least(i)
      BY DEF NextPlace
    <3> HIDE DEF Least, P
    <3>2. QED
      BY <2>2, <3>1
  <2>4. QED
    BY <2>1, <2>3 DEF NextUp, QueueTypeOK, IsEnqueued
<1>4. Distance(NextUp) + 1 \in Stops(1)
  BY <1>1, <1>3, Turns DEF Stops, MapInv
<1>5. FirstStop(1) \in Stops(1) /\ \A k \in Stops(1) : FirstStop(1) <= k
  BY <1>1, <1>4, FirstStopIs
<1>6. Map!lookedAt(FirstStop(1)) = NextUp
  <2>1. /\ FirstStop(1) \in 1..NumClients
        /\ Map!lookedAt(FirstStop(1)) \in Clients
        /\ IsEnqueued(Map!lookedAt(FirstStop(1)))
        /\ Distance(Map!lookedAt(FirstStop(1))) = FirstStop(1) - 1
    BY <1>5, Turns DEF Stops, MapInv
  <2>2. Distance(NextUp) <= FirstStop(1) - 1 /\ FirstStop(1) <= Distance(NextUp) + 1
    BY <1>3, <1>4, <1>5, <2>1
  <2>3. FirstStop(1) = Distance(NextUp) + 1
    BY <1>3, <2>1, <2>2, Turns
  <2>4. QED
    BY <1>3, <2>3, Turns
<1>7. Bad = {}
  <2>1. FirstStop(1) \in 1..NumClients
    BY <1>5 DEF Stops
  <2> DEFINE Back == {FirstStop(1) - n : n \in Bad}
  <2>2. SUFFICES ASSUME Bad # {} PROVE FALSE
    OBVIOUS
  <2>3. Back \subseteq Nat /\ Back # {}
    BY <2>1, <2>2
  <2>4. PICK b \in Back : \A e \in Back : b <= e
    <3> HIDE DEF Back
    <3>1. QED
      BY <2>3, SmallestNumber
  <2>5. PICK n \in Bad : b = FirstStop(1) - n
    BY <2>4
  <2>6. n \in 1..NumClients /\ n <= FirstStop(1) /\ Map!scan[n] # NextUp
    BY <2>5
  <2>7. n + 1 \notin Bad
    <3>1. ASSUME n + 1 \in Bad
          PROVE  FALSE
      <4>1. FirstStop(1) - (n + 1) \in Back
        BY <3>1
      <4>2. FirstStop(1) - n <= FirstStop(1) - (n + 1)
        BY <2>4, <2>5, <4>1
      <4>3. QED
        BY <2>1, <2>6, <4>2
    <3>2. QED
      BY <3>1
  <2>8. CASE n = FirstStop(1)
    <3>1. Map!isEnqueued(Map!lookedAt(n))
      BY <1>5, <2>8 DEF Stops
    <3>2. QED
      BY <1>6, <2>6, <2>8, <3>1, ScanIs
  <2>9. CASE n # FirstStop(1)
    <3>1. n < FirstStop(1) /\ n + 1 \in 1..NumClients /\ n + 1 <= FirstStop(1)
      BY <1>1, <2>1, <2>6, <2>9
    <3>2. ~ Map!isEnqueued(Map!lookedAt(n))
      BY <1>5, <2>1, <2>6, <3>1 DEF Stops
    <3>3. Map!lookedAt(n) # served
      BY <2>1, <2>6, <3>1, Turns
    <3>4. Map!scan[n] = Map!scan[n + 1]
      BY <2>6, <3>2, <3>3, ScanIs
    <3>5. QED
      BY <2>6, <2>7, <3>1, <3>4
  <2>10. QED
    BY <2>8, <2>9
<1>8. 1 <= FirstStop(1)
  BY <1>5 DEF Stops
<1>9. QED
  BY <1>1, <1>7, <1>8

LEMMA MapInvInductive ==
    ASSUME RoundRobin, IInv, MapInv, [Next /\ QueueCalls]_<<vars, resQ, served>>
    PROVE  MapInv'
<1>1. QueueTypeOK /\ WaitOnce
  BY DEF IInv
<1>2. CASE UNCHANGED <<queueVars, resQ, served>>
  BY <1>2, QueueUnchanged DEF MapInv, Map!isEnqueued, queueVars
<1>3. ASSUME NEW c \in Clients, Next, waiting' = Append(waiting, c), Map!enqueue(c)
      PROVE  MapInv'
  <2>1. last' = last /\ served' = served
    <3>1. waiting' # waiting /\ ~ Dequeue
      <4>1. Len(waiting') = Len(waiting) + 1 /\ Len(waiting) \in Nat
        BY <1>1, <1>3 DEF QueueTypeOK
      <4>2. Dequeue => Len(waiting') = Len(waiting) - 1
        BY <1>1, DequeueRemoves
      <4>3. QED
        BY <4>1, <4>2
    <3>2. QED
      BY <1>3, <3>1 DEF Map!enqueue, Next, Request, RequestIdle, RequestBusy, Enqueue,
         ImmediateRequest, Release, ReleaseToNext, ReleaseToIdle, GrantedTask, Granted, queueVars
  <2>2. \A d \in Clients : IsEnqueued(d)' <=> IsEnqueued(d) \/ d = c
    <3>1. /\ Len(waiting') = Len(waiting) + 1 /\ Len(waiting) \in Nat
          /\ \A i \in 1..Len(waiting) : waiting'[i] = waiting[i]
          /\ waiting'[Len(waiting) + 1] = c
      BY <1>1, <1>3 DEF QueueTypeOK
    <3>2. QED
      BY <3>1 DEF IsEnqueued
  <2>3. QED
    BY <1>3, <2>1, <2>2, SetBit DEF Map!enqueue, MapInv
<1>4. CASE Next /\ Len(waiting') < Len(waiting) /\ Map!dequeue
  <2>1. Dequeue
    <3>1. waiting' # waiting /\ \A c \in Clients : ~ Enqueue(c)
      BY <1>1, <1>4 DEF Enqueue, QueueTypeOK
    <3>2. QED
      BY <1>4, <3>1 DEF Next, Request, RequestIdle, RequestBusy, ImmediateRequest, Release,
         ReleaseToNext, ReleaseToIdle, GrantedTask, Granted, queueVars
  <2>2. /\ NextUp \in Clients /\ last' = NextUp /\ ~ IsEmpty
        /\ \A d \in Clients : IsEnqueued(d)' <=> IsEnqueued(d) /\ d # NextUp
    BY <1>1, <2>1, DequeueType, DequeueRemoves DEF Dequeue, IsEmpty
  <2>3. Map!clearEntry(NextUp) /\ served' = NextUp
    BY <1>1, <1>4, <2>2, ScanFindsNextUp DEF Map!dequeue
  <2>4. QED
    BY <2>2, <2>3, ClearBit DEF MapInv
<1>5. QED
  BY <1>2, <1>3, <1>4 DEF QueueCalls, vars

(***************************************************************************)
(* SimpleRoundRobinArbiterC: the bit map answers as the queue it stands    *)
(* for, and the scan finds the client whose turn it is, for any number of  *)
(* clients and bits in a byte (RoundRobinResourceQueueC.nc:66-105).        *)
(***************************************************************************)
THEOREM MapStaysInStep ==
    ASSUME RoundRobin
    PROVE  MapSpec => []MapInStep
<1>1. IInv /\ MapInv => MapInStep
  BY EmptyIsNobody, MapEmpty, ScanFindsNextUp DEF IInv, MapInv, MapInStep
<1>2. IInv /\ MapInv /\ [Next /\ QueueCalls]_<<vars, resQ, served>> => MapInv'
  BY MapInvInductive
<1>3. MapSpec => Spec
  <2>1. MapInit => Init
    BY DEF MapInit
  <2>2. [Next /\ QueueCalls]_<<vars, resQ, served>> => [Next]_vars
    OBVIOUS
  <2>3. QED
    BY <2>1, <2>2, PTL DEF MapSpec, Spec
<1>4. QED
  BY <1>1, <1>2, <1>3, InitMapInv, IInvInvariant, PTL DEF MapSpec
=============================================================================
