----------------------------- MODULE Net_proofs -----------------------------
(***************************************************************************)
(* Proofs about the two protocols of tos/lib/net: the forwarding engine of *)
(* the collection tree, for any numbers of clients, entries, retries and   *)
(* cached packets, and whatever the radio and the routes do; and Drip, for *)
(* every network, every width of the two halves of a sequence number, and  *)
(* whatever messages are lost.                                             *)
(***************************************************************************)
EXTENDS CtpForwardingEngineP, Drip, FiniteSetTheorems, SequenceTheorems, TLAPS

(***************************************************************************)
(* Collection.  Pools and queues: the members of a set, each of them once. *)
(***************************************************************************)
Line(q, S) ==
    /\ q \in Seq(S)
    /\ Range(q) = S
    /\ IsInjective(q)

LEMMA LineByElements ==
    ASSUME NEW q, NEW S
    PROVE  Line(q, S) <=>
             /\ q \in Seq(S)
             /\ \A t \in S : \E i \in 1..Len(q) : q[i] = t
             /\ \A i, j \in 1..Len(q) : q[i] = q[j] => i = j
<1>1. CASE q \in Seq(S)
  <2>1. DOMAIN q = 1..Len(q) /\ \A i \in 1..Len(q) : q[i] \in S
    BY <1>1
  <2>2. QED
    BY <1>1, <2>1 DEF Line, Range, IsInjective
<1>2. CASE q \notin Seq(S)
  BY <1>2 DEF Line
<1>3. QED
  BY <1>1, <1>2

LEMMA LineHas ==
    ASSUME NEW q, NEW S, Line(q, S), NEW t
    PROVE  Contains(q, t) <=> t \in S
<1>1. \A i \in 1..Len(q) : q[i] \in S
  BY DEF Line
<1>2. QED
  BY <1>1, LineByElements DEF Contains

LEMMA LineEmpty ==
    ASSUME NEW q, NEW S, Line(q, S)
    PROVE  q = << >> <=> S = {}
<1>1. q \in Seq(S) /\ (q = << >> <=> Len(q) = 0) /\ Len(q) \in Nat
  BY DEF Line
<1>2. CASE S = {}
  <2>1. ~ (1 \in 1..Len(q))
    BY <1>1, <1>2
  <2>2. QED
    BY <1>1, <1>2, <2>1
<1>3. CASE S # {}
  <2>1. PICK t \in S : TRUE
    BY <1>3
  <2>2. PICK i \in 1..Len(q) : q[i] = t
    BY LineByElements
  <2>3. QED
    BY <1>1, <1>3, <2>2
<1>4. QED
  BY <1>2, <1>3

LEMMA LineAppend ==
    ASSUME NEW q, NEW S, Line(q, S), NEW t, t \notin S
    PROVE  Line(Append(q, t), S \cup {t})
<1> DEFINE r == Append(q, t)
<1>1. q \in Seq(S) /\ Len(q) \in Nat /\ \A i \in 1..Len(q) : q[i] \in S
  BY DEF Line
<1>2. q \in Seq(S \cup {t})
  BY <1>1
<1>3. /\ r \in Seq(S \cup {t}) /\ Len(r) = Len(q) + 1
      /\ \A i \in 1..Len(q) : r[i] = q[i]
  <2>1. r \in Seq(S \cup {t}) /\ Len(r) = Len(q) + 1
    BY <1>2
  <2>2. QED
    BY <1>2, <2>1
<1>4. r[Len(q) + 1] = t
  BY <1>2
<1> HIDE DEF r
<1>5. ASSUME NEW u \in S \cup {t}
      PROVE  \E i \in 1..Len(r) : r[i] = u
  <2>1. CASE u = t
    <3>1. Len(q) + 1 \in 1..Len(r)
      BY <1>1, <1>3
    <3>2. QED
      BY <1>4, <2>1, <3>1
  <2>2. CASE u \in S
    <3>1. PICK i \in 1..Len(q) : q[i] = u
      BY <2>2, LineByElements
    <3>2. i \in 1..Len(r) /\ r[i] = u
      BY <1>1, <1>3, <3>1
    <3>3. QED
      BY <3>2
  <2>3. QED
    BY <2>1, <2>2
<1>6. ASSUME NEW i \in 1..Len(r), NEW j \in 1..Len(r), r[i] = r[j]
      PROVE  i = j
  <2>1. \A k \in 1..Len(r) : k \in 1..Len(q) \/ k = Len(q) + 1
    BY <1>1, <1>3
  <2>2. \A k, l \in 1..Len(q) : q[k] = q[l] => k = l
    BY LineByElements
  <2>3. QED
    BY <1>1, <1>3, <1>4, <1>6, <2>1, <2>2
<1>7. Line(r, S \cup {t})
  BY <1>3, <1>5, <1>6, LineByElements
<1>8. QED
  BY <1>7 DEF r

LEMMA LineTail ==
    ASSUME NEW q, NEW S, Line(q, S), q # << >>
    PROVE  Head(q) \in S /\ Line(Tail(q), S \ {Head(q)})
<1> DEFINE r == Tail(q)
           h == Head(q)
<1>1. q \in Seq(S) /\ Len(q) \in Nat \ {0} /\ \A i \in 1..Len(q) : q[i] \in S
  <2>1. q \in Seq(S)
    BY DEF Line
  <2>2. QED
    BY <2>1
<1>2. \A i, j \in 1..Len(q) : q[i] = q[j] => i = j
  BY LineByElements
<1>3. h = q[1] /\ r \in Seq(S) /\ Len(r) = Len(q) - 1
  BY <1>1
<1>4. \A i \in 1..Len(q) - 1 : r[i] = q[i + 1]
  BY <1>1
<1> HIDE DEF r, h
<1>5. h \in S
  BY <1>1, <1>3
<1>6. \A i \in 1..Len(r) : r[i] = q[i + 1] /\ i + 1 \in 1..Len(q) /\ q[i + 1] \in S \ {h}
  <2>1. TAKE i \in 1..Len(r)
  <2>2. i + 1 \in 1..Len(q) /\ r[i] = q[i + 1] /\ i + 1 # 1 /\ 1 \in 1..Len(q)
    BY <1>1, <1>3, <1>4
  <2>3. q[i + 1] # q[1]
    BY <1>2, <2>2
  <2>4. QED
    BY <1>1, <1>3, <2>2, <2>3
<1>7. r \in Seq(S \ {h})
  <2>1. \A i \in 1..Len(r) : r[i] \in S \ {h}
    BY <1>6
  <2>2. QED
    BY <1>3, <2>1, ElementOfSeq, SeqDef
<1>8. ASSUME NEW t \in S \ {h}
      PROVE  \E i \in 1..Len(r) : r[i] = t
  <2>1. PICK k \in 1..Len(q) : q[k] = t
    BY LineByElements
  <2>2. k # 1
    BY <1>3, <2>1
  <2>3. k - 1 \in 1..Len(r) /\ (k - 1) + 1 = k
    BY <1>1, <1>3, <2>2
  <2>4. r[k - 1] = t
    BY <1>6, <2>1, <2>3
  <2>5. QED
    BY <2>3, <2>4
<1>9. ASSUME NEW i \in 1..Len(r), NEW j \in 1..Len(r), r[i] = r[j]
      PROVE  i = j
  <2>1. i + 1 = j + 1
    BY <1>2, <1>6, <1>9
  <2>2. QED
    BY <1>3, <2>1
<1>10. Line(r, S \ {h})
  BY <1>7, <1>8, <1>9, LineByElements
<1>11. QED
  BY <1>5, <1>10 DEF r, h

LEMMA LineLength ==
    ASSUME NEW q, NEW S, Line(q, S)
    PROVE  IsFiniteSet(S) /\ Len(q) = Cardinality(S)
<1> DEFINE n == Len(q)
<1>1. q \in Seq(S) /\ n \in Nat
  BY DEF Line
<1>2. q \in [1..n -> S]
  BY <1>1
<1>3. /\ \A t \in S : \E i \in 1..n : q[i] = t
      /\ \A i, j \in 1..n : q[i] = q[j] => i = j
  BY LineByElements
<1>4. q \in Bijection(1..n, S)
  <2> HIDE DEF n
  <2>1. DOMAIN q = 1..n
    BY <1>2
  <2>2. IsInjective(q)
    BY <1>3, <2>1 DEF IsInjective
  <2>3. QED
    BY <1>2, <1>3, <2>2 DEF Bijection, Injection, Surjection
<1>5. IsFiniteSet(1..n) /\ Cardinality(1..n) = n
  <2> HIDE DEF n
  <2>1. 1 \in Int /\ n \in Int
    BY <1>1
  <2>2. IsFiniteSet(1..n) /\ Cardinality(1..n) = IF 1 > n THEN 0 ELSE n - 1 + 1
    BY <2>1, FS_Interval
  <2>3. QED
    BY <1>1, <2>2
<1>6. ExistsBijection(1..n, S)
  BY <1>4 DEF ExistsBijection
<1> HIDE DEF n
<1>7. IsFiniteSet(S) /\ Cardinality(S) = n
  BY <1>5, <1>6, FS_Bijection
<1>8. QED
  BY <1>7 DEF n

LEMMA SequenceOfSet ==
    ASSUME NEW S, IsFiniteSet(S)
    PROVE  Line(SetToSeq(S), S)
<1> DEFINE n == Cardinality(S)
           f == SetToSeq(S)
<1>1. n \in Nat /\ ExistsBijection(1..n, S)
  BY FS_CardinalityType
<1>2. PICK g \in Bijection(1..n, S) : TRUE
  BY <1>1 DEF ExistsBijection
<1>3. \E h \in [1..n -> S] : IsInjective(h)
  BY <1>2 DEF Bijection, Injection
<1>4. f \in [1..n -> S] /\ IsInjective(f)
  BY <1>3 DEF SetToSeq
<1>5. f \in Injection(1..n, S)
  BY <1>4 DEF Injection
<1> HIDE DEF n, f
<1>6. IsFiniteSet(1..n) /\ Cardinality(1..n) = n
  <2>1. 1 \in Int /\ n \in Int
    BY <1>1
  <2>2. IsFiniteSet(1..n) /\ Cardinality(1..n) = IF 1 > n THEN 0 ELSE n - 1 + 1
    BY <2>1, FS_Interval
  <2>3. QED
    BY <1>1, <2>2
<1>7. f \in Surjection(1..n, S)
  <2>1. Cardinality(1..n) = Cardinality(S)
    BY <1>6 DEF n
  <2>2. QED
    BY <1>5, <2>1, FS_Injection
<1>8. Range(f) = S
  BY <1>4, <1>7 DEF Surjection, Range
<1>9. f \in Seq(S)
  BY <1>1, <1>4, SeqDef
<1>10. QED
  BY <1>4, <1>8, <1>9 DEF Line, f

LEMMA LineOfSequence ==
    ASSUME NEW S, NEW q \in Seq(S), IsInjective(q)
    PROVE  Line(q, Range(q)) /\ Range(q) \subseteq S
<1>1. DOMAIN q = 1..Len(q) /\ \A i \in 1..Len(q) : q[i] \in S
  OBVIOUS
<1>2. Range(q) \subseteq S /\ \A i \in 1..Len(q) : q[i] \in Range(q)
  BY <1>1 DEF Range
<1>3. Len(q) \in Nat /\ q = [i \in 1..Len(q) |-> q[i]]
  OBVIOUS
<1>4. q \in Seq(Range(q))
  BY <1>2, <1>3, SeqDef
<1>5. QED
  BY <1>2, <1>4 DEF Line

\* What comes back to a pool finds room: it is not in the pool.
LEMMA PutBack ==
    ASSUME NEW S, NEW q, Line(q, S), NEW x, x \notin S, NEW All, IsFiniteSet(All),
           S \cup {x} \subseteq All, NEW size, Cardinality(All) = size
    PROVE  Line(Put(q, x, size), S \cup {x})
<1>1. IsFiniteSet(S) /\ Len(q) = Cardinality(S)
  BY LineLength
<1>2. Cardinality(S \cup {x}) = Cardinality(S) + 1
  BY <1>1, FS_AddElement
<1>3. Cardinality(S \cup {x}) <= size
  BY FS_Subset
<1>4. size \in Nat /\ Len(q) \in Nat
  BY <1>1, FS_CardinalityType
<1>5. Len(q) < size
  BY <1>1, <1>2, <1>3, <1>4
<1>6. Put(q, x, size) = Append(q, x)
  BY <1>5 DEF Put
<1>7. QED
  BY <1>6, LineAppend

-----------------------------------------------------------------------------
(***************************************************************************)
(* The invariant.  BuffersAccounted is almost inductive: a root has given  *)
(* the radio nothing, so that what sendTask completes there is not in the  *)
(* radio, and an entry in the queue has been filled in.                    *)
(***************************************************************************)
FilledIn ==
    /\ \A c \in Range(SendQueue) \cap Clients : qe[c].msg = c
    /\ \A e \in Forwarded : qe[e].packet \in Instances

RootIsQuiet == isRoot => radio = NoPacket

CtpIInv == TypeOK /\ BuffersAccounted /\ FilledIn /\ RootIsQuiet

LEMMA QueuesAreLines ==
    ASSUME CtpIInv
    PROVE  /\ Line(SendQueue, Range(SendQueue)) /\ Range(SendQueue) \subseteq Clients \cup Entries
           /\ Line(QEntryPool, Entries \ Forwarded)
           /\ Line(MessagePool, Buffers \ (ForwardedMessages \cup {received}))
           /\ Line(cache, Range(cache)) /\ Range(cache) \subseteq Instances
<1>1. /\ SendQueue \in Seq(Clients \cup Entries) /\ IsInjective(SendQueue)
      /\ QEntryPool \in Seq(Entries) /\ IsInjective(QEntryPool)
      /\ MessagePool \in Seq(Buffers) /\ IsInjective(MessagePool)
      /\ cache \in Seq(Instances) /\ IsInjective(cache)
      /\ Range(QEntryPool) = Entries \ Forwarded
      /\ Range(MessagePool) = Buffers \ (ForwardedMessages \cup {received})
  BY DEF CtpIInv, TypeOK, BuffersAccounted, NothingLost, NoPacketTwice
<1>2. Line(SendQueue, Range(SendQueue)) /\ Range(SendQueue) \subseteq Clients \cup Entries
  BY <1>1, LineOfSequence
<1>3. Line(cache, Range(cache)) /\ Range(cache) \subseteq Instances
  BY <1>1, LineOfSequence
<1>4. Line(QEntryPool, Entries \ Forwarded)
  <2>1. Line(QEntryPool, Range(QEntryPool))
    BY <1>1, LineOfSequence
  <2>2. QED
    BY <1>1, <2>1
<1>5. Line(MessagePool, Buffers \ (ForwardedMessages \cup {received}))
  <2>1. Line(MessagePool, Range(MessagePool))
    BY <1>1, LineOfSequence
  <2>2. QED
    BY <1>1, <2>1
<1>6. QED
  BY <1>2, <1>3, <1>4, <1>5

\* The head of the queue leaves it.
LEMMA HeadLeaves ==
    ASSUME CtpIInv, SendQueue # << >>
    PROVE  /\ HeadEntry \in Range(SendQueue)
           /\ Line(Tail(SendQueue), Range(SendQueue) \ {HeadEntry})
           /\ Range(Tail(SendQueue)) = Range(SendQueue) \ {HeadEntry}
<1>1. HeadEntry \in Range(SendQueue) /\ Line(Tail(SendQueue), Range(SendQueue) \ {HeadEntry})
  BY QueuesAreLines, LineTail DEF HeadEntry
<1>2. QED
  BY <1>1 DEF Line

\* Only what is in the queue counts: the entries that stay in it keep what is in them.
SameForwarded ==
    /\ Forwarded' = Forwarded
    /\ \A e \in Forwarded : qe'[e].msg = qe[e].msg /\ qe'[e].packet = qe[e].packet

LEMMA SameForwardedKeeps ==
    ASSUME CtpIInv, SameForwarded,
           UNCHANGED <<QEntryPool, MessagePool, received>>,
           Line(SendQueue, Range(SendQueue))',
           Range(SendQueue') \cap Clients = Clients \ clientPtrs'
    PROVE  NothingLost'
<1>1. ForwardedMessages' = ForwardedMessages
  BY DEF ForwardedMessages, SameForwarded
<1>2. QED
  BY <1>1 DEF SameForwarded, CtpIInv, BuffersAccounted, NothingLost, Line

LEMMA SamePacketsKeep ==
    ASSUME CtpIInv, SameForwarded, UNCHANGED cache
    PROVE  NoPacketTwice'
  BY DEF SameForwarded, CtpIInv, BuffersAccounted, NoPacketTwice

\* What an action leaves alone.
LEMMA QueueUnchanged ==
    ASSUME CtpIInv, UNCHANGED <<SendQueue, clientPtrs, QEntryPool, MessagePool, qe, cache, received>>
    PROVE  NothingLost' /\ NoPacketTwice' /\ FilledIn'
<1>1. Forwarded' = Forwarded /\ ForwardedMessages' = ForwardedMessages
  BY DEF Forwarded, ForwardedMessages
<1>2. QED
  BY <1>1 DEF CtpIInv, BuffersAccounted, NothingLost, NoPacketTwice, FilledIn

LEMMA UnchangedKeepsCtpIInv == CtpIInv /\ UNCHANGED vars => CtpIInv'
<1> SUFFICES ASSUME CtpIInv, UNCHANGED vars PROVE CtpIInv'
  OBVIOUS
<1> USE DEF vars, engineVars
<1>1. TypeOK'
  BY DEF CtpIInv, TypeOK
<1>2. NothingLost' /\ NoPacketTwice' /\ FilledIn'
  BY QueueUnchanged
<1>3. QED
  BY <1>1, <1>2 DEF CtpIInv, BuffersAccounted, RootIsQuiet, HeadEntry

LEMMA CtpInit == EntriesAssumption /\ Init => CtpIInv
<1> SUFFICES ASSUME Init PROVE CtpIInv
  OBVIOUS
<1>1. received \in Buffers
  <2>1. Buffers # {}
    BY EntriesAssumption, FS_EmptySet, FS_CardinalityType
  <2>2. QED
    BY <2>1 DEF Init
<1>2. Line(QEntryPool, Entries) /\ Line(MessagePool, Buffers \ {received})
  <2>1. IsFiniteSet(Entries) /\ IsFiniteSet(Buffers \ {received})
    BY EntriesAssumption, FS_RemoveElement
  <2>2. QED
    BY <2>1, SequenceOfSet DEF Init
<1>3. /\ SendQueue = << >> /\ cache = << >> /\ clientPtrs = Clients /\ radio = NoPacket
      /\ Range(SendQueue) = {} /\ Range(cache) = {} /\ Forwarded = {} /\ ForwardedMessages = {}
  BY DEF Init, Range, Forwarded, ForwardedMessages
<1>4. Line(<< >>, {})
  BY DEF Line, Range, IsInjective
<1>5. NothingLost
  BY <1>1, <1>2, <1>3, <1>4 DEF NothingLost, Line
<1>6. NoPacketTwice
  BY <1>3, <1>4 DEF NoPacketTwice, Line
<1>7. TypeOK
  <2>1. QEntryPool \in Seq(Entries) /\ MessagePool \in Seq(Buffers)
    BY <1>2 DEF Line
  <2>2. qe \in [Clients \cup Entries -> [msg : Clients \cup Buffers \cup {NoPacket},
                                         packet : Clients \cup Instances \cup {NoPacket},
                                         retries : 0..MaxRetries]]
    BY CacheAssumption DEF Init, FreeEntry
  <2>3. {SENDING, ACK_PENDING, RADIO_ON, sendTask, RetxmitTimer, isRoot, hasRoute} \subseteq BOOLEAN
    BY DEF Init
  <2>4. cache \in Seq(Instances) /\ Len(cache) <= CacheSize /\ SendQueue \in Seq(Clients \cup Entries)
    BY <1>3, CacheAssumption
  <2>5. changes \in 0..Changes /\ power \in {"off", "on", "stopping"}
    BY ChangesAssumption DEF Init
  <2>6. QED
    BY <1>1, <1>3, <2>1, <2>2, <2>3, <2>4, <2>5 DEF TypeOK
<1>8. QED
  BY <1>3, <1>5, <1>6, <1>7 DEF CtpIInv, BuffersAccounted, FilledIn, RootIsQuiet

-----------------------------------------------------------------------------
(* The packet at the head of the queue is done with.                       *)

EntryValues == [msg : Clients \cup Buffers \cup {NoPacket},
                packet : Clients \cup Instances \cup {NoPacket},
                retries : 0..MaxRetries]

\* The variables that packetComplete and RetryOrDrop may change keep their types.
PoolTypes ==
    /\ SENDING \in BOOLEAN /\ clientPtrs \subseteq Clients
    /\ QEntryPool \in Seq(Entries) /\ MessagePool \in Seq(Buffers)
    /\ SendQueue \in Seq(Clients \cup Entries)
    /\ qe \in [Clients \cup Entries -> EntryValues]
    /\ cache \in Seq(Instances) /\ Len(cache) <= CacheSize

LEMMA TypesOfPools == CtpIInv => PoolTypes /\ received \in Buffers /\ radio \in Clients \cup Buffers \cup {NoPacket}
  BY DEF CtpIInv, TypeOK, PoolTypes, EntryValues

\* The entry of a client: the client has it back.
LEMMA ClientsPacketCompletes ==
    ASSUME CtpIInv, SendQueue # << >>, HeadEntry \in Clients, NEW success,
           Dequeued(HeadEntry, success), UNCHANGED received, NamesAssumption
    PROVE  PoolTypes' /\ NothingLost' /\ NoPacketTwice' /\ FilledIn'
<1> DEFINE h == HeadEntry
<1>1. /\ SendQueue' = Tail(SendQueue) /\ SENDING' = FALSE
      /\ qe' = [qe EXCEPT ![h] = FreeEntry] /\ clientPtrs' = clientPtrs \cup {h}
      /\ UNCHANGED <<QEntryPool, MessagePool, cache>>
  BY NamesAssumption DEF Dequeued, packetComplete
<1>2. /\ h \in Clients /\ h \notin Entries /\ h \in Range(SendQueue)
      /\ Range(SendQueue') = Range(SendQueue) \ {h} /\ Line(SendQueue, Range(SendQueue))'
  BY <1>1, HeadLeaves, NamesAssumption
<1> HIDE DEF h
<1>3. PoolTypes /\ Range(SendQueue) \cap Clients = Clients \ clientPtrs
  BY TypesOfPools DEF CtpIInv, BuffersAccounted, NothingLost
<1>4. \A u \in (Clients \cup Entries) \ {h} : qe'[u] = qe[u]
  BY <1>1, <1>3 DEF PoolTypes
<1>5. SameForwarded
  BY <1>2, <1>4 DEF SameForwarded, Forwarded
<1>6. NoPacketTwice'
  BY <1>1, <1>5, SamePacketsKeep
<1>7. NothingLost'
  <2>1. Range(SendQueue') \cap Clients = Clients \ clientPtrs'
    BY <1>1, <1>2, <1>3
  <2>2. QED
    BY <1>1, <1>2, <1>5, <2>1, SameForwardedKeeps
<1>8. FilledIn'
  BY <1>2, <1>4, <1>5 DEF SameForwarded, CtpIInv, FilledIn
<1>9. PoolTypes'
  <2>1. FreeEntry \in EntryValues
    BY CacheAssumption DEF FreeEntry, EntryValues
  <2>2. qe' \in [Clients \cup Entries -> EntryValues]
    BY <1>1, <1>3, <2>1 DEF PoolTypes
  <2>3. SendQueue' \in Seq(Clients \cup Entries)
    <3>1. SendQueue \in Seq(Clients \cup Entries)
      BY <1>3 DEF PoolTypes
    <3>2. QED
      BY <1>1, <3>1
  <2>4. QED
    BY <1>1, <1>2, <1>3, <2>2, <2>3 DEF PoolTypes
<1>10. QED
  BY <1>6, <1>7, <1>8, <1>9

\* The cache takes a packet that is not in it.
LEMMA InsertedIs ==
    ASSUME CtpIInv, NEW i \in Instances, i \notin Range(cache)
    PROVE  /\ Line(Inserted(i), Range(Inserted(i)))
           /\ Range(Inserted(i)) \subseteq Range(cache) \cup {i}
           /\ Inserted(i) \in Seq(Instances) /\ Len(Inserted(i)) <= CacheSize
<1>1. /\ Line(cache, Range(cache)) /\ cache \in Seq(Instances)
      /\ Len(cache) \in Nat /\ Len(cache) <= CacheSize
  BY QueuesAreLines, TypesOfPools DEF PoolTypes
<1>2. CacheSize \in Nat \ {0}
  BY CacheAssumption
<1>3. CASE Len(cache) < CacheSize
  <2>1. Inserted(i) = Append(cache, i)
    BY <1>3 DEF Inserted
  <2>2. Line(Inserted(i), Range(cache) \cup {i})
    BY <1>1, <2>1, LineAppend
  <2>3. Inserted(i) \in Seq(Instances) /\ Len(Inserted(i)) = Len(cache) + 1
    BY <1>1, <2>1
  <2>4. Range(Inserted(i)) = Range(cache) \cup {i}
    BY <2>2 DEF Line
  <2>5. QED
    BY <1>1, <1>2, <1>3, <2>2, <2>3, <2>4
<1>4. CASE ~ (Len(cache) < CacheSize)
  <2>1. ~ Contains(cache, i)
    BY <1>1, LineHas
  <2>2. Inserted(i) = Append(Tail(cache), i)
    BY <1>4, <2>1 DEF Inserted
  <2>3. cache # << >>
    BY <1>1, <1>2, <1>4
  <2>4. Line(Tail(cache), Range(cache) \ {Head(cache)})
    BY <1>1, <2>3, LineTail
  <2>5. Line(Inserted(i), (Range(cache) \ {Head(cache)}) \cup {i})
    BY <2>2, <2>4, LineAppend
  <2>6. Tail(cache) \in Seq(Instances) /\ Len(Tail(cache)) = Len(cache) - 1
    BY <1>1, <2>3
  <2>7. Inserted(i) \in Seq(Instances) /\ Len(Inserted(i)) = Len(cache)
    BY <1>1, <2>2, <2>6
  <2>8. Range(Inserted(i)) = (Range(cache) \ {Head(cache)}) \cup {i}
    BY <2>5 DEF Line
  <2>9. QED
    BY <1>1, <2>5, <2>7, <2>8
<1>5. QED
  BY <1>3, <1>4

\* The entry of a forwarded packet: it and its message go back to their pools.
LEMMA ForwardedPacketCompletes ==
    ASSUME CtpIInv, SendQueue # << >>, HeadEntry \in Entries, NEW success,
           Dequeued(HeadEntry, success), UNCHANGED received, NamesAssumption, EntriesAssumption
    PROVE  PoolTypes' /\ NothingLost' /\ NoPacketTwice' /\ FilledIn'
<1> DEFINE h == HeadEntry
           size == Cardinality(Entries)
<1>1. /\ SendQueue' = Tail(SendQueue) /\ SENDING' = FALSE
      /\ qe' = [qe EXCEPT ![h] = FreeEntry] /\ UNCHANGED clientPtrs
      /\ MessagePool' = Put(MessagePool, qe[h].msg, size)
      /\ QEntryPool' = Put(QEntryPool, h, size)
      /\ cache' = IF success THEN Inserted(qe[h].packet) ELSE cache
  BY NamesAssumption DEF Dequeued, packetComplete
<1>2. /\ h \in Entries /\ h \notin Clients /\ h \in Range(SendQueue)
      /\ Range(SendQueue') = Range(SendQueue) \ {h} /\ Line(SendQueue, Range(SendQueue))'
  BY <1>1, HeadLeaves, NamesAssumption
<1> HIDE DEF h
<1>3. PoolTypes /\ received \in Buffers
  BY TypesOfPools
<1>4. \A u \in (Clients \cup Entries) \ {h} : qe'[u] = qe[u]
  BY <1>1, <1>3 DEF PoolTypes
<1>5. h \in Forwarded /\ Forwarded' = Forwarded \ {h} /\ Forwarded \subseteq Entries
  BY <1>2 DEF Forwarded
<1>6. /\ \A e, f \in Forwarded : qe[e].msg = qe[f].msg => e = f
      /\ \A e \in Forwarded : qe[e].msg \in Buffers /\ qe[e].msg # received
      /\ \A e, f \in Forwarded : qe[e].packet = qe[f].packet => e = f
      /\ \A e \in Forwarded : qe[e].packet \notin Range(cache)
      /\ \A e \in Forwarded : qe[e].packet \in Instances
      /\ Range(SendQueue) \cap Clients = Clients \ clientPtrs
  <2>1. /\ \A e, f \in Forwarded : qe[e].msg = qe[f].msg => e = f
        /\ ForwardedMessages \subseteq Buffers \ {received}
        /\ \A e, f \in Forwarded : qe[e].packet = qe[f].packet => e = f
        /\ \A e \in Forwarded : ~ Contains(cache, qe[e].packet)
        /\ \A e \in Forwarded : qe[e].packet \in Instances
        /\ Range(SendQueue) \cap Clients = Clients \ clientPtrs
    BY DEF CtpIInv, BuffersAccounted, NothingLost, NoPacketTwice, FilledIn
  <2>2. \A e \in Forwarded : qe[e].msg \in ForwardedMessages
    BY DEF ForwardedMessages
  <2>3. \A e \in Forwarded : qe[e].packet \notin Range(cache)
    BY <2>1, QueuesAreLines, LineHas
  <2>4. QED
    BY <2>1, <2>2, <2>3
<1>7. IsFiniteSet(Entries) /\ IsFiniteSet(Buffers) /\ Cardinality(Buffers) = size + 1 /\ size \in Nat
  BY EntriesAssumption, FS_CardinalityType
<1> HIDE DEF size
<1>8. Line(QEntryPool', Entries \ Forwarded')
  <2>1. Line(Put(QEntryPool, h, size), (Entries \ Forwarded) \cup {h})
    <3>1. h \notin Entries \ Forwarded /\ (Entries \ Forwarded) \cup {h} \subseteq Entries
      BY <1>5
    <3>2. QED
      BY <1>7, <3>1, QueuesAreLines, PutBack DEF size
  <2>2. (Entries \ Forwarded) \cup {h} = Entries \ Forwarded'
    BY <1>5
  <2>3. QED
    BY <1>1, <2>1, <2>2
<1> DEFINE free == Buffers \ (ForwardedMessages \cup {received})
<1>9. ForwardedMessages' = ForwardedMessages \ {qe[h].msg} /\ qe[h].msg \in ForwardedMessages
  <2>1. \A e \in Forwarded' : qe'[e].msg = qe[e].msg /\ e \in Forwarded /\ e # h
    BY <1>4, <1>5
  <2>2. ForwardedMessages' = {qe[e].msg : e \in Forwarded \ {h}}
    BY <1>5, <2>1 DEF ForwardedMessages
  <2>3. QED
    BY <1>5, <1>6, <2>2 DEF ForwardedMessages
<1>10. Line(MessagePool', Buffers \ (ForwardedMessages' \cup {received'}))
  <2>1. qe[h].msg \notin free /\ qe[h].msg # received /\ qe[h].msg \in Buffers
    BY <1>5, <1>6, <1>9
  <2>2. free \cup {qe[h].msg} \subseteq Buffers \ {received}
    BY <2>1
  <2>3. IsFiniteSet(Buffers \ {received}) /\ Cardinality(Buffers \ {received}) = size
    <3>1. /\ IsFiniteSet(Buffers \ {received})
          /\ Cardinality(Buffers \ {received}) = Cardinality(Buffers) - 1
      BY <1>3, <1>7, FS_RemoveElement
    <3>2. QED
      BY <1>7, <3>1
  <2>4. Line(MessagePool, free)
    BY QueuesAreLines
  <2>5. free \cup {qe[h].msg} = Buffers \ (ForwardedMessages' \cup {received'})
    BY <1>9, <2>1
  <2> HIDE DEF free
  <2>6. Line(Put(MessagePool, qe[h].msg, size), free \cup {qe[h].msg})
    BY <2>1, <2>2, <2>3, <2>4, PutBack
  <2>7. QED
    BY <1>1, <2>5, <2>6
<1>11. NothingLost'
  <2>1. Range(SendQueue') \cap Clients = Clients \ clientPtrs'
    BY <1>1, <1>2, <1>6
  <2>2. /\ \A e, f \in Forwarded' : qe'[e].msg = qe'[f].msg => e = f
        /\ \A e \in Forwarded' : qe'[e].msg \in Buffers /\ qe'[e].msg # received'
    BY <1>4, <1>5, <1>6
  <2>3. ForwardedMessages' \subseteq Buffers \ {received'}
    BY <2>2 DEF ForwardedMessages
  <2>4. QED
    BY <1>2, <1>8, <1>10, <2>1, <2>2, <2>3 DEF NothingLost, Line
<1>12. /\ Line(cache', Range(cache'))
       /\ Range(cache') \subseteq Range(cache) \cup {qe[h].packet}
       /\ cache' \in Seq(Instances) /\ Len(cache') <= CacheSize
  <2>1. CASE success
    BY <1>1, <1>5, <1>6, <2>1, InsertedIs
  <2>2. CASE ~ success
    BY <1>1, <1>3, <2>2, QueuesAreLines DEF PoolTypes
  <2>3. QED
    BY <2>1, <2>2
<1>13. NoPacketTwice'
  <2>1. \A e, f \in Forwarded' : qe'[e].packet = qe'[f].packet => e = f
    BY <1>4, <1>5, <1>6
  <2>2. \A e \in Forwarded' : qe'[e].packet \notin Range(cache')
    BY <1>4, <1>5, <1>6, <1>12
  <2>3. \A e \in Forwarded' : ~ Contains(cache', qe'[e].packet)
    BY <1>12, <2>2, LineHas
  <2>4. QED
    BY <1>12, <2>1, <2>3 DEF NoPacketTwice, Line
<1>14. FilledIn'
  <2>1. \A c \in Range(SendQueue') \cap Clients : qe'[c].msg = c
    BY <1>2, <1>4 DEF CtpIInv, FilledIn
  <2>2. \A e \in Forwarded' : qe'[e].packet \in Instances
    BY <1>4, <1>5, <1>6
  <2>3. QED
    BY <2>1, <2>2 DEF FilledIn
<1>15. PoolTypes'
  <2>1. FreeEntry \in EntryValues
    BY CacheAssumption DEF FreeEntry, EntryValues
  <2>2. qe' \in [Clients \cup Entries -> EntryValues]
    BY <1>1, <1>3, <2>1 DEF PoolTypes
  <2>3. SendQueue' \in Seq(Clients \cup Entries)
    <3>1. SendQueue \in Seq(Clients \cup Entries)
      BY <1>3 DEF PoolTypes
    <3>2. QED
      BY <1>1, <3>1
  <2>4. QEntryPool' \in Seq(Entries)
    BY <1>8 DEF Line
  <2>5. MessagePool' \in Seq(Buffers)
    BY <1>10 DEF Line
  <2>6. QED
    BY <1>1, <1>3, <1>12, <2>2, <2>3, <2>4, <2>5 DEF PoolTypes
<1>16. QED
  BY <1>11, <1>13, <1>14, <1>15

LEMMA DequeuedKeeps ==
    ASSUME CtpIInv, SendQueue # << >>, NEW success,
           Dequeued(HeadEntry, success), UNCHANGED received, NamesAssumption, EntriesAssumption
    PROVE  PoolTypes' /\ NothingLost' /\ NoPacketTwice' /\ FilledIn'
<1>1. HeadEntry \in Clients \cup Entries
  BY HeadLeaves, QueuesAreLines
<1>2. QED
  BY <1>1, ClientsPacketCompletes, ForwardedPacketCompletes

\* It stays at the head, with a retry less.
LEMMA RetryKeeps ==
    ASSUME CtpIInv, SendQueue # << >>, RetryOrDrop(HeadEntry), UNCHANGED received,
           SENDING' \in BOOLEAN, NamesAssumption, EntriesAssumption
    PROVE  PoolTypes' /\ NothingLost' /\ NoPacketTwice' /\ FilledIn'
<1> DEFINE h == HeadEntry
<1>1. h \in Range(SendQueue) /\ h \in Clients \cup Entries
  BY HeadLeaves, QueuesAreLines
<1>2. CASE Dequeued(h, FALSE)
  BY <1>2, DequeuedKeeps
<1>3. CASE /\ qe[h].retries > 1 /\ qe' = [qe EXCEPT ![h].retries = @ - 1]
           /\ UNCHANGED <<SENDING, SendQueue, clientPtrs, QEntryPool, MessagePool, cache, report>>
  <2> HIDE DEF h
  <2>1. PoolTypes
    BY TypesOfPools
  <2>2. \A u \in Clients \cup Entries : qe'[u].msg = qe[u].msg /\ qe'[u].packet = qe[u].packet
    BY <1>1, <1>3, <2>1 DEF PoolTypes, EntryValues
  <2>3. SameForwarded
    BY <1>3, <2>2 DEF SameForwarded, Forwarded
  <2>4. qe' \in [Clients \cup Entries -> EntryValues]
    <3>1. qe[h] \in EntryValues /\ qe[h].retries - 1 \in 0..MaxRetries
      BY <1>1, <1>3, <2>1, CacheAssumption DEF PoolTypes, EntryValues
    <3>2. [qe[h] EXCEPT !.retries = @ - 1] \in EntryValues
      BY <3>1 DEF EntryValues
    <3>3. qe' = [qe EXCEPT ![h] = [qe[h] EXCEPT !.retries = @ - 1]]
      BY <1>3
    <3>4. QED
      BY <2>1, <3>2, <3>3 DEF PoolTypes
  <2>5. PoolTypes'
    BY <1>3, <2>1, <2>4 DEF PoolTypes
  <2>6. NothingLost'
    <3>1. Line(SendQueue', Range(SendQueue'))
      BY <1>3, QueuesAreLines
    <3>2. Range(SendQueue') \cap Clients = Clients \ clientPtrs'
      BY <1>3 DEF CtpIInv, BuffersAccounted, NothingLost
    <3>3. QED
      BY <1>3, <2>3, <3>1, <3>2, SameForwardedKeeps
  <2>7. NoPacketTwice'
    BY <1>3, <2>3, SamePacketsKeep
  <2>8. FilledIn'
    BY <1>3, <2>2, <2>3 DEF SameForwarded, CtpIInv, FilledIn
  <2>9. QED
    BY <2>5, <2>6, <2>7, <2>8
<1>4. QED
  BY <1>2, <1>3 DEF RetryOrDrop

\* sendDone frees what it should, and nothing twice.
LEMMA SubSendDoneKeeps ==
    ASSUME CtpIInv, SendQueue # << >>, NEW error, NEW acked, SubSendDone(HeadEntry, error, acked),
           UNCHANGED received, NamesAssumption, EntriesAssumption
    PROVE  /\ PoolTypes' /\ NothingLost' /\ NoPacketTwice' /\ FilledIn'
           /\ RetxmitTimer' = TRUE
<1>1. CASE UNCHANGED <<SENDING, SendQueue, poolVars>>
  <2>1. PoolTypes'
    BY <1>1, TypesOfPools DEF PoolTypes, poolVars
  <2>2. NothingLost' /\ NoPacketTwice' /\ FilledIn'
    BY <1>1, QueueUnchanged DEF poolVars
  <2>3. QED
    BY <2>1, <2>2 DEF SubSendDone
<1>2. CASE RetryOrDrop(HeadEntry)
  <2>1. SENDING' \in BOOLEAN
    BY <1>2, TypesOfPools DEF RetryOrDrop, Dequeued, PoolTypes
  <2>2. QED
    BY <1>2, <2>1, RetryKeeps DEF SubSendDone
<1>3. CASE Dequeued(HeadEntry, TRUE)
  BY <1>3, DequeuedKeeps DEF SubSendDone
<1>4. QED
  BY <1>1, <1>2, <1>3 DEF SubSendDone

-----------------------------------------------------------------------------
(* Every step keeps the invariant.                                         *)

RestTypes ==
    /\ ACK_PENDING \in BOOLEAN /\ RADIO_ON \in BOOLEAN /\ sendTask \in BOOLEAN
    /\ RetxmitTimer \in BOOLEAN /\ isRoot \in BOOLEAN /\ hasRoute \in BOOLEAN
    /\ changes \in 0..Changes
    /\ power \in {"off", "on", "stopping"}
    /\ radio \in Clients \cup Buffers \cup {NoPacket}
    /\ received \in Buffers

LEMMA AllTypes == TypeOK <=> PoolTypes /\ RestTypes
  BY DEF TypeOK, PoolTypes, RestTypes, EntryValues

\* What the radio sends is what its sendDone will be taken for.
RadioHasHead == radio # NoPacket => SendQueue # << >> /\ radio = qe[HeadEntry].msg

LEMMA CtpParts ==
    CtpIInv <=> PoolTypes /\ RestTypes /\ NothingLost /\ NoPacketTwice /\ FilledIn
                    /\ RadioHasHead /\ RootIsQuiet
  BY AllTypes DEF CtpIInv, BuffersAccounted, RadioHasHead

LEMMA CtpPartsNext ==
    CtpIInv' <=> (PoolTypes /\ RestTypes /\ NothingLost /\ NoPacketTwice /\ FilledIn
                    /\ RadioHasHead /\ RootIsQuiet)'
  BY CtpParts, PTL

LEMMA SendKeeps ==
    ASSUME CtpIInv, NEW c \in Clients, Send(c), NamesAssumption
    PROVE  CtpIInv'
<1> USE DEF Send
<1>1. PoolTypes /\ RestTypes /\ RadioHasHead /\ RootIsQuiet /\ FilledIn
  BY CtpParts
<1>2. Range(SendQueue) \cap Clients = Clients \ clientPtrs /\ c \in clientPtrs /\ c \notin Entries
  BY NamesAssumption DEF CtpIInv, BuffersAccounted, NothingLost
<1>3. Line(SendQueue', Range(SendQueue) \cup {c})
  BY <1>2, QueuesAreLines, LineAppend
<1>4. Line(SendQueue', Range(SendQueue')) /\ Range(SendQueue') = Range(SendQueue) \cup {c}
  BY <1>3 DEF Line
<1>5. \A u \in (Clients \cup Entries) \ {c} : qe'[u] = qe[u]
  BY <1>1 DEF PoolTypes
<1>6. qe'[c] = [msg |-> c, packet |-> c, retries |-> MaxRetries]
  BY <1>1 DEF PoolTypes
<1>7. SameForwarded
  BY <1>2, <1>4, <1>5 DEF SameForwarded, Forwarded
<1>8. NothingLost'
  <2>1. Range(SendQueue') \cap Clients = Clients \ clientPtrs'
    BY <1>2, <1>4
  <2>2. QED
    BY <1>4, <1>7, <2>1, SameForwardedKeeps
<1>9. NoPacketTwice'
  BY <1>7, SamePacketsKeep
<1>10. FilledIn'
  <2>1. \A d \in Range(SendQueue') \cap Clients : qe'[d].msg = d
    BY <1>1, <1>4, <1>5, <1>6 DEF FilledIn
  <2>2. QED
    BY <1>1, <1>7, <2>1 DEF FilledIn, SameForwarded
<1>11. PoolTypes'
  <2>1. [msg |-> c, packet |-> c, retries |-> MaxRetries] \in EntryValues
    BY CacheAssumption DEF EntryValues
  <2>2. qe' \in [Clients \cup Entries -> EntryValues]
    BY <1>1, <2>1 DEF PoolTypes
  <2>3. SendQueue' \in Seq(Clients \cup Entries)
    BY <1>1 DEF PoolTypes
  <2>4. QED
    BY <1>1, <2>2, <2>3 DEF PoolTypes
<1>12. RestTypes'
  BY <1>1 DEF RestTypes
<1>13. RadioHasHead'
  <2>1. CASE radio = NoPacket
    BY <2>1 DEF RadioHasHead
  <2>2. CASE radio # NoPacket
    <3>1. SendQueue # << >> /\ radio = qe[HeadEntry].msg /\ HeadEntry \in Range(SendQueue)
      BY <1>1, <2>2, HeadLeaves DEF RadioHasHead
    <3>2. HeadEntry \in Clients \cup Entries /\ HeadEntry # c
      BY <1>2, <3>1, QueuesAreLines
    <3>3. SendQueue' # << >> /\ HeadEntry' = HeadEntry
      BY <1>1, <3>1 DEF PoolTypes, HeadEntry
    <3>4. QED
      BY <1>5, <3>1, <3>2, <3>3 DEF RadioHasHead
  <2>3. QED
    BY <2>1, <2>2
<1>14. RootIsQuiet'
  BY <1>1 DEF RootIsQuiet
<1>15. QED
  BY <1>8, <1>9, <1>10, <1>11, <1>12, <1>13, <1>14, CtpPartsNext

LEMMA SendTaskKeeps ==
    ASSUME CtpIInv, SendTask, NamesAssumption, EntriesAssumption
    PROVE  CtpIInv'
<1>1. PoolTypes /\ RestTypes /\ RadioHasHead /\ RootIsQuiet
  BY CtpParts
<1>2. CASE SendTaskIdle \/ SendTaskNoRoute
  <2> USE <1>2 DEF SendTaskIdle, SendTaskNoRoute, poolVars
  <2>1. NothingLost' /\ NoPacketTwice' /\ FilledIn'
    BY QueueUnchanged
  <2>2. PoolTypes'
    BY <1>1 DEF PoolTypes
  <2>3. RestTypes'
    BY <1>1 DEF RestTypes
  <2>4. RadioHasHead' /\ RootIsQuiet'
    BY <1>1 DEF RadioHasHead, RootIsQuiet, HeadEntry
  <2>5. QED
    BY <2>1, <2>2, <2>3, <2>4, CtpPartsNext
<1>3. CASE SendTaskRoot
  <2> USE <1>3 DEF SendTaskRoot
  <2>1. PICK acked \in BOOLEAN : SubSendDone(HeadEntry, "SUCCESS", acked)
    OBVIOUS
  <2>2. SendQueue # << >> /\ UNCHANGED received
    BY DEF RunsSendTask
  <2>3. /\ PoolTypes' /\ NothingLost' /\ NoPacketTwice' /\ FilledIn' /\ RetxmitTimer' = TRUE
    BY <2>1, <2>2, SubSendDoneKeeps
  <2>4. RestTypes'
    BY <1>1, <2>3 DEF RestTypes
  <2>5. RadioHasHead' /\ RootIsQuiet'
    BY <1>1 DEF RadioHasHead, RootIsQuiet
  <2>6. QED
    BY <2>3, <2>4, <2>5, CtpPartsNext
<1>4. CASE SendTaskSends
  <2> USE <1>4 DEF SendTaskSends, poolVars
  <2>1. NothingLost' /\ NoPacketTwice' /\ FilledIn'
    BY QueueUnchanged
  <2>2. PoolTypes'
    BY <1>1 DEF PoolTypes
  <2>3. HeadEntry' = HeadEntry /\ SendQueue' # << >>
    BY DEF HeadEntry, RunsSendTask
  <2>4. RadioHasHead' /\ RootIsQuiet'
    BY <1>1, <2>3 DEF RadioHasHead, RootIsQuiet
  <2>5. RestTypes'
    <3>1. qe[HeadEntry].msg \in Clients \cup Buffers \cup {NoPacket}
      <4>1. HeadEntry \in Clients \cup Entries
        BY <2>3, HeadLeaves, QueuesAreLines
      <4>2. QED
        BY <1>1, <4>1 DEF PoolTypes, EntryValues
    <3>2. radio' \in Clients \cup Buffers \cup {NoPacket}
      BY <1>1, <3>1 DEF RestTypes
    <3>3. QED
      BY <1>1, <3>2 DEF RestTypes
  <2>6. QED
    BY <2>1, <2>2, <2>4, <2>5, CtpPartsNext
<1>5. QED
  BY <1>2, <1>3, <1>4 DEF SendTask

LEMMA SendDoneKeeps ==
    ASSUME CtpIInv, AnySendDone, NamesAssumption, EntriesAssumption
    PROVE  CtpIInv'
<1>1. PICK error \in {"SUCCESS", "FAIL"}, acked \in BOOLEAN : SendDone(error, acked)
  BY DEF AnySendDone
<1> USE <1>1 DEF SendDone
<1>2. RestTypes /\ RadioHasHead
  BY CtpParts
<1>3. SendQueue # << >>
  BY <1>2 DEF RadioHasHead
<1>4. PoolTypes' /\ NothingLost' /\ NoPacketTwice' /\ FilledIn' /\ RetxmitTimer' = TRUE
  BY <1>3, SubSendDoneKeeps
<1>5. RestTypes'
  BY <1>2, <1>4 DEF RestTypes
<1>6. RadioHasHead' /\ RootIsQuiet'
  BY DEF RadioHasHead, RootIsQuiet
<1>7. QED
  BY <1>4, <1>5, <1>6, CtpPartsNext

LEMMA ForwardKeeps ==
    ASSUME CtpIInv, NEW i \in Instances, NEW looped \in BOOLEAN, Forward(i, looped), NamesAssumption
    PROVE  CtpIInv'
<1> DEFINE e == Head(QEntryPool)
           b == Head(MessagePool)
<1> USE DEF Forward
<1>1. PoolTypes /\ RestTypes /\ RadioHasHead /\ RootIsQuiet /\ FilledIn
  BY CtpParts
<1>2. /\ \A f, g \in Forwarded : qe[f].msg = qe[g].msg => f = g
      /\ ForwardedMessages \subseteq Buffers \ {received}
      /\ Range(SendQueue) \cap Clients = Clients \ clientPtrs
      /\ \A f, g \in Forwarded : qe[f].packet = qe[g].packet => f = g
      /\ \A f \in Forwarded : ~ Contains(cache, qe[f].packet)
      /\ IsInjective(cache)
  BY DEF CtpIInv, BuffersAccounted, NothingLost, NoPacketTwice
<1>3. e \in Entries \ Forwarded /\ Line(QEntryPool', (Entries \ Forwarded) \ {e})
  BY QueuesAreLines, LineTail
<1>4. /\ b \in Buffers \ (ForwardedMessages \cup {received})
      /\ Line(MessagePool', (Buffers \ (ForwardedMessages \cup {received})) \ {b})
  <2> DEFINE free == Buffers \ (ForwardedMessages \cup {received})
  <2>1. Line(MessagePool, free) /\ MessagePool # << >> /\ MessagePool' = Tail(MessagePool)
    BY QueuesAreLines
  <2> HIDE DEF free
  <2>2. b \in free /\ Line(MessagePool', free \ {b})
    BY <2>1, LineTail
  <2>3. QED
    BY <2>2 DEF free
<1>5. /\ qe' = [qe EXCEPT ![e] = [msg |-> received, packet |-> i, retries |-> MaxRetries]]
      /\ SendQueue' = Append(SendQueue, e) /\ received' = b
  OBVIOUS
<1> HIDE DEF e, b
<1>6. e \in Entries /\ e \notin Forwarded /\ e \notin Range(SendQueue) /\ e \notin Clients
  BY <1>3, NamesAssumption DEF Forwarded
<1>7. Line(SendQueue', Range(SendQueue) \cup {e})
  BY <1>5, <1>6, QueuesAreLines, LineAppend
<1>8. Line(SendQueue', Range(SendQueue')) /\ Range(SendQueue') = Range(SendQueue) \cup {e}
  BY <1>7 DEF Line
<1>9. \A u \in (Clients \cup Entries) \ {e} : qe'[u] = qe[u]
  BY <1>1, <1>5 DEF PoolTypes
<1>10. qe'[e] = [msg |-> received, packet |-> i, retries |-> MaxRetries]
  BY <1>1, <1>5, <1>6 DEF PoolTypes
<1>11. Forwarded' = Forwarded \cup {e} /\ Forwarded \subseteq Entries
  BY <1>6, <1>8 DEF Forwarded
<1>12. \A f \in Forwarded : qe'[f] = qe[f] /\ qe[f].msg # received
  <2>1. \A f \in Forwarded : qe[f].msg \in ForwardedMessages
    BY DEF ForwardedMessages
  <2>2. QED
    BY <1>2, <1>6, <1>9, <1>11, <2>1
<1>13. ForwardedMessages' = ForwardedMessages \cup {received}
  <2>1. qe'[e].msg = received
    BY <1>10
  <2>2. QED
    BY <1>11, <1>12, <2>1 DEF ForwardedMessages
<1>14. NothingLost'
  <2>1. Line(QEntryPool', Entries \ Forwarded')
    <3>1. (Entries \ Forwarded) \ {e} = Entries \ Forwarded'
      BY <1>11
    <3>2. QED
      BY <1>3, <3>1
  <2>2. Line(MessagePool', Buffers \ (ForwardedMessages' \cup {received'}))
    <3>1. (Buffers \ (ForwardedMessages \cup {received})) \ {b}
             = Buffers \ (ForwardedMessages' \cup {received'})
      BY <1>5, <1>13
    <3>2. QED
      BY <1>4, <3>1
  <2>3. ForwardedMessages' \subseteq Buffers \ {received'}
    BY <1>1, <1>2, <1>4, <1>5, <1>13 DEF RestTypes
  <2>4. \A f, g \in Forwarded' : qe'[f].msg = qe'[g].msg => f = g
    <3>1. qe'[e].msg = received
      BY <1>10
    <3>2. QED
      BY <1>2, <1>11, <1>12, <3>1
  <2>5. Range(SendQueue') \cap Clients = Clients \ clientPtrs'
    BY <1>2, <1>6, <1>8
  <2>6. QED
    BY <1>8, <2>1, <2>2, <2>3, <2>4, <2>5 DEF NothingLost, Line
<1>15. NoPacketTwice'
  <2>1. qe'[e].packet = i
    BY <1>10
  <2>2. \A f \in Forwarded : qe[f].packet # i
    BY DEF Forwarded, Queued
  <2>3. \A f, g \in Forwarded' : qe'[f].packet = qe'[g].packet => f = g
    BY <1>2, <1>11, <1>12, <2>1, <2>2
  <2>4. \A f \in Forwarded' : ~ Contains(cache', qe'[f].packet)
    BY <1>2, <1>11, <1>12, <2>1
  <2>5. QED
    BY <1>2, <2>3, <2>4 DEF NoPacketTwice
<1>16. FilledIn'
  <2>1. qe'[e].packet = i
    BY <1>10
  <2>2. QED
    BY <1>1, <1>6, <1>8, <1>9, <1>11, <1>12, <2>1 DEF FilledIn
<1>17. PoolTypes'
  <2>1. [msg |-> received, packet |-> i, retries |-> MaxRetries] \in EntryValues
    BY <1>1, CacheAssumption DEF EntryValues, RestTypes
  <2>2. qe' \in [Clients \cup Entries -> EntryValues]
    BY <1>1, <1>5, <2>1 DEF PoolTypes
  <2>3. SendQueue' \in Seq(Clients \cup Entries)
    BY <1>1, <1>5, <1>6 DEF PoolTypes
  <2>4. QEntryPool' \in Seq(Entries) /\ MessagePool' \in Seq(Buffers)
    BY <1>3, <1>4 DEF Line
  <2>5. QED
    BY <1>1, <2>2, <2>3, <2>4 DEF PoolTypes
<1>18. RestTypes'
  BY <1>1, <1>4, <1>5 DEF RestTypes
<1>19. RadioHasHead'
  <2>1. CASE radio = NoPacket
    BY <2>1 DEF RadioHasHead
  <2>2. CASE radio # NoPacket
    <3>1. SendQueue # << >> /\ radio = qe[HeadEntry].msg /\ HeadEntry \in Range(SendQueue)
      BY <1>1, <2>2, HeadLeaves DEF RadioHasHead
    <3>2. HeadEntry \in Clients \cup Entries /\ HeadEntry # e
      BY <1>6, <3>1, QueuesAreLines
    <3>3. SendQueue' # << >> /\ HeadEntry' = HeadEntry
      <4>1. SendQueue \in Seq(Clients \cup Entries) /\ e \in Clients \cup Entries
        BY <1>1, <1>6 DEF PoolTypes
      <4>2. Head(SendQueue') = Head(SendQueue) /\ SendQueue' # << >>
        BY <1>5, <3>1, <4>1
      <4>3. QED
        BY <4>2 DEF HeadEntry
    <3>4. QED
      BY <1>9, <3>1, <3>2, <3>3 DEF RadioHasHead
  <2>3. QED
    BY <2>1, <2>2
<1>20. RootIsQuiet'
  BY <1>1 DEF RootIsQuiet
<1>21. QED
  BY <1>14, <1>15, <1>16, <1>17, <1>18, <1>19, <1>20, CtpPartsNext

\* The timer, the radio and the routes do not touch the queue.
LEMMA OthersKeep ==
    ASSUME CtpIInv, \/ RetxmitTimerFired \/ RadioStartDone \/ RadioStops \/ RadioStopDone
                    \/ RouteFound \/ RouteLost \/ RouteReplaced \/ SetRoot \/ UnsetRoot
    PROVE  CtpIInv'
<1> USE DEF RetxmitTimerFired, RadioStartDone, RadioStops, RadioStopDone, Goes, RouteFound,
            RouteLost, RouteReplaced, SetRoot, UnsetRoot, routingVars, poolVars
<1>1. PoolTypes /\ RestTypes /\ RadioHasHead /\ RootIsQuiet
  BY CtpParts
<1>2. UNCHANGED <<SendQueue, clientPtrs, QEntryPool, MessagePool, qe, cache, received, radio>>
  OBVIOUS
<1>3. NothingLost' /\ NoPacketTwice' /\ FilledIn'
  BY <1>2, QueueUnchanged
<1>4. PoolTypes'
  BY <1>1 DEF PoolTypes
<1>5. RestTypes'
  <2>1. changes' \in 0..Changes
    BY <1>1, ChangesAssumption DEF RestTypes
  <2>2. QED
    BY <1>1, <1>2, <2>1 DEF RestTypes
<1>6. RadioHasHead'
  BY <1>1, <1>2 DEF RadioHasHead, HeadEntry
<1>7. RootIsQuiet'
  BY <1>1 DEF RootIsQuiet
<1>8. QED
  BY <1>3, <1>4, <1>5, <1>6, <1>7, CtpPartsNext

THEOREM CtpInvariant == Spec => []CtpIInv
<1>1. Init => CtpIInv
  BY CtpInit, EntriesAssumption
<1>2. CtpIInv /\ [Next]_vars => CtpIInv'
  BY NamesAssumption, EntriesAssumption, SendKeeps, SendTaskKeeps, SendDoneKeeps, ForwardKeeps,
     OthersKeep, UnchangedKeepsCtpIInv
  DEF Next
<1>3. QED
  BY <1>1, <1>2, PTL DEF Spec

\* Every variable of the forwarding engine keeps its type: the head of the queue, which
\* sendDone and sendTask complete, is there to be completed.
THEOREM CtpTypeCorrect == Spec => []TypeOK
  BY CtpInvariant, PTL DEF CtpIInv

\* No buffer and no entry is lost or in two places, no packet is forwarded twice at a
\* time, and what sendDone frees the radio has done with (packetComplete, sendDone,
\* SubReceive.receive, RetxmitTimer.fired).
THEOREM BuffersAreAccounted == Spec => []BuffersAccounted
  BY CtpInvariant, PTL DEF CtpIInv

-----------------------------------------------------------------------------
(***************************************************************************)
(* Each step of the engine is one of the abstract queue, or changes        *)
(* nothing its clients see: a send accepts the packet of the client, and   *)
(* what completes it reports it.                                           *)
(***************************************************************************)
Pending == [c \in Clients |-> IF c \in clientPtrs THEN NoPacket ELSE c]

LEMMA NothingReported == UNCHANGED <<clientPtrs, report>> => UNCHANGED Abstract!vars
  BY DEF Abstract!vars

LEMMA DequeuedReports ==
    ASSUME CtpIInv, SendQueue # << >>, NEW success, Dequeued(HeadEntry, success), NamesAssumption
    PROVE  [Abstract!Next]_(Abstract!vars)
<1> DEFINE h == HeadEntry
<1>1. h \in Range(SendQueue) /\ h \in Clients \cup Entries
  BY HeadLeaves, QueuesAreLines
<1>2. CASE h \in Clients
  <2>1. clientPtrs' = clientPtrs \cup {h} /\ report' = <<h, qe[h].msg, "SUCCESS">>
    BY <1>2, NamesAssumption DEF Dequeued, packetComplete
  <2> HIDE DEF h
  <2>2. qe[h].msg = h /\ h \notin clientPtrs
    BY <1>1, <1>2 DEF CtpIInv, FilledIn, BuffersAccounted, NothingLost
  <2>3. h # NoPacket
    BY <1>2, NamesAssumption
  <2>4. Pending[h] = h /\ Pending' = [Pending EXCEPT ![h] = NoPacket]
    BY <1>2, <2>1, <2>2 DEF Pending
  <2>5. Abstract!Report(h, "SUCCESS")
    BY <2>1, <2>2, <2>3, <2>4 DEF Abstract!Report, Pending
  <2>6. QED
    BY <1>2, <2>5 DEF Abstract!Next, Abstract!Errors
<1>3. CASE h \in Entries
  <2>1. UNCHANGED <<clientPtrs, report>>
    BY <1>3, NamesAssumption DEF Dequeued, packetComplete
  <2>2. QED
    BY <2>1, NothingReported
<1>4. QED
  BY <1>1, <1>2, <1>3

LEMMA SubSendDoneReports ==
    ASSUME CtpIInv, SendQueue # << >>, NEW error, NEW acked, SubSendDone(HeadEntry, error, acked),
           NamesAssumption
    PROVE  [Abstract!Next]_(Abstract!vars)
<1>1. CASE UNCHANGED <<clientPtrs, report>>
  BY <1>1, NothingReported
<1>2. CASE \E success \in BOOLEAN : Dequeued(HeadEntry, success)
  BY <1>2, DequeuedReports
<1>3. QED
  BY <1>1, <1>2 DEF SubSendDone, RetryOrDrop, poolVars

\* What a client sends is accepted once and reported once, also when it is given up.
THEOREM IsSendQueue == Spec => Abstract!Spec
<1>1. Init => Abstract!Init
  BY DEF Init, Abstract!Init
<1>2. CtpIInv /\ [Next]_vars => [Abstract!Next]_(Abstract!vars)
  <2> SUFFICES ASSUME CtpIInv, [Next]_vars PROVE [Abstract!Next]_(Abstract!vars)
    OBVIOUS
  <2>1. ASSUME NEW c \in Clients, Send(c)
        PROVE  [Abstract!Next]_(Abstract!vars)
    <3>1. c \in clientPtrs /\ clientPtrs' = clientPtrs \ {c} /\ report' = report
      BY <2>1 DEF Send
    <3>2. Pending[c] = NoPacket /\ Pending' = [Pending EXCEPT ![c] = c]
      BY <3>1 DEF Pending
    <3>3. Abstract!Accept(c, c)
      BY <3>1, <3>2 DEF Abstract!Accept, Pending
    <3>4. QED
      BY <3>3 DEF Abstract!Next
  <2>2. CASE SendTask
    <3>1. CASE SendTaskIdle \/ SendTaskNoRoute \/ SendTaskSends
      BY <3>1, NothingReported DEF SendTaskIdle, SendTaskNoRoute, SendTaskSends, poolVars
    <3>2. CASE SendTaskRoot
      BY <3>2, NamesAssumption, SubSendDoneReports DEF SendTaskRoot, RunsSendTask
    <3>3. QED
      BY <2>2, <3>1, <3>2 DEF SendTask
  <2>3. CASE AnySendDone
    <3>1. SendQueue # << >>
      BY <2>3 DEF AnySendDone, SendDone, CtpIInv, BuffersAccounted
    <3>2. QED
      BY <2>3, <3>1, NamesAssumption, SubSendDoneReports DEF AnySendDone, SendDone
  <2>4. CASE \/ \E i \in Instances, looped \in BOOLEAN : Forward(i, looped)
             \/ RetxmitTimerFired \/ RadioStartDone \/ RadioStops \/ RadioStopDone
             \/ RouteFound \/ RouteLost \/ RouteReplaced \/ SetRoot \/ UnsetRoot \/ UNCHANGED vars
    <3>1. UNCHANGED <<clientPtrs, report>>
      BY <2>4
      DEF Forward, RetxmitTimerFired, RadioStartDone, RadioStops, RadioStopDone, Goes, RouteFound,
          RouteLost, RouteReplaced, SetRoot, UnsetRoot, routingVars, poolVars, vars, engineVars
    <3>2. QED
      BY <3>1, NothingReported
  <2>5. QED
    BY <2>1, <2>2, <2>3, <2>4 DEF Next
<1>3. QED
  BY <1>1, <1>2, CtpInvariant, PTL DEF Spec, Abstract!Spec

-----------------------------------------------------------------------------
(***************************************************************************)
(* Dissemination.                                                          *)
(***************************************************************************)
(* Sequence numbers: a counter above an id, modulo M. *)

M == Counters * Ids

LEMMA Sizes ==
    /\ Counters \in Nat /\ Counters >= 4
    /\ Ids \in Nat /\ Ids > 0
    /\ M \in Nat /\ M >= 4 * Ids
    /\ Unknown \in Seqnos
    /\ Seqnos = 0..M - 1
<1>1. Counters \in Nat /\ Counters >= 4 /\ Ids \in Nat /\ Ids > 0
  <2>1. Counters # 3
    BY SizesAssumption
  <2>2. QED
    BY <2>1, SizesAssumption
<1>2. M = 4 * Ids + (Counters - 4) * Ids
  BY <1>1 DEF M
<1>3. (Counters - 4) * Ids \in Nat
  BY <1>1
<1>4. M \in Nat /\ M >= 4 * Ids
  BY <1>1, <1>2, <1>3
<1>5. QED
  BY <1>1, <1>4 DEF Seqnos, Unknown, M

LEMMA NodeIds == \A n \in Nodes : n \in Nat /\ n < Ids
  BY NodesAssumption, SizesAssumption

LEMMA Remainder ==
    ASSUME NEW k \in Nat, k > 0, NEW x \in Int, - k <= x, x < k
    PROVE  x % k = IF x < 0 THEN x + k ELSE x
<1>1. CASE x < 0
  BY <1>1
<1>2. CASE ~ (x < 0)
  BY <1>2
<1>3. QED
  BY <1>1, <1>2

\* The counter of s and the id that follows it.
LEMMA Halves ==
    ASSUME NEW s \in Seqnos
    PROVE  /\ s \div Ids \in 0..Counters - 1
           /\ s % Ids \in 0..Ids - 1
           /\ s = (s \div Ids) * Ids + (s % Ids)
<1> DEFINE q == s \div Ids
           r == s % Ids
<1>1. s \in Nat /\ s < Counters * Ids
  BY Sizes DEF M
<1>2. q \in Nat /\ r \in 0..Ids - 1 /\ s = q * Ids + r
  BY <1>1, Sizes
<1>3. q < Counters
  <2> HIDE DEF q, r
  <2>1. ASSUME q >= Counters
        PROVE  FALSE
    <3>1. q * Ids >= Counters * Ids
      BY <1>2, <2>1, Sizes
    <3>2. QED
      BY <1>1, <1>2, <3>1, Sizes
  <2>2. QED
    BY <1>2, <2>1, Sizes
<1>4. q \in 0..Counters - 1
  <2> HIDE DEF q
  <2>1. QED
    BY <1>2, <1>3, Sizes
<1>5. QED
  BY ONLY <1>2, <1>4

\* There is one way to write a number with a counter and an id.
LEMMA TwoHalves ==
    ASSUME NEW q \in 0..Counters - 1, NEW r \in 0..Ids - 1
    PROVE  /\ q * Ids + r \in Seqnos
           /\ (q * Ids + r) \div Ids = q
           /\ (q * Ids + r) % Ids = r
<1> DEFINE s == q * Ids + r
           p == s \div Ids
           t == s % Ids
<1>1. s \in Seqnos
  <2>1. (Counters - 1 - q) * Ids \in Nat /\ q * Ids \in Nat
    BY Sizes
  <2>2. M = (Counters - 1 - q) * Ids + Ids + q * Ids
    BY Sizes DEF M
  <2>3. QED
    BY <2>1, <2>2, Sizes
<1>2. p \in 0..Counters - 1 /\ t \in 0..Ids - 1 /\ s = p * Ids + t
  BY <1>1, Halves
<1> HIDE DEF p, t
<1>3. p = q
  <2>1. ASSUME p < q
        PROVE  FALSE
    <3>1. (q - p - 1) * Ids \in Nat /\ (q - p - 1) * Ids = q * Ids - p * Ids - Ids
      BY <1>2, <2>1, Sizes
    <3>2. p * Ids \in Int /\ q * Ids \in Int
      BY <1>2, Sizes
    <3>3. QED
      BY <1>2, <3>1, <3>2, Sizes
  <2>2. ASSUME p > q
        PROVE  FALSE
    <3>1. (p - q - 1) * Ids \in Nat /\ (p - q - 1) * Ids = p * Ids - q * Ids - Ids
      BY <1>2, <2>2, Sizes
    <3>2. p * Ids \in Int /\ q * Ids \in Int
      BY <1>2, Sizes
    <3>3. QED
      BY <1>2, <3>1, <3>2, Sizes
  <2>3. QED
    BY <1>2, <2>1, <2>2
<1>4. t = r
  <2>1. q * Ids \in Int
    BY Sizes
  <2>2. QED
    BY <1>2, <1>3, <2>1, Sizes
<1>5. QED
  BY <1>1, <1>3, <1>4 DEF p, t

\* The next number is a counter further on, which wraps, with the id of the node.
LEMMA NextNumber ==
    ASSUME NEW n \in Nodes, seqno[n] \in Seqnos
    PROVE  /\ NextSeqno(n) \in Seqnos
           /\ NextSeqno(n) % Ids = n
           /\ NextSeqno(n) \div Ids =
                IF seqno[n] \div Ids + 1 < Counters THEN seqno[n] \div Ids + 1 ELSE 0
<1> DEFINE q == seqno[n] \div Ids
           k == IF q + 1 < Counters THEN q + 1 ELSE 0
<1>1. q \in 0..Counters - 1
  BY Halves
<1>2. NextSeqno(n) = (((q + 1) * Ids) % M) + n
  BY DEF NextSeqno, M
<1> HIDE DEF q
<1>3. ((q + 1) * Ids) % M = k * Ids
  <2>1. CASE q + 1 < Counters
    <3>1. (Counters - 1 - q) * Ids >= Ids /\ (q + 1) * Ids \in Nat
      BY <1>1, <2>1, Sizes
    <3>2. M = (Counters - 1 - q) * Ids + (q + 1) * Ids
      BY <1>1, Sizes DEF M
    <3>3. (Counters - 1 - q) * Ids \in Int
      BY <1>1, Sizes
    <3>4. (q + 1) * Ids < M
      BY <3>1, <3>2, <3>3, Sizes
    <3>5. ((q + 1) * Ids) % M = (q + 1) * Ids
      BY <3>1, <3>4, Remainder, Sizes
    <3>6. QED
      BY <2>1, <3>5
  <2>2. CASE q + 1 = Counters
    <3>1. (q + 1) * Ids = M /\ M % M = 0
      BY <2>2, Sizes DEF M
    <3>2. QED
      BY <2>2, <3>1, Sizes
  <2>3. QED
    BY <1>1, <2>1, <2>2, Sizes
<1>4. k \in 0..Counters - 1 /\ n \in 0..Ids - 1
  BY <1>1, NodeIds, Sizes
<1>5. NextSeqno(n) = k * Ids + n
  BY <1>2, <1>3
<1> HIDE DEF k
<1>6. NextSeqno(n) \in Seqnos /\ NextSeqno(n) % Ids = n /\ NextSeqno(n) \div Ids = k
  BY <1>4, <1>5, TwoHalves
<1>7. QED
  BY <1>6 DEF k, q

-----------------------------------------------------------------------------
LEMMA DripTypeStep == DripTypeOK /\ [DripNext]_dripVars => DripTypeOK'
<1> SUFFICES ASSUME DripTypeOK, [DripNext]_dripVars PROVE DripTypeOK'
  OBVIOUS
<1> USE DEF DripTypeOK, Reset
<1>1. ASSUME NEW n \in Nodes, TimerFires(n) \/ TimerSuppressed(n)
      PROVE  DripTypeOK'
  BY <1>1 DEF TimerFires, TimerSuppressed
<1>2. ASSUME NEW n \in Nodes, TimerTask(n)
      PROVE  DripTypeOK'
  <2>1. Message(seqno[n], valueCache[n]) \in [seqno : Seqnos, data : 0..updates]
    BY DEF Message
  <2>2. m_buf' \in [Nodes -> [seqno : Seqnos, data : 0..updates] \cup {NoMessage}]
    BY <1>2, <2>1 DEF TimerTask, sendObject
  <2>3. QED
    BY <1>2, <2>2 DEF TimerTask
<1>3. ASSUME NEW n \in Nodes, NEW heard \in SUBSET MayHear(n), Broadcast(n, heard)
      PROVE  DripTypeOK'
  <2>1. m_buf[n].seqno \in Seqnos /\ m_buf[n].data \in 0..updates
    BY <1>3 DEF Broadcast
  <2>2. seqno' \in [Nodes -> Seqnos] /\ valueCache' \in [Nodes -> 0..updates]
    BY <1>3, <2>1 DEF Broadcast
  <2>3. m_buf' \in [Nodes -> [seqno : Seqnos, data : 0..updates] \cup {NoMessage}]
    <3>1. \A m \in Nodes : Message(seqno[m], valueCache[m]) \in [seqno : Seqnos, data : 0..updates]
      BY DEF Message
    <3>2. QED
      BY <1>3, <3>1 DEF Broadcast
  <2>4. count' \in [Nodes -> BOOLEAN]
    BY <1>3, <2>1 DEF Broadcast
  <2>5. QED
    BY <1>3, <2>2, <2>3, <2>4 DEF Broadcast
<1>4. ASSUME NEW n \in Restarting, Start(n) \/ Stop(n)
      PROVE  DripTypeOK'
  BY <1>4, RolesAssumption DEF Start, Stop
<1>5. ASSUME NEW n \in Changers, Change(n)
      PROVE  DripTypeOK'
  <2>1. n \in Nodes /\ NextSeqno(n) \in Seqnos
    BY RolesAssumption, NextNumber
  <2>2. updates' \in 0..Updates /\ updates' = updates + 1 /\ updates \in Nat
    BY <1>5, UpdatesAssumption DEF Change
  <2>3. seqno' \in [Nodes -> Seqnos] /\ valueCache' \in [Nodes -> 0..updates']
    BY <1>5, <2>1, <2>2 DEF Change
  <2>4. m_buf' \in [Nodes -> [seqno : Seqnos, data : 0..updates'] \cup {NoMessage}]
    <3>1. Message(NextSeqno(n), updates') \in [seqno : Seqnos, data : 0..updates']
      BY <2>1, <2>2 DEF Message
    <3>2. \A m \in Nodes : m_buf[m] \in [seqno : Seqnos, data : 0..updates'] \cup {NoMessage}
      BY <2>2
    <3>3. QED
      BY <1>5, <2>1, <3>1, <3>2 DEF Change, sendObject
  <2>5. QED
    BY <1>5, <2>2, <2>3, <2>4 DEF Change
<1>6. CASE UNCHANGED dripVars
  BY <1>6 DEF dripVars
<1>7. QED
  BY <1>1, <1>2, <1>3, <1>4, <1>5, <1>6 DEF DripNext

(***************************************************************************)
(* The variables keep their types: a version is never more than a number   *)
(* of 32 bits, though the counter in it wraps.                             *)
(***************************************************************************)
THEOREM DripTypeCorrect == DripSpec => []DripTypeOK
<1>1. DripInit => DripTypeOK
  BY AgreedAssumption, UpdatesAssumption, Sizes DEF DripInit, DripTypeOK
<1>2. QED
  BY <1>1, DripTypeStep, PTL DEF DripSpec

-----------------------------------------------------------------------------
(* How many changes a version is ahead of the one all began with.          *)

Ahead(s) ==
    LET d == s \div Ids - Agreed \div Ids IN IF d >= 0 THEN d ELSE d + Counters

(***************************************************************************)
(* The numbers suffice: no two versions are half the numbers apart; no     *)
(* client of a node that has just booted changes the variable, unless they *)
(* all have; and the counter does not wrap under a change of node 0, whose *)
(* version would then be Unknown.                                          *)
(***************************************************************************)
NumbersSuffice ==
    /\ 2 * (Updates + 1) <= Counters
    /\ Newcomers \cap Changers = {} \/ Agreed = Unknown
    /\ 0 \in Changers => Agreed \div Ids + Updates < Counters

(***************************************************************************)
(* The inductive invariant of dissemination: no version is more changes    *)
(* ahead than were made, and none with the id of a node whose client       *)
(* changes the variable is ahead of the version of that node, which gives  *)
(* its next change a number that nobody has.                               *)
(***************************************************************************)
DripIInv ==
    /\ DripTypeOK
    /\ \A o \in Versions : Ahead(o.seqno) <= updates
    /\ \A c \in Changers : Ahead(seqno[c]) <= updates
    /\ \A c \in Changers, o \in Versions : o.seqno % Ids = c => Ahead(o.seqno) <= Ahead(seqno[c])
    /\ \A c \in Changers : seqno[c] = Unknown => Agreed = Unknown
    /\ OneValueAVersion

\* Of two versions the one that is behind is not newer, also when the counter wrapped
\* between them and when its id is the larger one.
LEMMA BehindIsNotNewer ==
    ASSUME NEW a \in Seqnos, NEW b \in Seqnos,
           2 * (Updates + 1) <= Counters, Ahead(a) < Ahead(b), Ahead(b) <= Updates
    PROVE  ~ Newer(a, b)
<1> DEFINE qa == a \div Ids
           ra == a % Ids
           qb == b \div Ids
           rb == b % Ids
           base == Agreed \div Ids
           d == Ahead(b) - Ahead(a)
           x == d * Ids + rb - ra
<1>1. /\ qa \in 0..Counters - 1 /\ ra \in 0..Ids - 1 /\ a = qa * Ids + ra
      /\ qb \in 0..Counters - 1 /\ rb \in 0..Ids - 1 /\ b = qb * Ids + rb
      /\ base \in 0..Counters - 1
  BY Halves, AgreedAssumption
<1>2. /\ Ahead(a) = IF qa - base >= 0 THEN qa - base ELSE qa - base + Counters
      /\ Ahead(b) = IF qb - base >= 0 THEN qb - base ELSE qb - base + Counters
  BY DEF Ahead
<1> HIDE DEF qa, ra, qb, rb, base
<1>3. /\ d \in Int /\ d > 0 /\ 2 * (d + 1) <= Counters
      /\ qb = qa + d \/ qb = qa + d - Counters
  BY <1>1, <1>2, Sizes, UpdatesAssumption
<1> HIDE DEF d
<1>4. b - a = x \/ b - a = x - M
  <2>1. CASE qb = qa + d
    <3>1. qb * Ids = qa * Ids + d * Ids
      BY <1>1, <1>3, <2>1, Sizes
    <3>2. qa * Ids \in Int /\ d * Ids \in Int
      BY <1>1, <1>3, Sizes
    <3>3. QED
      BY <1>1, <3>1, <3>2
  <2>2. CASE qb = qa + d - Counters
    <3>1. qb * Ids = qa * Ids + d * Ids - M
      BY <1>1, <1>3, <2>2, Sizes DEF M
    <3>2. qa * Ids \in Int /\ d * Ids \in Int
      BY <1>1, <1>3, Sizes
    <3>3. QED
      BY <1>1, <3>1, <3>2, Sizes
  <2>3. QED
    BY <1>3, <2>1, <2>2
<1>5. x \in Int /\ x > 0 /\ 2 * x < M
  <2>1. d * Ids \in Int /\ d * Ids >= Ids
    <3>1. (d - 1) * Ids \in Nat /\ (d - 1) * Ids = d * Ids - Ids
      BY <1>3, Sizes
    <3>2. d * Ids \in Int
      BY <1>3, Sizes
    <3>3. QED
      BY <3>1, <3>2, Sizes
  <2>2. 2 * (d * Ids + Ids) <= M
    <3>1. (Counters - 2 * (d + 1)) * Ids \in Nat
      BY <1>3, Sizes
    <3>2. (Counters - 2 * (d + 1)) * Ids = M - 2 * (d * Ids + Ids)
      BY <1>3, Sizes DEF M
    <3>3. QED
      BY <2>1, <3>1, <3>2, Sizes
  <2>3. QED
    BY <1>1, <2>1, <2>2, Sizes
<1> HIDE DEF x
<1>6. (a - b) % M = M - x
  <2>1. a \in Int /\ b \in Int
    BY Sizes
  <2>2. CASE b - a = x
    <3>1. a - b = - x /\ - x \in Int /\ - M <= - x /\ - x < 0 /\ - x < M
      BY <1>5, <2>1, <2>2, Sizes
    <3>2. (- x) % M = - x + M
      BY <3>1, Remainder, Sizes
    <3>3. QED
      BY <1>5, <3>1, <3>2, Sizes
  <2>3. CASE b - a = x - M
    <3>1. a - b = M - x /\ M - x \in Int /\ - M <= M - x /\ M - x >= 0 /\ M - x < M
      BY <1>5, <2>1, <2>3, Sizes
    <3>2. (M - x) % M = M - x
      BY <3>1, Remainder, Sizes
    <3>3. QED
      BY <3>1, <3>2
  <2>4. QED
    BY <1>4, <2>2, <2>3
<1>7. 2 * (M - x) >= M
  BY <1>5, Sizes
<1>8. Newer(a, b) <=> LET e == (a - b) % M IN e # 0 /\ 2 * e < M
  BY DEF Newer, M
<1>9. QED
  BY <1>5, <1>6, <1>7, <1>8, Sizes

\* A change goes one further ahead, and is a version.
LEMMA ChangeGoesAhead ==
    ASSUME NumbersSuffice, NEW c \in Changers, seqno[c] \in Seqnos, Ahead(seqno[c]) < Updates
    PROVE  /\ NextSeqno(c) # Unknown
           /\ Ahead(NextSeqno(c)) = Ahead(seqno[c]) + 1
<1> DEFINE q == seqno[c] \div Ids
           base == Agreed \div Ids
<1>1. c \in Nodes /\ c \in Nat
  BY RolesAssumption, NodeIds
<1>2. /\ NextSeqno(c) \in Seqnos /\ NextSeqno(c) % Ids = c
      /\ NextSeqno(c) \div Ids = IF q + 1 < Counters THEN q + 1 ELSE 0
  BY <1>1, NextNumber
<1>3. q \in 0..Counters - 1 /\ base \in 0..Counters - 1
  BY Halves, AgreedAssumption
<1>4. Ahead(seqno[c]) = IF q - base >= 0 THEN q - base ELSE q - base + Counters
  BY DEF Ahead
<1>5. Ahead(NextSeqno(c)) =
        LET d == NextSeqno(c) \div Ids - base IN IF d >= 0 THEN d ELSE d + Counters
  BY DEF Ahead
<1>6. 2 * (Updates + 1) <= Counters /\ (c = 0 => base + Updates < Counters)
  BY DEF NumbersSuffice
<1> HIDE DEF q, base
<1>7. Ahead(NextSeqno(c)) = Ahead(seqno[c]) + 1
  BY <1>2, <1>3, <1>4, <1>5, <1>6, Sizes, UpdatesAssumption
<1>8. NextSeqno(c) # Unknown
  <2>1. ASSUME NextSeqno(c) = Unknown
        PROVE  FALSE
    <3>1. 0 \in Seqnos /\ 0 \div Ids = 0 /\ 0 % Ids = 0
      BY Sizes DEF Unknown
    <3>2. c = 0 /\ ~ (q + 1 < Counters)
      BY <1>2, <1>3, <2>1, <3>1 DEF Unknown
    <3>3. QED
      BY <1>3, <1>4, <1>6, <3>2, Sizes, UpdatesAssumption
  <2>2. QED
    BY <2>1
<1>9. QED
  BY <1>7, <1>8

LEMMA AheadOf ==
    ASSUME NEW s \in Seqnos
    PROVE  Ahead(s) \in 0..Counters - 1
<1>1. s \div Ids \in 0..Counters - 1 /\ Agreed \div Ids \in 0..Counters - 1
  BY Halves, AgreedAssumption
<1> HIDE DEF Ahead
<1>2. QED
  BY <1>1, Sizes DEF Ahead

LEMMA VersionTypes ==
    ASSUME DripTypeOK, NEW o \in Versions
    PROVE  o.seqno \in Seqnos /\ o.data \in 0..updates
BY DEF DripTypeOK, Versions

\* A step that makes no version and takes no node back keeps the invariant.
LEMMA NoNewVersion ==
    ASSUME DripIInv, DripTypeOK', updates' = updates, Versions' \subseteq Versions,
           \A c \in Changers : /\ Ahead(seqno[c]) <= Ahead(seqno'[c])
                               /\ Ahead(seqno'[c]) <= updates
                               /\ seqno'[c] = Unknown => seqno[c] = Unknown
    PROVE  DripIInv'
<1>1. /\ \A o \in Versions' : Ahead(o.seqno) <= updates'
      /\ \A c \in Changers : Ahead(seqno'[c]) <= updates'
      /\ \A c \in Changers : seqno'[c] = Unknown => Agreed = Unknown
  BY DEF DripIInv
<1>2. \A o, p \in Versions' : o.seqno = p.seqno => o.data = p.data
  BY DEF DripIInv, OneValueAVersion
<1>3. ASSUME NEW c \in Changers, NEW o \in Versions', o.seqno % Ids = c
      PROVE  Ahead(o.seqno) <= Ahead(seqno'[c])
  <2>1. Ahead(o.seqno) <= Ahead(seqno[c])
    BY <1>3 DEF DripIInv
  <2>2. o.seqno \in Seqnos /\ seqno[c] \in Seqnos /\ seqno'[c] \in Seqnos
    BY VersionTypes, RolesAssumption DEF DripIInv, DripTypeOK
  <2>3. QED
    BY <2>1, <2>2, AheadOf
<1>4. QED
  BY <1>1, <1>2, <1>3 DEF DripIInv, OneValueAVersion, Ahead

\* No step makes a version in which nodes take and send versions that there are.
LEMMA OldVersions ==
    ASSUME \A m \in Nodes : seqno'[m] # Unknown =>
                [seqno |-> seqno'[m], data |-> valueCache'[m]] \in Versions,
           \A m \in Nodes : \/ m_buf'[m] \in {m_buf[m], NoMessage}
                            \/ m_buf'[m] = Message(seqno[m], valueCache[m])
    PROVE  Versions' \subseteq Versions
<1>1. SUFFICES ASSUME NEW o \in Versions' PROVE o \in Versions
  OBVIOUS
<1>2. o.seqno # Unknown /\ o # NoMessage
  BY DEF Versions
<1>3. ASSUME NEW m \in Nodes, o = [seqno |-> seqno'[m], data |-> valueCache'[m]]
      PROVE  o \in Versions
  <2>1. o.seqno = seqno'[m]
    BY <1>3
  <2>2. QED
    BY <1>2, <1>3, <2>1
<1>4. ASSUME NEW m \in Nodes, o = m_buf'[m]
      PROVE  o \in Versions
  <2>1. CASE o = m_buf[m]
    BY <1>2, <2>1 DEF Versions
  <2>2. CASE o = Message(seqno[m], valueCache[m])
    BY <1>2, <2>2 DEF Versions, Message
  <2>3. QED
    BY <1>2, <1>4, <2>1, <2>2
<1>5. QED
  BY <1>3, <1>4 DEF Versions

LEMMA DripInvariant == ASSUME NumbersSuffice PROVE DripSpec => []DripIInv
<1>1. DripInit => DripIInv
  <2> SUFFICES ASSUME DripInit PROVE DripIInv
    OBVIOUS
  <2>1. DripTypeOK
    BY AgreedAssumption, UpdatesAssumption, Sizes DEF DripInit, DripTypeOK
  <2>2. Ahead(Agreed) = 0
    BY Halves, AgreedAssumption DEF Ahead
  <2>3. ASSUME NEW o \in Versions
        PROVE  o = [seqno |-> Agreed, data |-> 0]
    BY DEF Versions, DripInit
  <2>4. \A c \in Changers : seqno[c] = Agreed \/ (seqno[c] = Unknown /\ Agreed = Unknown)
    BY RolesAssumption DEF DripInit, NumbersSuffice
  <2>5. updates = 0
    BY DEF DripInit
  <2>6. \A c \in Changers : Ahead(seqno[c]) = 0
    BY <2>2, <2>4
  <2>7. \A o \in Versions : Ahead(o.seqno) = 0
    BY <2>2, <2>3
  <2>8. OneValueAVersion
    BY <2>3 DEF OneValueAVersion
  <2>9. QED
    BY <2>1, <2>4, <2>5, <2>6, <2>7, <2>8 DEF DripIInv
<1>2. DripIInv /\ [DripNext]_dripVars => DripIInv'
  <2> SUFFICES ASSUME DripIInv, [DripNext]_dripVars PROVE DripIInv'
    OBVIOUS
  <2>1. DripTypeOK /\ DripTypeOK'
    BY DripTypeStep DEF DripIInv
  <2>2. \A c \in Changers : c \in Nodes /\ seqno[c] \in Seqnos /\ Ahead(seqno[c]) \in Nat
    BY <2>1, RolesAssumption, AheadOf DEF DripTypeOK
  <2>3. ASSUME UNCHANGED <<seqno, valueCache, updates>>,
               \A m \in Nodes : \/ m_buf'[m] \in {m_buf[m], NoMessage}
                                \/ m_buf'[m] = Message(seqno[m], valueCache[m])
        PROVE  DripIInv'
    <3>1. \A m \in Nodes : seqno'[m] # Unknown =>
            [seqno |-> seqno'[m], data |-> valueCache'[m]] \in Versions
      BY <2>1, <2>3 DEF Versions, DripTypeOK, NoMessage, Seqnos
    <3>2. Versions' \subseteq Versions
      BY <2>3, <3>1, OldVersions
    <3>3. QED
      BY <2>1, <2>2, <2>3, <3>2, NoNewVersion DEF DripIInv
  <2>4. ASSUME NEW n \in Nodes, TimerFires(n) \/ TimerSuppressed(n)
        PROVE  DripIInv'
    BY <2>3, <2>4 DEF TimerFires, TimerSuppressed
  <2>5. ASSUME NEW n \in Nodes, TimerTask(n)
        PROVE  DripIInv'
    BY <2>1, <2>3, <2>5 DEF TimerTask, sendObject, DripTypeOK
  <2>6. ASSUME NEW n \in Nodes, NEW heard \in SUBSET MayHear(n), Broadcast(n, heard)
        PROVE  DripIInv'
    <3> DEFINE incoming == m_buf[n].seqno
               storing  == {m \in heard \cap m_running : Stores(m, incoming)}
    <3>1. /\ m_buf[n] # NoMessage
          /\ \A m \in Nodes : seqno'[m] = IF m \in storing THEN incoming ELSE seqno[m]
          /\ \A m \in Nodes : valueCache'[m] = IF m \in storing THEN m_buf[n].data ELSE valueCache[m]
          /\ updates' = updates
      BY <2>6 DEF Broadcast
    <3>2. \A m \in Nodes : \/ m_buf'[m] \in {m_buf[m], NoMessage}
                           \/ m_buf'[m] = Message(seqno[m], valueCache[m])
      BY <2>6 DEF Broadcast
    <3>3. \A m \in storing : /\ incoming # Unknown
                             /\ seqno[m] = Unknown \/ Newer(incoming, seqno[m])
      BY DEF Stores
    <3>4. m_buf[n] = [seqno |-> incoming, data |-> m_buf[n].data]
      BY <2>1, <3>1 DEF DripTypeOK
    <3>5. incoming # Unknown =>
            m_buf[n] \in Versions /\ incoming \in Seqnos /\ Ahead(incoming) <= updates
      <4>1. incoming # Unknown => m_buf[n] \in Versions
        BY <3>1 DEF Versions
      <4>2. QED
        BY <2>1, <4>1, VersionTypes DEF DripIInv
    <3> HIDE DEF incoming, storing
    <3>6. Versions' \subseteq Versions
      <4>1. ASSUME NEW m \in Nodes, seqno'[m] # Unknown
            PROVE  [seqno |-> seqno'[m], data |-> valueCache'[m]] \in Versions
        <5>1. CASE m \in storing
          BY <3>1, <3>3, <3>4, <3>5, <5>1
        <5>2. CASE m \notin storing
          BY <2>1, <3>1, <4>1, <5>2 DEF Versions, DripTypeOK, NoMessage, Seqnos
        <5>3. QED
          BY <5>1, <5>2
      <4>2. QED
        BY <3>2, <4>1, OldVersions
    <3>7. ASSUME NEW c \in Changers
          PROVE  /\ Ahead(seqno[c]) <= Ahead(seqno'[c])
                 /\ Ahead(seqno'[c]) <= updates
                 /\ seqno'[c] = Unknown => seqno[c] = Unknown
      <4>1. CASE c \notin storing
        BY <2>2, <3>1, <4>1 DEF DripIInv
      <4>2. CASE c \in storing
        <5>1. seqno'[c] = incoming /\ incoming # Unknown /\ incoming \in Seqnos
          BY <2>2, <3>1, <3>3, <3>5, <4>2
        <5>2. Ahead(incoming) <= updates /\ Ahead(incoming) \in Nat
          BY <3>5, <5>1, AheadOf
        <5>3. updates \in 0..Updates /\ Updates \in Nat
          BY <2>1, UpdatesAssumption DEF DripTypeOK
        <5>4. CASE seqno[c] = Unknown
          <6>1. Ahead(seqno[c]) = 0
            <7>1. Agreed = Unknown
              BY <5>4 DEF DripIInv
            <7>2. QED
              BY <5>4, <7>1, Halves, AgreedAssumption DEF Ahead
          <6>2. QED
            BY <5>1, <5>2, <6>1
        <5>5. CASE Newer(incoming, seqno[c])
          <6>1. Ahead(seqno[c]) <= updates
            BY DEF DripIInv
          <6>2. ~ (Ahead(incoming) < Ahead(seqno[c]))
            BY <2>2, <5>1, <5>3, <5>5, <6>1, BehindIsNotNewer DEF NumbersSuffice
          <6>3. QED
            BY <2>2, <5>1, <5>2, <6>2
        <5>6. QED
          BY <3>3, <4>2, <5>4, <5>5
      <4>3. QED
        BY <4>1, <4>2
    <3>8. QED
      BY <2>1, <3>1, <3>6, <3>7, NoNewVersion
  <2>7. ASSUME NEW n \in Restarting, Start(n) \/ Stop(n)
        PROVE  DripIInv'
    BY <2>3, <2>7 DEF Start, Stop
  <2>8. ASSUME NEW n \in Changers, Change(n)
        PROVE  DripIInv'
    <3> DEFINE new == NextSeqno(n)
               made == [seqno |-> new, data |-> updates']
    <3>1. updates \in Nat /\ updates < Updates /\ updates' = updates + 1
      BY <2>1, <2>8 DEF Change, DripTypeOK
    <3>2. n \in Nodes /\ new \in Seqnos /\ new % Ids = n
      BY <2>2, NextNumber
    <3>3. Ahead(seqno[n]) <= updates
      BY DEF DripIInv
    <3>4. new # Unknown /\ Ahead(new) = Ahead(seqno[n]) + 1
      BY <2>2, <3>1, <3>3, ChangeGoesAhead, UpdatesAssumption
    <3>5. /\ \A m \in Nodes : seqno'[m] = IF m = n THEN new ELSE seqno[m]
          /\ \A m \in Nodes : valueCache'[m] = IF m = n THEN updates' ELSE valueCache[m]
          /\ \A m \in Nodes : m_buf'[m] \in {m_buf[m], made}
      BY <2>1, <2>8, <3>2, <3>4 DEF Change, sendObject, Message, DripTypeOK
    <3> HIDE DEF new
    <3>6. Versions' \subseteq Versions \cup {made}
      BY <3>5 DEF Versions
    <3>7. made.seqno = new /\ made.data = updates'
      OBVIOUS
    <3> HIDE DEF made
    <3>8. \A o \in Versions : o.seqno \in Seqnos /\ Ahead(o.seqno) \in Nat /\ Ahead(o.seqno) <= updates
      BY <2>1, VersionTypes, AheadOf DEF DripIInv
    <3>9. \A o \in Versions : o.seqno % Ids = n => Ahead(o.seqno) < Ahead(new)
      BY <2>2, <3>4, <3>8 DEF DripIInv
    <3>10. \A o \in Versions' : Ahead(o.seqno) <= updates'
      BY <2>2, <3>1, <3>3, <3>4, <3>6, <3>7, <3>8
    <3>11. \A c \in Changers : Ahead(seqno'[c]) <= updates'
      BY <2>2, <3>1, <3>3, <3>4, <3>5 DEF DripIInv
    <3>12. ASSUME NEW c \in Changers, NEW o \in Versions', o.seqno % Ids = c
           PROVE  Ahead(o.seqno) <= Ahead(seqno'[c])
      <4>1. CASE o \in Versions
        <5>1. CASE c = n
          BY <3>2, <3>5, <3>8, <3>9, <3>12, <4>1, <5>1, <2>2, <3>4
        <5>2. CASE c # n
          BY <2>2, <3>5, <3>12, <4>1, <5>2 DEF DripIInv
        <5>3. QED
          BY <5>1, <5>2
      <4>2. CASE o = made
        BY <2>2, <3>2, <3>4, <3>5, <3>7, <3>12, <4>2
      <4>3. QED
        BY <3>6, <4>1, <4>2
    <3>13. \A c \in Changers : seqno'[c] = Unknown => Agreed = Unknown
      BY <2>2, <3>4, <3>5 DEF DripIInv
    <3>14. ASSUME NEW o \in Versions', NEW p \in Versions', o.seqno = p.seqno
           PROVE  o.data = p.data
      <4>1. \A v \in Versions : v.seqno # new
        BY <3>2, <3>4, <3>8, <3>9, <2>2
      <4>2. QED
        BY <3>6, <3>7, <3>14, <4>1 DEF DripIInv, OneValueAVersion
    <3>15. QED
      BY <2>1, <3>10, <3>11, <3>12, <3>13, <3>14 DEF DripIInv, OneValueAVersion, Ahead
  <2>9. CASE UNCHANGED dripVars
    BY <2>3, <2>9 DEF dripVars
  <2>10. QED
    BY <2>4, <2>5, <2>6, <2>7, <2>8, <2>9 DEF DripNext
<1>3. QED
  BY <1>1, <1>2, PTL DEF DripSpec

(***************************************************************************)
(* A sequence number never stands for two values (change, storeData,       *)
(* Receive.receive): whatever is lost, however long old messages wait in   *)
(* buffers, and though the counter wraps, a client never gives a value a   *)
(* number that is in use, since nothing takes its node back.               *)
(***************************************************************************)
THEOREM VersionsNameOneValue == ASSUME NumbersSuffice PROVE DripSpec => []OneValueAVersion
BY DripInvariant, PTL DEF DripIInv
=============================================================================
