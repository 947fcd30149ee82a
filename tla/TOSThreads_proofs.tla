-------------------------- MODULE TOSThreads_proofs --------------------------
(***************************************************************************)
(* Proofs about TOSThreads, for any number of threads, whatever they call, *)
(* and whichever of them may be stopped.                                   *)
(*                                                                         *)
(* A thread is runnable, suspended or inactive.  The operators of the      *)
(* scheduler are first reduced to what they do to that; the invariant then *)
(* says that the suspended threads are those somebody has in a queue, by   *)
(* what each of them called.                                               *)
(***************************************************************************)
EXTENDS TOSThreads, FiniteSetTheorems, SequenceTheorems, NaturalsInduction,
        WellFoundedInduction, TLAPS

Ids == Threads \cup {TOS}

LEMMA IdsAreNumbers == Ids \subseteq Nat /\ TOS \notin Threads /\ IsFiniteSet(Threads)
  BY ThreadIds DEF Ids

LEMMA SmallestNumber ==
    ASSUME NEW S, S \subseteq Nat, S # {}
    PROVE  \E m \in S : \A n \in S : m <= n
<1> DEFINE R == OpToRel(<, Nat)
<1>1. \E m \in S : \A n \in S : <<n, m>> \notin R
  <2>1. IsWellFoundedOn(R, Nat)
    BY NatLessThanWellFounded
  <2> HIDE DEF R
  <2>2. QED
    BY <2>1, WFMin
<1>2. \A m, n \in Nat : n < m => <<n, m>> \in R
  BY DEF OpToRel
<1>3. QED
  <2> HIDE DEF R
  <2>1. PICK m \in S : \A n \in S : <<n, m>> \notin R
    BY <1>1
  <2>2. \A n \in S : ~ (n < m)
    BY <2>1, <1>2
  <2>3. QED
    BY <2>2

-----------------------------------------------------------------------------
(***************************************************************************)
(* The threads of a set in an order: there is such a sequence, for the one *)
(* with the first place goes first, and the others follow.                 *)
(***************************************************************************)
Lists(q, S, place) ==
    /\ q \in [1..Cardinality(S) -> S]
    /\ Range(q) = S
    /\ \A i, j \in DOMAIN q : i < j => place[q[i]] < place[q[j]]

Places(S, place) ==
    /\ IsFiniteSet(S)
    /\ \A t \in S : place[t] \in Nat
    /\ \A t, u \in S : place[t] = place[u] => t = u

LEMMA OneMore ==
    ASSUME NEW S, NEW place, Places(S, place), NEW first \in S,
           \A t \in S : place[first] <= place[t],
           NEW r, Lists(r, S \ {first}, place)
    PROVE  \E q : Lists(q, S, place)
<1> DEFINE n == Cardinality(S)
           q == [i \in 1..n |-> IF i = 1 THEN first ELSE r[i - 1]]
<1>1. n \in Nat \ {0} /\ Cardinality(S \ {first}) = n - 1
  BY FS_RemoveElement, FS_CardinalityType, FS_EmptySet DEF Places
<1>2. r \in [1..n - 1 -> S \ {first}] /\ Range(r) = S \ {first}
  BY <1>1 DEF Lists
<1>3. n \in Nat \ {0}
  BY <1>1
<1> HIDE DEF n
<1>4. q \in [1..n -> S]
  BY <1>2, <1>3
<1>5. Range(q) = S
  <2>1. \A i \in 1..n : q[i] \in S
    BY <1>4
  <2>2. ASSUME NEW t \in S
        PROVE  \E i \in 1..n : q[i] = t
    <3>1. CASE t = first
      <4>1. q[1] = t /\ 1 \in 1..n
        BY <1>3, <3>1
      <4>2. QED
        BY <4>1
    <3>2. CASE t # first
      <4>1. PICK k \in 1..n - 1 : r[k] = t
        BY <1>2, <3>2 DEF Range
      <4>2. k + 1 \in 1..n /\ q[k + 1] = t
        BY <1>3, <4>1
      <4>3. QED
        BY <4>2
    <3>3. QED
      BY <3>1, <3>2
  <2>3. QED
    BY <1>4, <2>1, <2>2 DEF Range
<1>6. ASSUME NEW i \in 1..n, NEW j \in 1..n, i < j
      PROVE  place[q[i]] < place[q[j]]
  <2>1. j - 1 \in 1..n - 1 /\ q[j] = r[j - 1] /\ r[j - 1] \in S /\ r[j - 1] # first
    BY <1>2, <1>3, <1>6
  <2>2. CASE i = 1
    <3>1. q[i] = first /\ place[first] # place[r[j - 1]]
      BY <1>3, <2>1, <2>2 DEF Places
    <3>2. QED
      BY <2>1, <3>1 DEF Places
  <2>3. CASE i # 1
    <3>1. i - 1 \in 1..n - 1 /\ i - 1 < j - 1 /\ q[i] = r[i - 1]
      BY <1>3, <1>6, <2>3
    <3>2. QED
      BY <1>2, <2>1, <3>1 DEF Lists
  <2>4. QED
    BY <2>2, <2>3
<1>7. Lists(q, S, place)
  BY <1>4, <1>5, <1>6 DEF Lists, n
<1>8. QED
  BY <1>7

LEMMA OrderExists ==
    ASSUME NEW S, NEW place, Places(S, place)
    PROVE  \E q : Lists(q, S, place)
<1> DEFINE Unlisted == {T \in SUBSET S : \A q : ~ Lists(q, T, place)}
           sizes == {Cardinality(T) : T \in Unlisted}
<1>1. \A T \in SUBSET S : IsFiniteSet(T) /\ Cardinality(T) \in Nat /\ Places(T, place)
  BY FS_Subset, FS_CardinalityType DEF Places
<1>2. SUFFICES ASSUME Unlisted # {} PROVE FALSE
  <2>1. S \in SUBSET S
    OBVIOUS
  <2>2. QED
    BY <1>2, <2>1
<1>3. sizes \subseteq Nat /\ sizes # {}
  BY <1>1, <1>2
<1>4. PICK T \in Unlisted : \A U \in Unlisted : Cardinality(T) <= Cardinality(U)
  <2> HIDE DEF sizes
  <2>1. PICK m \in sizes : \A n \in sizes : m <= n
    BY <1>3, SmallestNumber
  <2>2. QED
    BY <2>1 DEF sizes
<1>5. T # {}
  <2>1. ASSUME T = {}
        PROVE  Lists(<< >>, T, place)
    <3>1. Cardinality(T) = 0
      BY <2>1, FS_EmptySet
    <3>2. QED
      BY <2>1, <3>1 DEF Lists, Range
  <2>2. QED
    BY <1>4, <2>1
<1>6. PICK first \in T : \A t \in T : place[first] <= place[t]
  <2> DEFINE used == {place[t] : t \in T}
  <2>1. used \subseteq Nat /\ used # {}
    BY <1>1, <1>4, <1>5 DEF Places
  <2>2. PICK m \in used : \A n \in used : m <= n
    <3> HIDE DEF used
    <3>1. QED
      BY <2>1, SmallestNumber
  <2>3. QED
    BY <2>2
<1>7. T \ {first} \in SUBSET S /\ Cardinality(T \ {first}) = Cardinality(T) - 1
  BY <1>1, <1>4, FS_RemoveElement
<1>8. T \ {first} \notin Unlisted
  BY <1>1, <1>4, <1>7
<1>9. PICK r : Lists(r, T \ {first}, place)
  BY <1>7, <1>8
<1>10. \E q : Lists(q, T, place)
  BY <1>1, <1>4, <1>6, <1>9, OneMore
<1>11. QED
  BY <1>4, <1>10

-----------------------------------------------------------------------------
(* Queues: the members of a set one by one, each of them once.             *)

Line(q, S) ==
    /\ q \in Seq(S)
    /\ Range(q) = S
    /\ IsInjective(q)

LEMMA LineByElements ==
    ASSUME NEW q, NEW S
    PROVE  Line(q, S) <=>
             /\ q \in Seq(S)
             /\ \A t \in S : \E i \in 1..Len(q) : q[i] = t
             /\ \A i, j \in 1..Len(q) : q[i] = q[j] => i = j
<1>1. CASE q \in Seq(S)
  <2>1. DOMAIN q = 1..Len(q) /\ \A i \in 1..Len(q) : q[i] \in S
    BY <1>1
  <2>2. QED
    BY <1>1, <2>1 DEF Line, Range, IsInjective
<1>2. CASE q \notin Seq(S)
  BY <1>2 DEF Line
<1>3. QED
  BY <1>1, <1>2

LEMMA LineHas ==
    ASSUME NEW q, NEW S, Line(q, S), NEW t
    PROVE  Contains(q, t) <=> t \in S
<1>1. \A i \in 1..Len(q) : q[i] \in S
  BY DEF Line
<1>2. QED
  BY <1>1, LineByElements DEF Contains

LEMMA LineEmpty ==
    ASSUME NEW q, NEW S, Line(q, S)
    PROVE  q = << >> <=> S = {}
<1>1. q \in Seq(S) /\ (q = << >> <=> Len(q) = 0) /\ Len(q) \in Nat
  BY DEF Line
<1>2. CASE S = {}
  <2>1. ~ (1 \in 1..Len(q))
    BY <1>1, <1>2
  <2>2. QED
    BY <1>1, <1>2, <2>1
<1>3. CASE S # {}
  <2>1. PICK t \in S : TRUE
    BY <1>3
  <2>2. PICK i \in 1..Len(q) : q[i] = t
    BY LineByElements
  <2>3. QED
    BY <1>1, <1>3, <2>2
<1>4. QED
  BY <1>2, <1>3

LEMMA LineAppend ==
    ASSUME NEW q, NEW S, Line(q, S), NEW t, t \notin S
    PROVE  Line(Append(q, t), S \cup {t})
<1> DEFINE r == Append(q, t)
<1>1. q \in Seq(S) /\ Len(q) \in Nat /\ \A i \in 1..Len(q) : q[i] \in S
  BY DEF Line
<1>2. q \in Seq(S \cup {t})
  BY <1>1
<1>3. /\ r \in Seq(S \cup {t}) /\ Len(r) = Len(q) + 1
      /\ \A i \in 1..Len(q) : r[i] = q[i] /\ r[Len(q) + 1] = t
  <2>1. r \in Seq(S \cup {t}) /\ Len(r) = Len(q) + 1
    BY <1>2
  <2>2. QED
    BY <1>2, <2>1
<1>4. r[Len(q) + 1] = t
  BY <1>2
<1> HIDE DEF r
<1>5. ASSUME NEW u \in S \cup {t}
      PROVE  \E i \in 1..Len(r) : r[i] = u
  <2>1. CASE u = t
    <3>1. Len(q) + 1 \in 1..Len(r)
      BY <1>1, <1>3
    <3>2. QED
      BY <1>4, <2>1, <3>1
  <2>2. CASE u \in S
    <3>1. PICK i \in 1..Len(q) : q[i] = u
      BY <2>2, LineByElements
    <3>2. i \in 1..Len(r) /\ r[i] = u
      BY <1>1, <1>3, <3>1
    <3>3. QED
      BY <3>2
  <2>3. QED
    BY <2>1, <2>2
<1>6. ASSUME NEW i \in 1..Len(r), NEW j \in 1..Len(r), r[i] = r[j]
      PROVE  i = j
  <2>1. \A k \in 1..Len(r) : k \in 1..Len(q) \/ k = Len(q) + 1
    BY <1>1, <1>3
  <2>2. \A k, l \in 1..Len(q) : q[k] = q[l] => k = l
    BY LineByElements
  <2>3. QED
    BY <1>1, <1>3, <1>4, <1>6, <2>1, <2>2
<1>7. Line(r, S \cup {t})
  BY <1>3, <1>5, <1>6, LineByElements
<1>8. QED
  BY <1>7 DEF r

LEMMA LineTail ==
    ASSUME NEW q, NEW S, Line(q, S), q # << >>
    PROVE  Head(q) \in S /\ Line(Tail(q), S \ {Head(q)})
<1> DEFINE r == Tail(q)
           h == Head(q)
<1>1. q \in Seq(S) /\ Len(q) \in Nat \ {0} /\ \A i \in 1..Len(q) : q[i] \in S
  <2>1. q \in Seq(S)
    BY DEF Line
  <2>2. QED
    BY <2>1
<1>2. \A i, j \in 1..Len(q) : q[i] = q[j] => i = j
  BY LineByElements
<1>3. h = q[1] /\ r \in Seq(S) /\ Len(r) = Len(q) - 1
  BY <1>1
<1>4. \A i \in 1..Len(q) - 1 : r[i] = q[i + 1]
  BY <1>1
<1> HIDE DEF r, h
<1>5. h \in S
  BY <1>1, <1>3
<1>6. \A i \in 1..Len(r) : r[i] = q[i + 1] /\ i + 1 \in 1..Len(q) /\ q[i + 1] \in S \ {h}
  <2>1. TAKE i \in 1..Len(r)
  <2>2. i + 1 \in 1..Len(q) /\ r[i] = q[i + 1] /\ i + 1 # 1 /\ 1 \in 1..Len(q)
    BY <1>1, <1>3, <1>4
  <2>3. q[i + 1] # q[1]
    BY <1>2, <2>2
  <2>4. QED
    BY <1>1, <1>3, <2>2, <2>3
<1>7. r \in Seq(S \ {h})
  <2>1. \A i \in 1..Len(r) : r[i] \in S \ {h}
    BY <1>6
  <2>2. QED
    BY <1>3, <2>1, ElementOfSeq, SeqDef
<1>8. ASSUME NEW t \in S \ {h}
      PROVE  \E i \in 1..Len(r) : r[i] = t
  <2>1. PICK k \in 1..Len(q) : q[k] = t
    BY LineByElements
  <2>2. k # 1
    BY <1>3, <2>1
  <2>3. k - 1 \in 1..Len(r) /\ (k - 1) + 1 = k
    BY <1>1, <1>3, <2>2
  <2>4. r[k - 1] = t
    BY <1>6, <2>1, <2>3
  <2>5. QED
    BY <2>3, <2>4
<1>9. ASSUME NEW i \in 1..Len(r), NEW j \in 1..Len(r), r[i] = r[j]
      PROVE  i = j
  <2>1. i + 1 = j + 1
    BY <1>2, <1>6, <1>9
  <2>2. QED
    BY <1>3, <2>1
<1>10. Line(r, S \ {h})
  BY <1>7, <1>8, <1>9, LineByElements
<1>11. QED
  BY <1>5, <1>10 DEF r, h

LEMMA LineConcat ==
    ASSUME NEW q, NEW S, Line(q, S), NEW r, NEW T, Line(r, T), S \cap T = {}
    PROVE  Line(q \o r, S \cup T)
<1> DEFINE c == q \o r
<1>1. q \in Seq(S) /\ Len(q) \in Nat /\ \A i \in 1..Len(q) : q[i] \in S
  BY DEF Line
<1>2. r \in Seq(T) /\ Len(r) \in Nat /\ \A i \in 1..Len(r) : r[i] \in T
  BY DEF Line
<1>3. q \in Seq(S \cup T) /\ r \in Seq(S \cup T)
  BY <1>1, <1>2
<1>4. c \in Seq(S \cup T) /\ Len(c) = Len(q) + Len(r)
  BY <1>3
<1>5. \A i \in 1..Len(c) : c[i] = IF i <= Len(q) THEN q[i] ELSE r[i - Len(q)]
  BY <1>3, <1>4
<1> HIDE DEF c
<1>6. \A i \in 1..Len(q) : i \in 1..Len(c) /\ c[i] = q[i]
  BY <1>1, <1>2, <1>4, <1>5
<1>7. \A i \in 1..Len(r) : i + Len(q) \in 1..Len(c) /\ c[i + Len(q)] = r[i]
  <2>1. TAKE i \in 1..Len(r)
  <2>2. /\ i + Len(q) \in 1..Len(c) /\ ~ (i + Len(q) <= Len(q))
        /\ (i + Len(q)) - Len(q) = i
    BY <1>1, <1>2, <1>4
  <2>3. QED
    BY <1>5, <2>2
<1>8. ASSUME NEW t \in S \cup T
      PROVE  \E i \in 1..Len(c) : c[i] = t
  <2>1. CASE t \in S
    <3>1. PICK i \in 1..Len(q) : q[i] = t
      BY <2>1, LineByElements
    <3>2. QED
      BY <1>6, <3>1
  <2>2. CASE t \in T
    <3>1. PICK i \in 1..Len(r) : r[i] = t
      BY <2>2, LineByElements
    <3>2. QED
      BY <1>7, <3>1
  <2>3. QED
    BY <2>1, <2>2
<1>9. \A i \in 1..Len(c) : \/ i \in 1..Len(q) /\ c[i] = q[i]
                           \/ i - Len(q) \in 1..Len(r) /\ c[i] = r[i - Len(q)] /\ i > Len(q)
  BY <1>1, <1>2, <1>4, <1>5
<1>10. ASSUME NEW i \in 1..Len(c), NEW j \in 1..Len(c), c[i] = c[j]
       PROVE  i = j
  <2>1. \A k, l \in 1..Len(q) : q[k] = q[l] => k = l
    BY LineByElements
  <2>2. \A k, l \in 1..Len(r) : r[k] = r[l] => k = l
    BY LineByElements
  <2>3. CASE i \in 1..Len(q) /\ j \in 1..Len(q)
    BY <1>6, <1>10, <2>1, <2>3
  <2>4. CASE i > Len(q) /\ j > Len(q)
    <3>1. i - Len(q) \in 1..Len(r) /\ j - Len(q) \in 1..Len(r) /\ r[i - Len(q)] = r[j - Len(q)]
      BY <1>1, <1>9, <1>10, <2>4
    <3>2. i - Len(q) = j - Len(q)
      BY <2>2, <3>1
    <3>3. QED
      BY <1>1, <3>2
  <2>5. CASE i \in 1..Len(q) /\ j > Len(q)
    <3>1. c[i] \in S /\ c[j] \in T
      BY <1>1, <1>2, <1>6, <1>9, <2>5
    <3>2. QED
      BY <1>10, <3>1
  <2>6. CASE j \in 1..Len(q) /\ i > Len(q)
    <3>1. c[j] \in S /\ c[i] \in T
      BY <1>1, <1>2, <1>6, <1>9, <2>6
    <3>2. QED
      BY <1>10, <3>1
  <2>7. QED
    BY <1>1, <1>9, <2>3, <2>4, <2>5, <2>6
<1>11. Line(c, S \cup T)
  BY <1>4, <1>8, <1>10, LineByElements
<1>12. QED
  BY <1>11 DEF c

LEMMA LineOfSequence ==
    ASSUME NEW T, NEW q \in Seq(T), IsInjective(q)
    PROVE  Line(q, Range(q))
<1>1. DOMAIN q = 1..Len(q) /\ Len(q) \in Nat
  OBVIOUS
<1>2. \A i \in 1..Len(q) : q[i] \in Range(q)
  BY <1>1 DEF Range
<1>3. q \in Seq(Range(q))
  BY <1>2, SeqDef
<1>4. QED
  BY <1>3 DEF Line

LEMMA InOrderIs ==
    ASSUME NEW S, NEW place, Places(S, place)
    PROVE  Line(InOrder(S, place), S)
<1> DEFINE q == InOrder(S, place)
<1>1. Lists(q, S, place)
  BY OrderExists, Zenon DEF InOrder, Lists
<1>2. Cardinality(S) \in Nat
  BY FS_CardinalityType DEF Places
<1>3. q \in Seq(S) /\ DOMAIN q = 1..Cardinality(S) /\ \A i \in DOMAIN q : q[i] \in S
  BY <1>1, <1>2 DEF Lists
<1> HIDE DEF q
<1>4. ASSUME NEW i \in DOMAIN q, NEW j \in DOMAIN q, q[i] = q[j]
      PROVE  i = j
  <2>1. ~ (i < j) /\ ~ (j < i)
    BY <1>1, <1>3, <1>4 DEF Lists, Places
  <2>2. QED
    BY <1>2, <1>3, <2>1
<1>5. QED
  BY <1>1, <1>3, <1>4 DEF Lists, IsInjective, Line, q

LEMMA PickedIs ==
    ASSUME NEW T, NEW q \in Seq(T), NEW S
    PROVE  Line(Picked(q, S), S \cap Range(q))
<1> DEFINE threads == S \cap Range(q)
           place == [t \in threads |-> CHOOSE i \in DOMAIN q : q[i] = t]
<1>1. DOMAIN q = 1..Len(q) /\ Len(q) \in Nat
  OBVIOUS
<1>2. IsFiniteSet(Range(q))
  <2>1. IsFiniteSet(1..Len(q))
    BY <1>1, FS_Interval
  <2>2. q \in Surjection(1..Len(q), Range(q))
    BY <1>1 DEF Range, Surjection
  <2>3. QED
    BY <2>1, <2>2, FS_Surjection
<1>3. IsFiniteSet(threads)
  BY <1>2, FS_Subset
<1>4. ASSUME NEW t \in threads
      PROVE  place[t] \in Nat /\ q[place[t]] = t
  <2>1. \E i \in DOMAIN q : q[i] = t
    BY DEF Range
  <2>2. place[t] \in DOMAIN q /\ q[place[t]] = t
    BY <2>1
  <2>3. QED
    BY <1>1, <2>2
<1>5. Places(threads, place)
  BY <1>3, <1>4 DEF Places
<1>6. Picked(q, S) = InOrder(threads, place)
  BY DEF Picked
<1> HIDE DEF threads, place
<1>7. Line(InOrder(threads, place), threads)
  BY <1>5, InOrderIs
<1>8. QED
  BY <1>6, <1>7 DEF threads

LEMMA JoinedIs ==
    ASSUME NEW joined \in SUBSET Threads
    PROVE  Line(InOrder(joined, [u \in joined |-> u]), joined)
<1>1. Places(joined, [u \in joined |-> u])
  BY IdsAreNumbers, FS_Subset DEF Places, Ids
<1>2. QED
  BY <1>1, InOrderIs

-----------------------------------------------------------------------------
(***************************************************************************)
(* The scheduler.                                                          *)
(***************************************************************************)
Schedulers == [current : Ids, state : [Ids -> States], ready : Seq(Threads),
               num_runnable_threads : Nat]

ReadyOnes(s) == {t \in Threads : s.state[t] = "READY"}
SuspendedOnes(s) == {t \in Threads : s.state[t] = "SUSPENDED"}
InactiveOnes(s) == {t \in Threads : s.state[t] = "INACTIVE"}

\* The ready queue holds the threads that are ready, and only the current one is active.
Consistent(s) ==
    /\ s \in Schedulers
    /\ Line(s.ready, ReadyOnes(s))
    /\ \A t \in Ids : s.state[t] = "ACTIVE" => t = s.current
    /\ s.state[TOS] # "INACTIVE"
    /\ s.num_runnable_threads = Cardinality(Threads \ InactiveOnes(s))

\* As it is between two calls: TinyOS does not wait for the processor, and the
\* processor sleeps only if nobody does.
Settled(s) == Consistent(s) /\ s.state[TOS] # "READY" /\ (Asleep(s) => Idle(s))

\* TinyOS has the processor.
TosActive(s) == s.current = TOS /\ s.state[TOS] = "ACTIVE"

\* No thread is suspended, woken up, started or stopped.
SameThreads(s, r) == SuspendedOnes(r) = SuspendedOnes(s) /\ InactiveOnes(r) = InactiveOnes(s)

LEMMA FourStates ==
    ASSUME NEW s \in Schedulers, NEW t \in Ids
    PROVE  s.state[t] \in {"INACTIVE", "ACTIVE", "READY", "SUSPENDED"}
  BY DEF Schedulers, States

LEMMA WithIs ==
    ASSUME NEW s \in Schedulers, NEW t \in Ids, NEW a \in States
    PROVE  /\ With(s, t, a) \in Schedulers
           /\ With(s, t, a).current = s.current
           /\ With(s, t, a).ready = s.ready
           /\ With(s, t, a).num_runnable_threads = s.num_runnable_threads
           /\ With(s, t, a).state[t] = a
           /\ \A u \in Ids : u # t => With(s, t, a).state[u] = s.state[u]
<1>1. s.state \in [Ids -> States]
  BY DEF Schedulers
<1>2. [s.state EXCEPT ![t] = a] \in [Ids -> States]
  BY <1>1
<1>3. With(s, t, a) = [s EXCEPT !.state = [s.state EXCEPT ![t] = a]]
  BY DEF With, Schedulers
<1>4. QED
  BY <1>1, <1>2, <1>3 DEF Schedulers

LEMMA ScheduleSettles ==
    ASSUME NEW s, Consistent(s), \A t \in Ids : s.state[t] # "ACTIVE", ~ Idle(s)
    PROVE  /\ Settled(Schedule(s)) /\ ~ Asleep(Schedule(s)) /\ SameThreads(s, Schedule(s))
           /\ s.state[TOS] = "READY" => TosActive(Schedule(s))
<1> DEFINE r == Schedule(s)
<1>1. s \in Schedulers /\ TOS \in Ids /\ TOS \notin Threads
  BY IdsAreNumbers DEF Consistent, Ids
<1>2. CASE s.state[TOS] = "READY"
  <2>1. s.ready \in Seq(Threads)
    BY <1>1 DEF Schedulers
  <2>2. [s EXCEPT !.current = TOS] \in Schedulers
    BY <1>1 DEF Schedulers
  <2>3. r = With([s EXCEPT !.current = TOS], TOS, "ACTIVE")
    BY <1>2 DEF Schedule
  <2>4. /\ r \in Schedulers /\ r.current = TOS /\ r.ready = s.ready
        /\ r.num_runnable_threads = s.num_runnable_threads /\ r.state[TOS] = "ACTIVE"
        /\ \A t \in Ids : t # TOS => r.state[t] = s.state[t]
    <3> DEFINE s1 == [s EXCEPT !.current = TOS]
    <3>1. /\ s1.current = TOS /\ s1.ready = s.ready /\ s1.state = s.state
          /\ s1.num_runnable_threads = s.num_runnable_threads
      BY <1>1 DEF Schedulers
    <3>2. "ACTIVE" \in States
      BY DEF States
    <3> HIDE DEF s1, r
    <3>3. s1 \in Schedulers /\ r = With(s1, TOS, "ACTIVE")
      BY <2>2, <2>3 DEF s1
    <3>4. QED
      BY <1>1, <3>1, <3>2, <3>3, WithIs
  <2> HIDE DEF r
  <2>5. ReadyOnes(r) = ReadyOnes(s) /\ SameThreads(s, r)
    BY <1>1, <2>4 DEF ReadyOnes, SameThreads, SuspendedOnes, InactiveOnes, Ids
  <2>6. Consistent(r)
    BY <1>1, <2>4, <2>5 DEF Consistent, SameThreads, Ids
  <2>7. QED
    BY <2>4, <2>5, <2>6 DEF Settled, Asleep, TosActive, r
<1>3. CASE s.state[TOS] # "READY"
  <2> DEFINE h == Head(s.ready)
             q == Tail(s.ready)
             s1 == [s EXCEPT !.current = h, !.ready = q]
  <2>1. s.ready # << >> /\ Line(s.ready, ReadyOnes(s))
    BY <1>3 DEF Idle, Consistent
  <2>2. h \in ReadyOnes(s) /\ Line(q, ReadyOnes(s) \ {h})
    BY <2>1, LineTail
  <2>3. s.ready \in Seq(Threads)
    BY <1>1 DEF Schedulers
  <2>4. q \in Seq(Threads)
    BY <2>1, <2>3
  <2>5. r = With(s1, h, "ACTIVE")
    BY <1>3 DEF Schedule
  <2> HIDE DEF r, h, q
  <2>6. h \in Threads /\ h \in Ids /\ h # TOS /\ s.state[h] = "READY"
    BY <1>1, <2>2 DEF ReadyOnes, Ids
  <2>7. /\ s1 \in Schedulers /\ s1.current = h /\ s1.ready = q /\ s1.state = s.state
        /\ s1.num_runnable_threads = s.num_runnable_threads
    BY <1>1, <2>4, <2>6 DEF Schedulers
  <2> HIDE DEF s1
  <2>8. /\ r \in Schedulers /\ r.current = h /\ r.ready = q
        /\ r.num_runnable_threads = s.num_runnable_threads /\ r.state[h] = "ACTIVE"
        /\ \A t \in Ids : t # h => r.state[t] = s.state[t]
    <3>1. "ACTIVE" \in States
      BY DEF States
    <3>2. QED
      BY <2>5, <2>6, <2>7, <3>1, WithIs
  <2>9. ReadyOnes(r) = ReadyOnes(s) \ {h} /\ SameThreads(s, r)
    BY <2>6, <2>8 DEF ReadyOnes, SameThreads, SuspendedOnes, InactiveOnes, Ids
  <2>10. Consistent(r) /\ r.state[TOS] = s.state[TOS]
    BY <1>1, <2>2, <2>6, <2>8, <2>9 DEF Consistent, SameThreads
  <2>11. QED
    BY <1>3, <2>8, <2>9, <2>10 DEF Settled, Asleep, r
<1>4. QED
  BY <1>2, <1>3

\* The processor sleeps, or somebody runs, and TinyOS before all others.
LEMMA SleepOrScheduleSettles ==
    ASSUME NEW s, Consistent(s), \A t \in Ids : s.state[t] # "ACTIVE"
    PROVE  /\ Settled(SleepOrSchedule(s)) /\ SameThreads(s, SleepOrSchedule(s))
           /\ s.state[TOS] = "READY" => TosActive(SleepOrSchedule(s))
<1>1. CASE Idle(s)
  <2>1. SleepOrSchedule(s) = s
    BY <1>1 DEF SleepOrSchedule
  <2>2. QED
    BY <1>1, <2>1 DEF Settled, SameThreads, Idle
<1>2. CASE ~ Idle(s)
  <2>1. SleepOrSchedule(s) = Schedule(s)
    BY <1>2 DEF SleepOrSchedule
  <2>2. QED
    BY <1>2, <2>1, ScheduleSettles
<1>3. QED
  BY <1>1, <1>2

LEMMA SuspendSettles ==
    ASSUME NEW s, Consistent(s), ~ Asleep(s)
    PROVE  /\ Settled(Suspend(s))
           /\ SuspendedOnes(Suspend(s)) = SuspendedOnes(s) \cup ({s.current} \cap Threads)
           /\ InactiveOnes(Suspend(s)) = InactiveOnes(s)
           /\ s.state[TOS] = "READY" => TosActive(Suspend(s))
<1> DEFINE c == s.current
           r == With(s, c, "SUSPENDED")
<1>1. s \in Schedulers /\ c \in Ids /\ TOS \in Ids /\ TOS \notin Threads /\ "SUSPENDED" \in States
  BY IdsAreNumbers DEF Consistent, Schedulers, Ids, States
<1>2. s.state[c] = "ACTIVE" /\ \A t \in Ids : s.state[t] = "ACTIVE" => t = c
  BY DEF Asleep, Consistent
<1>3. Suspend(s) = SleepOrSchedule(r)
  BY DEF Suspend
<1> HIDE DEF r
<1>4. /\ r \in Schedulers /\ r.ready = s.ready /\ r.num_runnable_threads = s.num_runnable_threads
      /\ r.state[c] = "SUSPENDED" /\ \A t \in Ids : t # c => r.state[t] = s.state[t]
  BY <1>1, WithIs DEF r
<1> HIDE DEF c
<1>5. /\ ReadyOnes(r) = ReadyOnes(s) /\ InactiveOnes(r) = InactiveOnes(s)
      /\ SuspendedOnes(r) = SuspendedOnes(s) \cup ({c} \cap Threads)
  BY <1>1, <1>2, <1>4 DEF ReadyOnes, InactiveOnes, SuspendedOnes, Ids
<1>6. \A t \in Ids : r.state[t] # "ACTIVE"
  BY <1>2, <1>4
<1>7. Consistent(r)
  BY <1>1, <1>4, <1>5, <1>6 DEF Consistent
<1>8. s.state[TOS] = "READY" => r.state[TOS] = "READY"
  BY <1>1, <1>2, <1>4
<1>9. QED
  BY <1>3, <1>5, <1>6, <1>7, <1>8, SleepOrScheduleSettles DEF SameThreads, c

LEMMA WakeUpAllWakes ==
    ASSUME NEW s, Consistent(s), NEW q \in Seq(Ids)
    PROVE  /\ Consistent(WakeUpAll(s, q)) /\ WakeUpAll(s, q).current = s.current
           /\ \A t \in Ids : WakeUpAll(s, q).state[t] =
                 IF t \in Range(q) /\ s.state[t] = "SUSPENDED" THEN "READY" ELSE s.state[t]
           /\ SuspendedOnes(WakeUpAll(s, q)) = SuspendedOnes(s) \ Range(q)
           /\ InactiveOnes(WakeUpAll(s, q)) = InactiveOnes(s)
<1> DEFINE r == WakeUpAll(s, q)
           woken == {t \in Range(q) : s.state[t] = "SUSPENDED"}
           p == Picked(q, woken \ {TOS})
           newState == [t \in Ids |-> IF t \in woken THEN "READY" ELSE s.state[t]]
<1>1. /\ s \in Schedulers /\ s.state \in [Ids -> States] /\ s.ready \in Seq(Threads)
      /\ TOS \in Ids /\ TOS \notin Threads
  BY IdsAreNumbers DEF Consistent, Schedulers, Ids
<1>2. woken \subseteq Ids
  BY DEF Range
<1>3. Line(p, woken \ {TOS})
  <2>1. Line(p, (woken \ {TOS}) \cap Range(q))
    BY PickedIs
  <2>2. (woken \ {TOS}) \cap Range(q) = woken \ {TOS}
    OBVIOUS
  <2> HIDE DEF p, woken
  <2>3. QED
    BY <2>1, <2>2
<1>4. p \in Seq(Threads)
  <2>1. woken \ {TOS} \subseteq Threads
    BY <1>2 DEF Ids
  <2> HIDE DEF p, woken
  <2>2. p \in Seq(woken \ {TOS})
    BY <1>3 DEF Line
  <2>3. QED
    BY <2>1, <2>2
<1>5. r = [s EXCEPT !.state = newState, !.ready = s.ready \o p]
  <2>1. DOMAIN s.state = Ids
    BY <1>1
  <2>2. QED
    BY <1>1, <2>1 DEF WakeUpAll, Schedulers
<1>6. newState \in [Ids -> States]
  BY <1>1 DEF States
<1> HIDE DEF r, woken, p, newState
<1>7. s.ready \o p \in Seq(Threads)
  BY <1>1, <1>4
<1>8. /\ r \in Schedulers /\ r.current = s.current /\ r.state = newState
      /\ r.ready = s.ready \o p /\ r.num_runnable_threads = s.num_runnable_threads
  BY <1>1, <1>5, <1>6, <1>7 DEF Schedulers
<1>9. \A t \in Ids : r.state[t] =
          IF t \in Range(q) /\ s.state[t] = "SUSPENDED" THEN "READY" ELSE s.state[t]
  BY <1>8 DEF newState, woken
<1>10. /\ ReadyOnes(r) = ReadyOnes(s) \cup (woken \ {TOS})
       /\ SuspendedOnes(r) = SuspendedOnes(s) \ Range(q) /\ InactiveOnes(r) = InactiveOnes(s)
  <2>1. \A t \in woken \ {TOS} : t \in Threads
    BY <1>2 DEF Ids
  <2>2. ReadyOnes(r) = ReadyOnes(s) \cup (woken \ {TOS})
    BY <1>1, <1>9, <2>1 DEF ReadyOnes, Ids, woken
  <2>3. QED
    BY <1>9, <2>2 DEF SuspendedOnes, InactiveOnes, Ids
<1>11. ReadyOnes(s) \cap (woken \ {TOS}) = {}
  BY DEF ReadyOnes, woken
<1>12. Line(s.ready \o p, ReadyOnes(r))
  <2>1. Line(s.ready, ReadyOnes(s))
    BY DEF Consistent
  <2>2. QED
    BY <1>3, <1>10, <1>11, <2>1, LineConcat
<1>13. Consistent(r)
  BY <1>1, <1>8, <1>9, <1>10, <1>12 DEF Consistent
<1>14. QED
  BY <1>8, <1>9, <1>10, <1>13 DEF r

\* A thread that runs wakes others up, and goes on.
LEMMA WakeUpAllSettles ==
    ASSUME NEW s, Settled(s), ~ Asleep(s), NEW q \in Seq(Threads)
    PROVE  /\ Settled(WakeUpAll(s, q)) /\ ~ Asleep(WakeUpAll(s, q))
           /\ WakeUpAll(s, q).current = s.current
           /\ SuspendedOnes(WakeUpAll(s, q)) = SuspendedOnes(s) \ Range(q)
           /\ InactiveOnes(WakeUpAll(s, q)) = InactiveOnes(s)
           /\ TosActive(s) => TosActive(WakeUpAll(s, q))
<1> DEFINE r == WakeUpAll(s, q)
<1>1. q \in Seq(Ids) /\ Range(q) \subseteq Threads /\ Consistent(s) /\ s.current \in Ids
  BY DEF Ids, Range, Settled, Consistent, Schedulers
<1>2. TOS \in Ids /\ TOS \notin Range(q)
  BY <1>1, IdsAreNumbers DEF Ids
<1> HIDE DEF r
<1>3. /\ Consistent(r) /\ r.current = s.current
      /\ \A t \in Ids : r.state[t] =
            IF t \in Range(q) /\ s.state[t] = "SUSPENDED" THEN "READY" ELSE s.state[t]
      /\ SuspendedOnes(r) = SuspendedOnes(s) \ Range(q)
      /\ InactiveOnes(r) = InactiveOnes(s)
  BY <1>1, WakeUpAllWakes DEF r
<1>4. r.state[TOS] = s.state[TOS] /\ r.state[s.current] = s.state[s.current]
  BY <1>1, <1>2, <1>3 DEF Asleep
<1>5. QED
  BY <1>3, <1>4 DEF Settled, Asleep, TosActive, r

LEMMA WakeUpSettles ==
    ASSUME NEW s, Settled(s), ~ Asleep(s), NEW t \in Threads
    PROVE  /\ Settled(WakeUp(s, t)) /\ ~ Asleep(WakeUp(s, t))
           /\ WakeUp(s, t).current = s.current
           /\ SuspendedOnes(WakeUp(s, t)) = SuspendedOnes(s) \ {t}
           /\ InactiveOnes(WakeUp(s, t)) = InactiveOnes(s)
           /\ TosActive(s) => TosActive(WakeUp(s, t))
<1>1. <<t>> \in Seq(Threads) /\ Range(<<t>>) = {t}
  BY DEF Range
<1>2. QED
  BY <1>1, WakeUpAllSettles DEF WakeUp

\* TinyOS is woken up, and waits for the processor.
LEMMA WakeUpTos ==
    ASSUME NEW s, Settled(s), s.state[TOS] = "SUSPENDED"
    PROVE  /\ Consistent(WakeUp(s, TOS)) /\ SameThreads(s, WakeUp(s, TOS))
           /\ WakeUp(s, TOS).current = s.current /\ (Asleep(WakeUp(s, TOS)) <=> Asleep(s))
           /\ WakeUp(s, TOS).state[TOS] = "READY"
<1>1. TOS \in Ids /\ TOS \notin Threads
  BY IdsAreNumbers DEF Ids
<1>2. <<TOS>> \in Seq(Ids) /\ Range(<<TOS>>) = {TOS}
  BY <1>1 DEF Range
<1>3. s.current \in Ids /\ Consistent(s)
  BY DEF Settled, Consistent, Schedulers
<1> DEFINE q == <<TOS>>
           r == WakeUpAll(s, q)
<1>4. /\ q \in Seq(Ids) /\ Range(q) = {TOS} /\ r = WakeUp(s, TOS)
  BY <1>2 DEF WakeUp
<1> HIDE DEF q
<1>5. /\ Consistent(r) /\ r.current = s.current
      /\ \A t \in Ids : r.state[t] =
            IF t \in {TOS} /\ s.state[t] = "SUSPENDED" THEN "READY" ELSE s.state[t]
      /\ SuspendedOnes(r) = SuspendedOnes(s) \ {TOS}
      /\ InactiveOnes(r) = InactiveOnes(s)
  <2>1. /\ Consistent(r) /\ r.current = s.current
        /\ \A t \in Ids : r.state[t] =
              IF t \in Range(q) /\ s.state[t] = "SUSPENDED" THEN "READY" ELSE s.state[t]
        /\ SuspendedOnes(r) = SuspendedOnes(s) \ Range(q)
        /\ InactiveOnes(r) = InactiveOnes(s)
    BY <1>3, <1>4, WakeUpAllWakes
  <2> HIDE DEF r
  <2>2. QED
    BY <1>4, <2>1
<1> HIDE DEF r
<1>6. SuspendedOnes(s) \ {TOS} = SuspendedOnes(s)
  BY <1>1 DEF SuspendedOnes
<1>7. QED
  BY <1>1, <1>3, <1>4, <1>5, <1>6 DEF SameThreads, Asleep, r

\* The thread that runs goes to the end of the ready queue.
LEMMA PreemptedIs ==
    ASSUME NEW s, Consistent(s), ~ Asleep(s), s.current # TOS
    PROVE  LET r == Enqueued(With(s, s.current, "READY"), s.current)
           IN  /\ Consistent(r) /\ SameThreads(s, r) /\ ~ Idle(r)
               /\ \A t \in Ids : r.state[t] # "ACTIVE"
               /\ r.state[TOS] = s.state[TOS]
<1> DEFINE c == s.current
           s1 == With(s, c, "READY")
           r == Enqueued(s1, c)
<1>1. /\ s \in Schedulers /\ c \in Ids /\ c \in Threads /\ s.ready \in Seq(Threads)
      /\ TOS \in Ids /\ TOS \notin Threads /\ "READY" \in States
  BY IdsAreNumbers DEF Consistent, Schedulers, Ids, States
<1>2. s.state[c] = "ACTIVE" /\ \A t \in Ids : s.state[t] = "ACTIVE" => t = c
  BY DEF Asleep, Consistent
<1> HIDE DEF s1, c
<1>3. /\ s1 \in Schedulers /\ s1.ready = s.ready
      /\ s1.num_runnable_threads = s.num_runnable_threads /\ s1.current = s.current
      /\ s1.state[c] = "READY" /\ \A t \in Ids : t # c => s1.state[t] = s.state[t]
  BY <1>1, WithIs DEF s1
<1>4. Append(s.ready, c) \in Seq(Threads)
  BY <1>1
<1>5. /\ r \in Schedulers /\ r.ready = Append(s.ready, c) /\ r.state = s1.state
      /\ r.current = s1.current /\ r.num_runnable_threads = s1.num_runnable_threads
  BY <1>3, <1>4 DEF Enqueued, Schedulers
<1> HIDE DEF r
<1>6. c \notin ReadyOnes(s) /\ ReadyOnes(r) = ReadyOnes(s) \cup {c} /\ SameThreads(s, r)
  BY <1>1, <1>2, <1>3, <1>5
     DEF ReadyOnes, SameThreads, SuspendedOnes, InactiveOnes, Ids
<1>7. Line(r.ready, ReadyOnes(r))
  <2>1. Line(s.ready, ReadyOnes(s))
    BY DEF Consistent
  <2>2. QED
    BY <1>5, <1>6, <2>1, LineAppend
<1>8. \A t \in Ids : r.state[t] # "ACTIVE"
  BY <1>2, <1>3, <1>5
<1>9. r.state[TOS] = s.state[TOS]
  BY <1>1, <1>3, <1>5 DEF c
<1>10. Consistent(r)
  BY <1>3, <1>5, <1>6, <1>7, <1>8, <1>9 DEF Consistent, SameThreads
<1>11. ~ Idle(r)
  BY <1>6, <1>7, LineEmpty DEF Idle
<1>12. QED
  BY <1>6, <1>8, <1>9, <1>10, <1>11 DEF r, s1, c

\* TinyOS, which waits for the processor or is interrupted itself, gets it.
LEMMA InterruptSettles ==
    ASSUME NEW s, Consistent(s), s.state[TOS] = "READY" \/ TosActive(s)
    PROVE  /\ Settled(Interrupt(s)) /\ SameThreads(s, Interrupt(s))
           /\ TosActive(Interrupt(s))
<1>1. TOS \in Ids /\ TOS \notin Threads /\ "READY" \in States /\ s \in Schedulers
  BY IdsAreNumbers DEF Ids, States, Consistent
<1>2. CASE Asleep(s)
  <2>1. Interrupt(s) = SleepOrSchedule(s) /\ \A t \in Ids : s.state[t] # "ACTIVE"
    BY <1>2 DEF Interrupt, Asleep, Consistent
  <2>2. s.state[TOS] = "READY"
    BY <1>2 DEF Asleep, TosActive
  <2>3. QED
    BY <2>1, <2>2, SleepOrScheduleSettles
<1>3. CASE ~ Asleep(s) /\ s.current = TOS
  <2> DEFINE r == With(s, TOS, "READY")
  <2>1. Interrupt(s) = Schedule(r)
    BY <1>3 DEF Interrupt
  <2> HIDE DEF r
  <2>2. /\ r \in Schedulers /\ r.ready = s.ready
        /\ r.num_runnable_threads = s.num_runnable_threads
        /\ r.state[TOS] = "READY" /\ \A t \in Ids : t # TOS => r.state[t] = s.state[t]
    BY <1>1, WithIs DEF r
  <2>3. ReadyOnes(r) = ReadyOnes(s) /\ SameThreads(s, r)
    BY <1>1, <2>2 DEF ReadyOnes, SameThreads, SuspendedOnes, InactiveOnes, Ids
  <2>4. \A t \in Ids : r.state[t] # "ACTIVE"
    BY <1>3, <2>2 DEF Consistent
  <2>5. Consistent(r)
    BY <2>2, <2>3, <2>4 DEF Consistent, SameThreads
  <2>6. QED
    BY <2>1, <2>2, <2>3, <2>4, <2>5, ScheduleSettles DEF SameThreads, Idle
<1>4. CASE ~ Asleep(s) /\ s.current # TOS
  <2> DEFINE r == Enqueued(With(s, s.current, "READY"), s.current)
  <2>1. Interrupt(s) = Schedule(r)
    BY <1>4 DEF Interrupt
  <2>2. /\ Consistent(r) /\ SameThreads(s, r) /\ ~ Idle(r)
        /\ \A t \in Ids : r.state[t] # "ACTIVE"
        /\ r.state[TOS] = s.state[TOS]
    BY <1>4, PreemptedIs
  <2>3. s.state[TOS] = "READY"
    BY <1>4 DEF TosActive
  <2> HIDE DEF r
  <2>4. QED
    BY <2>1, <2>2, <2>3, ScheduleSettles DEF SameThreads
<1>5. QED
  BY <1>2, <1>3, <1>4

LEMMA StartSettles ==
    ASSUME NEW s, Settled(s), ~ Asleep(s), NEW t \in InactiveOnes(s)
    PROVE  /\ Settled(Start(s, t))
           /\ SuspendedOnes(Start(s, t)) = SuspendedOnes(s)
           /\ InactiveOnes(Start(s, t)) = InactiveOnes(s) \ {t}
           /\ TosActive(s) => TosActive(Start(s, t))
<1> DEFINE s1 == [s EXCEPT !.num_runnable_threads = @ + 1]
           s2 == With(s1, t, "READY")
           r == Enqueued(s2, t)
<1>1. /\ s \in Schedulers /\ s.current \in Ids /\ t \in Threads /\ t \in Ids
      /\ s.ready \in Seq(Threads) /\ TOS \in Ids /\ TOS \notin Threads /\ t # TOS
      /\ "READY" \in States /\ s.num_runnable_threads \in Nat /\ s.state[t] = "INACTIVE"
  BY IdsAreNumbers DEF Settled, Consistent, Schedulers, Ids, States, InactiveOnes
<1>2. /\ s1 \in Schedulers /\ s1.current = s.current /\ s1.state = s.state
      /\ s1.ready = s.ready /\ s1.num_runnable_threads = s.num_runnable_threads + 1
  BY <1>1 DEF Schedulers
<1>3. Start(s, t) = r
  BY DEF Start
<1> HIDE DEF s1, s2
<1>4. /\ s2 \in Schedulers /\ s2.current = s.current /\ s2.ready = s.ready
      /\ s2.num_runnable_threads = s.num_runnable_threads + 1
      /\ s2.state[t] = "READY" /\ \A u \in Ids : u # t => s2.state[u] = s.state[u]
  BY <1>1, <1>2, WithIs DEF s2
<1>5. Append(s.ready, t) \in Seq(Threads)
  BY <1>1
<1>6. /\ r \in Schedulers /\ r.ready = Append(s.ready, t) /\ r.state = s2.state
      /\ r.current = s.current /\ r.num_runnable_threads = s.num_runnable_threads + 1
  BY <1>4, <1>5 DEF Enqueued, Schedulers
<1> HIDE DEF r
<1>7. /\ t \notin ReadyOnes(s) /\ ReadyOnes(r) = ReadyOnes(s) \cup {t}
      /\ SuspendedOnes(r) = SuspendedOnes(s)
      /\ InactiveOnes(r) = InactiveOnes(s) \ {t}
  BY <1>1, <1>4, <1>6 DEF ReadyOnes, SuspendedOnes, InactiveOnes, Ids
<1>8. Line(r.ready, ReadyOnes(r))
  <2>1. Line(s.ready, ReadyOnes(s))
    BY DEF Settled, Consistent
  <2>2. QED
    BY <1>6, <1>7, <2>1, LineAppend
<1>9. r.num_runnable_threads = Cardinality(Threads \ InactiveOnes(r))
  <2> DEFINE A == Threads \ InactiveOnes(s)
  <2>1. Threads \ InactiveOnes(r) = A \cup {t}
    BY <1>1, <1>7
  <2>2. t \notin A /\ IsFiniteSet(A)
    BY IdsAreNumbers, FS_Subset
  <2>3. s.num_runnable_threads = Cardinality(A)
    BY DEF Settled, Consistent
  <2> HIDE DEF A
  <2>4. Cardinality(A \cup {t}) = Cardinality(A) + 1
    BY <2>2, FS_AddElement
  <2>5. QED
    BY <1>6, <2>1, <2>3, <2>4
<1>10. /\ s.state[s.current] = "ACTIVE" /\ s.current # t
       /\ r.state[s.current] = "ACTIVE" /\ r.state[TOS] = s.state[TOS]
  BY <1>1, <1>4, <1>6 DEF Asleep
<1>11. \A u \in Ids : r.state[u] = "ACTIVE" => u = r.current
  BY <1>1, <1>4, <1>6 DEF Settled, Consistent
<1>12. Consistent(r)
  BY <1>6, <1>8, <1>9, <1>10, <1>11 DEF Settled, Consistent
<1>13. QED
  BY <1>3, <1>6, <1>7, <1>10, <1>12 DEF Settled, Asleep, TosActive

\* A thread that is not in the ready queue becomes inactive.
LEMMA RemovedIs ==
    ASSUME NEW s, Consistent(s), NEW t \in Threads, t \notin InactiveOnes(s),
           NEW s0 \in Schedulers, s0.state = s.state, s0.current = s.current,
           s0.num_runnable_threads = s.num_runnable_threads,
           Line(s0.ready, ReadyOnes(s) \ {t})
    PROVE  LET r == With([s0 EXCEPT !.num_runnable_threads = @ - 1], t, "INACTIVE")
           IN  /\ Consistent(r) /\ r.current = s.current
               /\ SuspendedOnes(r) = SuspendedOnes(s) \ {t}
               /\ InactiveOnes(r) = InactiveOnes(s) \cup {t}
               /\ r.state[t] = "INACTIVE" /\ \A u \in Ids : u # t => r.state[u] = s.state[u]
<1> DEFINE s1 == [s0 EXCEPT !.num_runnable_threads = @ - 1]
           r == With(s1, t, "INACTIVE")
           A == Threads \ InactiveOnes(s)
<1>1. /\ s \in Schedulers /\ t \in Ids /\ TOS \in Ids /\ TOS \notin Threads /\ t # TOS
      /\ "INACTIVE" \in States
  BY IdsAreNumbers DEF Consistent, Ids, States
<1>2. IsFiniteSet(A) /\ t \in A /\ s.num_runnable_threads = Cardinality(A)
  BY IdsAreNumbers, FS_Subset DEF Consistent
<1> HIDE DEF A
<1>3. Cardinality(A \ {t}) = Cardinality(A) - 1 /\ Cardinality(A) - 1 \in Nat
  <2>1. Cardinality(A \ {t}) = Cardinality(A) - 1 /\ IsFiniteSet(A \ {t})
    BY <1>2, FS_RemoveElement
  <2>2. Cardinality(A \ {t}) \in Nat
    BY <2>1, FS_CardinalityType
  <2>3. QED
    BY <2>1, <2>2
<1>4. /\ s1 \in Schedulers /\ s1.current = s.current /\ s1.state = s.state
      /\ s1.ready = s0.ready /\ s1.num_runnable_threads = Cardinality(A) - 1
  BY <1>2, <1>3 DEF Schedulers
<1> HIDE DEF s1
<1>5. /\ r \in Schedulers /\ r.current = s.current /\ r.ready = s0.ready
      /\ r.num_runnable_threads = Cardinality(A) - 1
      /\ r.state[t] = "INACTIVE" /\ \A u \in Ids : u # t => r.state[u] = s.state[u]
  BY <1>1, <1>4, WithIs
<1> HIDE DEF r
<1>6. /\ ReadyOnes(r) = ReadyOnes(s) \ {t}
      /\ SuspendedOnes(r) = SuspendedOnes(s) \ {t}
      /\ InactiveOnes(r) = InactiveOnes(s) \cup {t}
  BY <1>1, <1>5 DEF ReadyOnes, SuspendedOnes, InactiveOnes, Ids
<1>7. Threads \ InactiveOnes(r) = A \ {t}
  BY <1>6 DEF A
<1>8. \A u \in Ids : r.state[u] = "ACTIVE" => u = r.current
  BY <1>1, <1>5 DEF Consistent
<1>9. r.state[TOS] # "INACTIVE"
  BY <1>1, <1>5 DEF Consistent
<1>10. Consistent(r)
  BY <1>3, <1>5, <1>6, <1>7, <1>8, <1>9 DEF Consistent
<1>11. QED
  BY <1>5, <1>6, <1>10 DEF r, s1

\* The threads that joined it are woken up.
LEMMA JoinedAreWoken ==
    ASSUME NEW s, Consistent(s), NEW joined \in SUBSET Threads
    PROVE  LET q == InOrder(joined, [u \in joined |-> u])
           IN  q \in Seq(Ids) /\ Range(q) = joined
<1> DEFINE q == InOrder(joined, [u \in joined |-> u])
<1>1. Line(q, joined)
  BY JoinedIs
<1> HIDE DEF q
<1>2. q \in Seq(joined) /\ Range(q) = joined
  BY <1>1 DEF Line
<1>3. q \in Seq(Ids)
  BY <1>2 DEF Ids
<1>4. QED
  BY <1>2, <1>3 DEF q

LEMMA EndSettles ==
    ASSUME NEW s, Settled(s), ~ Asleep(s), s.current \in Threads,
           NEW joined \in SUBSET Threads
    PROVE  /\ Settled(End(s, joined))
           /\ SuspendedOnes(End(s, joined)) = SuspendedOnes(s) \ joined
           /\ InactiveOnes(End(s, joined)) = InactiveOnes(s) \cup {s.current}
<1> DEFINE t == s.current
           s1 == With([s EXCEPT !.num_runnable_threads = @ - 1], t, "INACTIVE")
           q == InOrder(joined, [u \in joined |-> u])
           r == WakeUpAll(s1, q)
<1>1. Consistent(s) /\ s \in Schedulers /\ t \in Threads /\ t \in Ids /\ s.state[t] = "ACTIVE"
  BY DEF Settled, Consistent, Asleep, Ids
<1>2. /\ t \notin InactiveOnes(s) /\ ReadyOnes(s) \ {t} = ReadyOnes(s)
      /\ SuspendedOnes(s) \ {t} = SuspendedOnes(s)
  BY <1>1 DEF InactiveOnes, ReadyOnes, SuspendedOnes
<1>3. Line(s.ready, ReadyOnes(s) \ {t})
  BY <1>1, <1>2 DEF Consistent
<1>4. End(s, joined) = SleepOrSchedule(r)
  BY DEF End, Stop
<1>5. q \in Seq(Ids) /\ Range(q) = joined
  BY <1>1, JoinedAreWoken
<1> HIDE DEF s1, r, q, t
<1>6. /\ Consistent(s1) /\ s1.current = s.current
      /\ SuspendedOnes(s1) = SuspendedOnes(s) /\ InactiveOnes(s1) = InactiveOnes(s) \cup {t}
      /\ s1.state[t] = "INACTIVE"
  BY <1>1, <1>2, <1>3, RemovedIs DEF s1
<1>7. \A u \in Ids : s1.state[u] # "ACTIVE"
  BY <1>6 DEF Consistent, t
<1>8. /\ Consistent(r) /\ \A u \in Ids : r.state[u] =
            IF u \in Range(q) /\ s1.state[u] = "SUSPENDED" THEN "READY" ELSE s1.state[u]
      /\ SuspendedOnes(r) = SuspendedOnes(s1) \ Range(q)
      /\ InactiveOnes(r) = InactiveOnes(s1)
  BY <1>5, <1>6, WakeUpAllWakes DEF r
<1>9. \A u \in Ids : r.state[u] # "ACTIVE"
  BY <1>7, <1>8
<1>10. QED
  BY <1>4, <1>5, <1>6, <1>8, <1>9, SleepOrScheduleSettles DEF SameThreads, t

LEMMA StopReadySettles ==
    ASSUME NEW s, Settled(s), ~ Asleep(s), NEW t \in ReadyOnes(s),
           NEW joined \in SUBSET Threads
    PROVE  /\ Settled(StopReady(s, t, joined))
           /\ SuspendedOnes(StopReady(s, t, joined)) = SuspendedOnes(s) \ joined
           /\ InactiveOnes(StopReady(s, t, joined)) = InactiveOnes(s) \cup {t}
           /\ TosActive(s) => TosActive(StopReady(s, t, joined))
<1> DEFINE p == Picked(s.ready, Threads \ {t})
           s0 == [s EXCEPT !.ready = p]
           s1 == With([s0 EXCEPT !.num_runnable_threads = @ - 1], t, "INACTIVE")
           q == InOrder(joined, [u \in joined |-> u])
           r == WakeUpAll(s1, q)
<1>1. /\ Consistent(s) /\ s \in Schedulers /\ t \in Threads /\ t \in Ids
      /\ s.state[t] = "READY" /\ s.ready \in Seq(Threads) /\ s.current \in Ids
      /\ TOS \in Ids /\ TOS \notin Threads
  BY IdsAreNumbers DEF Settled, Consistent, Schedulers, ReadyOnes, Ids
<1>2. t \notin InactiveOnes(s) /\ SuspendedOnes(s) \ {t} = SuspendedOnes(s)
  BY <1>1 DEF InactiveOnes, SuspendedOnes
<1>3. Line(p, ReadyOnes(s) \ {t})
  <2>1. Range(s.ready) = ReadyOnes(s)
    BY <1>1 DEF Consistent, Line
  <2>2. Line(p, (Threads \ {t}) \cap Range(s.ready))
    BY <1>1, PickedIs
  <2>3. (Threads \ {t}) \cap Range(s.ready) = ReadyOnes(s) \ {t}
    BY <2>1 DEF ReadyOnes
  <2> HIDE DEF p
  <2>4. QED
    BY <2>2, <2>3
<1>4. p \in Seq(Threads)
  <2>1. ReadyOnes(s) \ {t} \subseteq Threads
    BY DEF ReadyOnes
  <2>2. p \in Seq(ReadyOnes(s) \ {t})
    BY <1>3 DEF Line
  <2> HIDE DEF p
  <2>3. QED
    BY <2>1, <2>2
<1>5. StopReady(s, t, joined) = r
  BY DEF StopReady, Stop
<1>6. q \in Seq(Ids) /\ Range(q) = joined
  BY <1>1, JoinedAreWoken
<1> HIDE DEF p, s1, r, q
<1>7. /\ s0 \in Schedulers /\ s0.state = s.state /\ s0.current = s.current
      /\ s0.num_runnable_threads = s.num_runnable_threads /\ s0.ready = p
  BY <1>1, <1>4 DEF Schedulers
<1> HIDE DEF s0
<1>8. /\ Consistent(s1) /\ s1.current = s.current
      /\ SuspendedOnes(s1) = SuspendedOnes(s) /\ InactiveOnes(s1) = InactiveOnes(s) \cup {t}
      /\ s1.state[t] = "INACTIVE" /\ \A u \in Ids : u # t => s1.state[u] = s.state[u]
  BY <1>1, <1>2, <1>3, <1>7, RemovedIs DEF s1
<1>9. /\ Consistent(r) /\ r.current = s1.current /\ \A u \in Ids : r.state[u] =
            IF u \in Range(q) /\ s1.state[u] = "SUSPENDED" THEN "READY" ELSE s1.state[u]
      /\ SuspendedOnes(r) = SuspendedOnes(s1) \ Range(q)
      /\ InactiveOnes(r) = InactiveOnes(s1)
  BY <1>6, <1>8, WakeUpAllWakes DEF r
<1>10. s.state[s.current] = "ACTIVE" /\ s.current # t /\ r.state[s.current] = "ACTIVE"
  BY <1>1, <1>8, <1>9 DEF Asleep
<1>11. r.state[TOS] = s.state[TOS]
  <2>1. TOS \notin Range(q) /\ t # TOS
    BY <1>1, <1>6
  <2>2. QED
    BY <1>1, <1>8, <1>9, <2>1
<1>12. QED
  BY <1>5, <1>6, <1>8, <1>9, <1>10, <1>11 DEF Settled, Asleep, TosActive

-----------------------------------------------------------------------------
(* The posted tasks: none of them twice.                                   *)

TaskQueueOK(q) == q \in Seq(Tasks) /\ IsInjective(q)

LEMMA AppendTask ==
    ASSUME NEW q, TaskQueueOK(q), NEW task \in Tasks, ~ Contains(q, task)
    PROVE  /\ TaskQueueOK(Append(q, task))
           /\ \A u : Contains(Append(q, task), u) <=> Contains(q, u) \/ u = task
<1>1. q \in Seq(Tasks) /\ Line(q, Range(q))
  BY LineOfSequence DEF TaskQueueOK
<1> HIDE DEF Tasks
<1>2. task \notin Range(q)
  BY <1>1, LineHas
<1>3. Line(Append(q, task), Range(q) \cup {task})
  BY <1>1, <1>2, LineAppend
<1>4. Append(q, task) \in Seq(Tasks)
  BY <1>1
<1>5. \A u : Contains(Append(q, task), u) <=> u \in Range(q) \cup {task}
  BY <1>3, LineHas
<1>6. \A u : Contains(q, u) <=> u \in Range(q)
  BY <1>1, LineHas
<1>7. QED
  BY <1>3, <1>4, <1>5, <1>6 DEF TaskQueueOK, Line

LEMMA TailTask ==
    ASSUME NEW q, TaskQueueOK(q), q # << >>
    PROVE  /\ TaskQueueOK(Tail(q))
           /\ \A u : Contains(Tail(q), u) <=> Contains(q, u) /\ u # Head(q)
<1>1. q \in Seq(Tasks) /\ Line(q, Range(q))
  BY LineOfSequence DEF TaskQueueOK
<1> HIDE DEF Tasks
<1>2. Line(Tail(q), Range(q) \ {Head(q)})
  BY <1>1, LineTail
<1>3. Tail(q) \in Seq(Tasks)
  BY <1>1
<1>4. \A u : Contains(Tail(q), u) <=> u \in Range(q) \ {Head(q)}
  BY <1>2, LineHas
<1>5. \A u : Contains(q, u) <=> u \in Range(q)
  BY <1>1, LineHas
<1>6. QED
  BY <1>2, <1>3, <1>4, <1>5 DEF TaskQueueOK, Line

LEMMA PostTaskIs ==
    ASSUME TaskQueueOK(tasks), NEW task \in Tasks, PostTask(task)
    PROVE  /\ TaskQueueOK(tasks')
           /\ \A u : Contains(tasks', u) <=> Contains(tasks, u) \/ u = task
<1>1. CASE ~ Contains(tasks, task)
  <2>1. tasks' = Append(tasks, task)
    BY <1>1 DEF PostTask, Scheduler!LineUp, Scheduler!IsQueued, Contains
  <2>2. QED
    BY <1>1, <2>1, AppendTask
<1>2. CASE Contains(tasks, task)
  <2>1. tasks' = tasks
    BY <1>2 DEF PostTask, Scheduler!LineUp, Scheduler!IsQueued, Contains
  <2>2. QED
    BY <1>2, <2>1
<1>3. QED
  BY <1>1, <1>2

-----------------------------------------------------------------------------
(***************************************************************************)
(* The invariant.                                                          *)
(***************************************************************************)
PcValues == {"user", "locking", "waiting", "blocked", "joining", "calling"}

Typed ==
    /\ alarm \in BOOLEAN /\ hardware \in BOOLEAN
    /\ TaskQueueOK(tasks)
    /\ current_call \in Threads \cup {Nobody} /\ started \subseteq Threads
    /\ joinedOnMe \in [Threads -> SUBSET Threads]
    /\ mutex \in [lock : BOOLEAN, queue : ThreadSeqs]
    /\ mutex_count \in [Threads -> 0..CountModulus - 1]
    /\ condvar \in ThreadSeqs
    /\ barrier \in [count : 1..BarrierSize, queue : ThreadSeqs]
    /\ pc \in [Threads -> PcValues]
    /\ inside \subseteq Threads

\* Those of S that are to go on at a.
Where(S, p, a) == {t \in S : p[t] = a}

At(a) == Where(SuspendedOnes(sched), pc, a)

\* Each suspended thread is in one queue, that of the call it made.
Lines ==
    /\ Line(mutex.queue, At("locking"))
    /\ Line(condvar, At("waiting"))
    /\ Line(barrier.queue, At("blocked"))
    /\ At("user") = {}

\* Or it joined one thread, which has not ended.
Joins ==
    /\ \A t \in Threads : t \in At("joining") <=> \E u \in Threads : t \in joinedOnMe[u]
    /\ \A t, u, v \in Threads : t \in joinedOnMe[u] /\ t \in joinedOnMe[v] => u = v
    /\ \A u \in InactiveOnes(sched) : joinedOnMe[u] = {}

\* Or it made a system call, which TinyOS is to perform or has begun.
Performed(q, call) == IF Contains(q, "threadTask") THEN {call} ELSE {}

Calling ==
    /\ started \cup Performed(tasks, current_call) = At("calling")
    /\ started \cap Performed(tasks, current_call) = {}
    /\ Contains(tasks, "threadTask") => TosActive(sched)

\* The threads that have been handed the mutex, and did not run since.
Handed(S, p) == Where(Threads \ S, p, "locking")

Holding ==
    /\ inside \cap Handed(SuspendedOnes(sched), pc) = {}
    /\ \A t \in inside : pc[t] \notin {"locking", "waiting"}
    /\ mutex.lock => \E h \in Threads : inside \cup Handed(SuspendedOnes(sched), pc) = {h}
    /\ ~ mutex.lock => /\ inside \cup Handed(SuspendedOnes(sched), pc) = {}
                       /\ mutex.queue = << >>

\* What a thread that may be stopped has, and what one that ended has left.
Rules ==
    /\ \A t \in InactiveOnes(sched) : pc[t] = "user" /\ t \notin inside
    /\ \A t \in Stoppable : /\ pc[t] \notin {"locking", "waiting"}
                            /\ mutex_count[t] = IF t \in inside THEN 1 ELSE 0

IInv == Typed /\ Settled(sched) /\ Lines /\ Joins /\ Calling /\ Holding /\ Rules

LEMMA InitIInv == Init => IInv
<1> SUFFICES ASSUME Init PROVE IInv
  OBVIOUS
<1>1. /\ Booted.current = TOS /\ Booted.ready = << >> /\ Booted.num_runnable_threads = 0
      /\ Booted.state \in [Ids -> States] /\ Booted.state[TOS] = "ACTIVE"
      /\ \A t \in Threads : Booted.state[t] = "INACTIVE"
  BY IdsAreNumbers DEF Booted, Ids, States
<1>2. Booted \in Schedulers
  BY <1>1 DEF Schedulers, Booted, Ids
<1>3. \A T : Line(<< >>, {}) /\ << >> \in Seq(T)
  BY DEF Line, Range, IsInjective
<1>4. /\ ReadyOnes(Booted) = {} /\ SuspendedOnes(Booted) = {}
      /\ InactiveOnes(Booted) = Threads /\ Cardinality(Threads \ Threads) = 0
  BY <1>1, FS_EmptySet DEF ReadyOnes, SuspendedOnes, InactiveOnes
<1>5. \A t \in Ids : Booted.state[t] = "ACTIVE" => t = TOS
  BY <1>1 DEF Ids
<1>6. Settled(sched)
  BY <1>1, <1>2, <1>3, <1>4, <1>5 DEF Init, Settled, Consistent, Asleep
<1>7. Typed
  <2>1. TaskQueueOK(<< >>)
    BY DEF TaskQueueOK, IsInjective
  <2>2. 0 \in 0..CountModulus - 1 /\ BarrierSize \in 1..BarrierSize
    BY CountAssumption, BarrierAssumption
  <2>3. QED
    BY <1>3, <2>1, <2>2 DEF Init, Typed, PcValues, ThreadSeqs
<1>8. \A a : At(a) = {}
  BY <1>4 DEF Init, At, Where
<1>9. Lines /\ Joins
  BY <1>3, <1>4, <1>8 DEF Init, Lines, Joins
<1>10. Calling
  BY <1>8 DEF Init, Calling, Performed, Contains
<1>11. Holding
  BY DEF Init, Holding, Handed, Where
<1>12. Rules
  BY StoppableAssumption DEF Init, Rules, InactiveOnes
<1>13. QED
  BY <1>6, <1>7, <1>9, <1>10, <1>11, <1>12 DEF IInv

LEMMA TosRunsIs == TosRuns <=> TosActive(sched)
  BY DEF TosRuns, TosActive, Asleep

-----------------------------------------------------------------------------
(* What a step leaves alone.                                               *)

LEMMA ThreadsUnchanged ==
    ASSUME IInv, SameThreads(sched, sched'), UNCHANGED <<pc, joinedOnMe, syncVars>>
    PROVE  Lines' /\ Joins' /\ Holding' /\ Rules'
<1>1. /\ SuspendedOnes(sched') = SuspendedOnes(sched)
      /\ InactiveOnes(sched') = InactiveOnes(sched)
      /\ pc' = pc /\ joinedOnMe' = joinedOnMe /\ mutex' = mutex /\ mutex_count' = mutex_count
      /\ condvar' = condvar /\ barrier' = barrier /\ inside' = inside
  BY DEF SameThreads, syncVars
<1>2. Lines' /\ Joins'
  BY <1>1 DEF IInv, Lines, Joins, At
<1>3. Holding' /\ Rules'
  BY <1>1 DEF IInv, Holding, Rules
<1>4. QED
  BY <1>2, <1>3

LEMMA CallsUnchanged ==
    ASSUME IInv, At("calling")' = At("calling"), UNCHANGED <<current_call, started>>,
           Contains(tasks', "threadTask") <=> Contains(tasks, "threadTask"),
           Contains(tasks, "threadTask") => TosActive(sched')
    PROVE  Calling'
<1>1. /\ current_call' = current_call /\ started' = started
      /\ Performed(tasks', current_call') = Performed(tasks, current_call)
  BY DEF Performed
<1>2. QED
  BY <1>1 DEF IInv, Calling

LEMMA StutterKeepsIInv == IInv /\ UNCHANGED vars => IInv'
<1> SUFFICES ASSUME IInv, UNCHANGED vars PROVE IInv'
  OBVIOUS
<1>1. SameThreads(sched, sched') /\ UNCHANGED <<pc, joinedOnMe, syncVars>>
  BY DEF vars, callVars, SameThreads
<1>2. Lines' /\ Joins' /\ Holding' /\ Rules'
  BY <1>1, ThreadsUnchanged
<1>3. Typed' /\ Settled(sched') /\ Calling'
  BY DEF IInv, Typed, Calling, At, vars, callVars, syncVars
<1>4. QED
  BY <1>2, <1>3 DEF IInv

-----------------------------------------------------------------------------
(* TinyOS and the interrupts: no thread is suspended or woken up.          *)

LEMMA SchedulingKeepsIInv ==
    ASSUME IInv, Settled(sched'), SameThreads(sched, sched'),
           Contains(tasks, "threadTask") => TosActive(sched'),
           TaskQueueOK(tasks'), Contains(tasks', "threadTask") <=> Contains(tasks, "threadTask"),
           alarm' \in BOOLEAN, hardware' \in BOOLEAN, UNCHANGED <<callVars, syncVars, pc>>
    PROVE  IInv'
<1>1. Lines' /\ Joins' /\ Holding' /\ Rules'
  BY ThreadsUnchanged DEF callVars
<1>2. At("calling")' = At("calling")
  BY DEF At, SameThreads
<1>3. Calling'
  BY <1>2, CallsUnchanged DEF callVars
<1>4. Typed'
  BY DEF IInv, Typed, callVars, syncVars
<1>5. QED
  BY <1>1, <1>3, <1>4 DEF IInv

LEMMA SameSched ==
    ASSUME IInv, UNCHANGED sched
    PROVE  /\ Settled(sched') /\ SameThreads(sched, sched')
           /\ Contains(tasks, "threadTask") => TosActive(sched')
  BY DEF IInv, SameThreads, Calling

LEMMA PostAmbleSettles ==
    ASSUME IInv, PostAmble
    PROVE  /\ Settled(sched') /\ SameThreads(sched, sched')
           /\ Contains(tasks, "threadTask") => TosActive(sched')
<1>1. Settled(sched)
  BY DEF IInv
<1>2. CASE tasks' # << >> /\ sched.state[TOS] = "SUSPENDED"
  <2> DEFINE s == WakeUp(sched, TOS)
  <2>1. Consistent(s) /\ SameThreads(sched, s) /\ s.state[TOS] = "READY"
    BY <1>1, <1>2, WakeUpTos
  <2>2. sched' = Interrupt(s)
    BY <1>2 DEF PostAmble
  <2> HIDE DEF s
  <2>3. Settled(sched') /\ SameThreads(s, sched') /\ TosActive(sched')
    BY <2>1, <2>2, InterruptSettles
  <2>4. QED
    BY <2>1, <2>3 DEF SameThreads
<1>3. CASE ~ (tasks' # << >> /\ sched.state[TOS] = "SUSPENDED")
  <2>1. sched' = sched
    BY <1>3 DEF PostAmble
  <2>2. QED
    BY <2>1, SameSched
<1>4. QED
  BY <1>2, <1>3

LEMMA AlarmInterruptKeepsIInv == IInv /\ AlarmInterrupt => IInv'
<1> SUFFICES ASSUME IInv, AlarmInterrupt PROVE IInv'
  OBVIOUS
<1>1. /\ Settled(sched') /\ SameThreads(sched, sched')
      /\ Contains(tasks, "threadTask") => TosActive(sched')
  BY PostAmbleSettles DEF AlarmInterrupt
<1>2. /\ TaskQueueOK(tasks')
      /\ Contains(tasks', "threadTask") <=> Contains(tasks, "threadTask")
  BY PostTaskIs DEF AlarmInterrupt, IInv, Typed, Tasks
<1>3. alarm' \in BOOLEAN /\ hardware' \in BOOLEAN /\ UNCHANGED <<callVars, syncVars, pc>>
  BY DEF AlarmInterrupt, IInv, Typed
<1>4. QED
  BY <1>1, <1>2, <1>3, SchedulingKeepsIInv

LEMMA EventInterruptKeepsIInv == IInv /\ EventInterrupt => IInv'
<1> SUFFICES ASSUME IInv, EventInterrupt PROVE IInv'
  OBVIOUS
<1>1. /\ Settled(sched') /\ SameThreads(sched, sched')
      /\ Contains(tasks, "threadTask") => TosActive(sched')
  BY PostAmbleSettles DEF EventInterrupt
<1>2. /\ TaskQueueOK(tasks')
      /\ Contains(tasks', "threadTask") <=> Contains(tasks, "threadTask")
  BY PostTaskIs DEF EventInterrupt, IInv, Typed, Tasks
<1>3. alarm' \in BOOLEAN /\ hardware' \in BOOLEAN /\ UNCHANGED <<callVars, syncVars, pc>>
  BY DEF EventInterrupt, IInv, Typed
<1>4. QED
  BY <1>1, <1>2, <1>3, SchedulingKeepsIInv

LEMMA OtherInterruptKeepsIInv == IInv /\ OtherInterrupt => IInv'
<1> SUFFICES ASSUME IInv, OtherInterrupt PROVE IInv'
  OBVIOUS
<1>1. /\ Settled(sched') /\ SameThreads(sched, sched')
      /\ Contains(tasks, "threadTask") => TosActive(sched')
  BY PostAmbleSettles DEF OtherInterrupt
<1>2. /\ TaskQueueOK(tasks') /\ tasks' = tasks
      /\ alarm' \in BOOLEAN /\ hardware' \in BOOLEAN /\ UNCHANGED <<callVars, syncVars, pc>>
  BY DEF OtherInterrupt, IInv, Typed
<1>3. QED
  BY <1>1, <1>2, SchedulingKeepsIInv

LEMMA UpdateFromTimerKeepsIInv == IInv /\ UpdateFromTimer => IInv'
<1> SUFFICES ASSUME IInv, UpdateFromTimer PROVE IInv'
  OBVIOUS
<1>1. tasks # << >> /\ Head(tasks) = "updateFromTimer" /\ tasks' = Tail(tasks)
      /\ UNCHANGED <<sched, alarm, callVars, syncVars, pc>> /\ hardware' = alarm
  BY DEF UpdateFromTimer, NextTask
<1>2. /\ TaskQueueOK(tasks')
      /\ Contains(tasks', "threadTask") <=> Contains(tasks, "threadTask")
  BY <1>1, TailTask DEF IInv, Typed
<1>3. alarm' \in BOOLEAN /\ hardware' \in BOOLEAN
  BY <1>1 DEF IInv, Typed
<1>4. QED
  BY <1>1, <1>2, <1>3, SameSched, SchedulingKeepsIInv

LEMMA AlarmFiredKeepsIInv == IInv /\ AlarmFired => IInv'
<1> SUFFICES ASSUME IInv, AlarmFired PROVE IInv'
  OBVIOUS
<1> DEFINE rest == Tail(tasks)
<1>1. /\ tasks # << >> /\ Head(tasks) = "alarmFired" /\ TosRuns
      /\ tasks' = IF Contains(rest, "updateFromTimer") THEN rest
                  ELSE Append(rest, "updateFromTimer")
      /\ UNCHANGED <<alarm, hardware, callVars, syncVars, pc>>
      /\ sched' = IF alarm /\ sched.ready # << >> THEN Interrupt(sched) ELSE sched
  BY DEF AlarmFired, NextTask
<1>2. /\ TaskQueueOK(rest)
      /\ Contains(rest, "threadTask") <=> Contains(tasks, "threadTask")
  BY <1>1, TailTask DEF IInv, Typed
<1> HIDE DEF rest
<1>3. /\ TaskQueueOK(tasks')
      /\ Contains(tasks', "threadTask") <=> Contains(tasks, "threadTask")
  <2>1. CASE Contains(rest, "updateFromTimer")
    BY <1>1, <1>2, <2>1
  <2>2. CASE ~ Contains(rest, "updateFromTimer")
    <3>1. tasks' = Append(rest, "updateFromTimer") /\ "updateFromTimer" \in Tasks
      BY <1>1, <2>2 DEF Tasks
    <3>2. QED
      BY <1>2, <2>2, <3>1, AppendTask
  <2>3. QED
    BY <2>1, <2>2
<1>4. /\ Settled(sched') /\ SameThreads(sched, sched')
      /\ Contains(tasks, "threadTask") => TosActive(sched')
  <2>1. CASE alarm /\ sched.ready # << >>
    <3>1. sched' = Interrupt(sched) /\ Consistent(sched) /\ TosActive(sched)
      BY <1>1, <2>1, TosRunsIs DEF IInv, Settled
    <3>2. QED
      BY <3>1, InterruptSettles
  <2>2. CASE ~ (alarm /\ sched.ready # << >>)
    BY <1>1, <2>2, SameSched
  <2>3. QED
    BY <2>1, <2>2
<1>5. alarm' \in BOOLEAN /\ hardware' \in BOOLEAN
  BY <1>1 DEF IInv, Typed
<1>6. QED
  BY <1>1, <1>3, <1>4, <1>5, SchedulingKeepsIInv

LEMMA TosSuspendsKeepsIInv == IInv /\ TosSuspends => IInv'
<1> SUFFICES ASSUME IInv, TosSuspends PROVE IInv'
  OBVIOUS
<1>1. /\ TosActive(sched) /\ tasks = << >> /\ sched' = Suspend(sched)
      /\ UNCHANGED <<alarm, hardware, tasks, callVars, syncVars, pc>>
  BY TosRunsIs DEF TosSuspends
<1>2. ~ Contains(tasks, "threadTask")
  BY <1>1 DEF Contains
<1>3. Consistent(sched) /\ ~ Asleep(sched) /\ sched.current = TOS
  BY <1>1 DEF IInv, Settled, TosActive, Asleep
<1>4. Settled(sched') /\ SameThreads(sched, sched')
  <2>1. {TOS} \cap Threads = {}
    BY IdsAreNumbers
  <2>2. QED
    BY <1>1, <1>3, <2>1, SuspendSettles DEF SameThreads
<1>5. TaskQueueOK(tasks') /\ alarm' \in BOOLEAN /\ hardware' \in BOOLEAN /\ tasks' = tasks
  BY <1>1 DEF IInv, Typed
<1>6. QED
  BY <1>1, <1>2, <1>4, <1>5, SchedulingKeepsIInv

-----------------------------------------------------------------------------
(* What a thread that runs does to the suspended threads.                  *)

LEMMA Running ==
    ASSUME IInv, NEW t \in Threads, sched.current = t, ~ Asleep(sched)
    PROVE  /\ t \notin SuspendedOnes(sched) /\ t \notin InactiveOnes(sched)
           /\ ~ Contains(tasks, "threadTask")
           /\ Consistent(sched) /\ {sched.current} \cap Threads = {t}
<1>1. sched.state[t] = "ACTIVE" /\ t # TOS
  BY IdsAreNumbers DEF Asleep
<1>2. ~ Contains(tasks, "threadTask")
  BY <1>1 DEF IInv, Calling, TosActive
<1>3. QED
  BY <1>1, <1>2 DEF SuspendedOnes, InactiveOnes, IInv, Settled

\* It calls something that suspends it.
LEMMA HandedBlocks ==
    ASSUME NEW S, NEW p, NEW r, NEW t \in Threads, t \notin S, p[t] # "locking",
           \A u \in Threads : u # t => r[u] = p[u], S \subseteq Threads
    PROVE  Handed(S \cup {t}, r) = Handed(S, p)
  BY DEF Handed, Where

\* It goes on, from one place of its code to another.
LEMMA WhereGoes ==
    ASSUME NEW S, NEW p, NEW r, NEW t \in Threads, t \notin S,
           \A u \in Threads : u # t => r[u] = p[u], S \subseteq Threads, NEW a
    PROVE  Where(S, r, a) = Where(S, p, a)
  BY DEF Where

LEMMA HandedGoes ==
    ASSUME NEW S, NEW p, NEW r, NEW t \in Threads, t \notin S, r[t] # "locking",
           \A u \in Threads : u # t => r[u] = p[u], S \subseteq Threads
    PROVE  Handed(S, r) = Handed(S, p) \ {t}
  BY DEF Handed, Where

\* It wakes up threads that are all in the same queue.
LEMMA WhereWakes ==
    ASSUME NEW S, NEW p, NEW b, NEW woken, woken \subseteq Where(S, p, b), NEW a
    PROVE  Where(S \ woken, p, a) =
               IF a = b THEN Where(S, p, a) \ woken ELSE Where(S, p, a)
  BY DEF Where

LEMMA HandedWakes ==
    ASSUME NEW S, NEW p, NEW b, NEW woken, woken \subseteq Where(S, p, b), S \subseteq Threads
    PROVE  Handed(S \ woken, p) =
               IF b = "locking" THEN Handed(S, p) \cup woken ELSE Handed(S, p)
  BY DEF Handed, Where

LEMMA SuspendedAreThreads ==
    /\ SuspendedOnes(sched) \in SUBSET Threads
    /\ InactiveOnes(sched) \in SUBSET Threads
  BY DEF SuspendedOnes, InactiveOnes

\* It leaves the mutex alone.
LEMMA HoldingUnchanged ==
    ASSUME IInv, Handed(SuspendedOnes(sched'), pc') = Handed(SuspendedOnes(sched), pc),
           \A t \in inside : pc'[t] \notin {"locking", "waiting"},
           UNCHANGED <<mutex, inside>>
    PROVE  Holding'
  BY DEF IInv, Holding

LEMMA JoinsUnchanged ==
    ASSUME IInv, At("joining")' = At("joining"), UNCHANGED joinedOnMe,
           InactiveOnes(sched') \subseteq InactiveOnes(sched)
    PROVE  Joins'
<1>1. \A t \in Threads : t \in At("joining")' <=> \E u \in Threads : t \in joinedOnMe'[u]
  BY DEF IInv, Joins
<1>2. /\ \A t, u, v \in Threads : t \in joinedOnMe'[u] /\ t \in joinedOnMe'[v] => u = v
      /\ \A u \in InactiveOnes(sched') : joinedOnMe'[u] = {}
  BY DEF IInv, Joins
<1>3. QED
  BY <1>1, <1>2 DEF Joins

LEMMA RulesUnchanged ==
    ASSUME IInv, InactiveOnes(sched') = InactiveOnes(sched),
           NEW t \in Threads, t \notin InactiveOnes(sched),
           NEW b \in PcValues, Goes(t, b), t \in Stoppable => b \notin {"locking", "waiting"},
           UNCHANGED <<mutex_count, inside>>
    PROVE  Rules'
<1>1. pc'[t] = b /\ \A u \in Threads : u # t => pc'[u] = pc[u]
  BY DEF Goes, IInv, Typed
<1>2. \A u \in InactiveOnes(sched') : pc'[u] = "user" /\ u \notin inside'
  BY <1>1 DEF IInv, Rules, InactiveOnes
<1>3. \A u \in Stoppable : /\ pc'[u] \notin {"locking", "waiting"}
                           /\ mutex_count'[u] = IF u \in inside' THEN 1 ELSE 0
  BY <1>1, StoppableAssumption DEF IInv, Rules
<1>4. QED
  BY <1>2, <1>3 DEF Rules

\* A thread suspends itself, to go on at b.
LEMMA BlocksAt ==
    ASSUME IInv, NEW t \in Threads, sched.current = t, ~ Asleep(sched), pc[t] # "locking",
           NEW b \in PcValues, Goes(t, b),
           t \in Stoppable \/ t \in inside => b \notin {"locking", "waiting"},
           Settled(sched'), SuspendedOnes(sched') = SuspendedOnes(sched) \cup {t},
           InactiveOnes(sched') = InactiveOnes(sched), UNCHANGED <<mutex_count, inside>>
    PROVE  /\ \A a : At(a)' = IF a = b THEN At(a) \cup {t} ELSE At(a)
           /\ t \notin At(b) /\ pc' \in [Threads -> PcValues] /\ Rules'
           /\ Handed(SuspendedOnes(sched'), pc') = Handed(SuspendedOnes(sched), pc)
           /\ \A u \in inside : pc'[u] \notin {"locking", "waiting"}
<1>1. /\ t \notin SuspendedOnes(sched) /\ t \notin InactiveOnes(sched)
      /\ SuspendedOnes(sched) \in SUBSET Threads
  BY Running, SuspendedAreThreads
<1>2. /\ pc' \in [Threads -> PcValues]
      /\ pc'[t] = b /\ \A u \in Threads : u # t => pc'[u] = pc[u]
  BY DEF IInv, Typed, Goes
<1>3. /\ \A a : Where(SuspendedOnes(sched'), pc', a) =
                   IF a = b THEN At(a) \cup {t} ELSE At(a)
      /\ Handed(SuspendedOnes(sched'), pc') = Handed(SuspendedOnes(sched), pc)
  <2> DEFINE S == SuspendedOnes(sched)
  <2>1. S \in SUBSET Threads /\ t \notin S /\ SuspendedOnes(sched') = S \cup {t}
    BY <1>1
  <2> HIDE DEF S
  <2>2. ASSUME NEW a
        PROVE  Where(S \cup {t}, pc', a) =
                   IF a = b THEN Where(S, pc, a) \cup {t} ELSE Where(S, pc, a)
    BY <1>2, <2>1 DEF Where
  <2>3. Handed(S \cup {t}, pc') = Handed(S, pc)
    BY <1>2, <2>1, HandedBlocks
  <2>4. QED
    BY <2>1, <2>2, <2>3 DEF At, S
<1>4. Rules'
  BY <1>1, RulesUnchanged
<1>5. \A u \in inside : pc'[u] \notin {"locking", "waiting"}
  BY <1>2 DEF IInv, Holding, Typed
<1>6. QED
  BY <1>1, <1>2, <1>3, <1>4, <1>5 DEF At, Where

LEMMA SuspendedByCall ==
    ASSUME IInv, NEW t \in Threads, sched.current = t, ~ Asleep(sched),
           sched' = Suspend(sched)
    PROVE  /\ Settled(sched') /\ SuspendedOnes(sched') = SuspendedOnes(sched) \cup {t}
           /\ InactiveOnes(sched') = InactiveOnes(sched)
  BY Running, SuspendSettles

LEMMA BlockAtBarrierKeepsIInv ==
    ASSUME IInv, NEW t \in Threads, BlockAtBarrier(t)
    PROVE  IInv'
<1>1. /\ sched.current = t /\ ~ Asleep(sched) /\ pc[t] = "user" /\ barrier.count > 1
      /\ barrier' = [count |-> barrier.count - 1, queue |-> Append(barrier.queue, t)]
      /\ sched' = Suspend(sched) /\ Goes(t, "blocked")
      /\ UNCHANGED <<alarm, hardware, tasks, current_call, started, joinedOnMe>>
      /\ UNCHANGED <<mutex, mutex_count, condvar, inside>>
  BY DEF BlockAtBarrier, MayCall, Runs, otherThanBarrier, callVars
<1>2. /\ Settled(sched') /\ SuspendedOnes(sched') = SuspendedOnes(sched) \cup {t}
      /\ InactiveOnes(sched') = InactiveOnes(sched)
  BY <1>1, SuspendedByCall
<1>3. /\ \A a : At(a)' = IF a = "blocked" THEN At(a) \cup {t} ELSE At(a)
      /\ t \notin At("blocked") /\ pc' \in [Threads -> PcValues] /\ Rules'
      /\ Handed(SuspendedOnes(sched'), pc') = Handed(SuspendedOnes(sched), pc)
      /\ \A u \in inside : pc'[u] \notin {"locking", "waiting"}
  BY <1>1, <1>2, BlocksAt DEF PcValues
<1>4. Lines'
  <2>1. Line(barrier'.queue, At("blocked") \cup {t})
    BY <1>1, <1>3, LineAppend DEF IInv, Lines
  <2>2. QED
    BY <1>1, <1>3, <2>1 DEF IInv, Lines
<1>5. Joins' /\ Holding'
  BY <1>1, <1>2, <1>3, JoinsUnchanged, HoldingUnchanged
<1>6. Calling'
  BY <1>1, <1>3, Running, CallsUnchanged
<1>7. Typed'
  <2>1. barrier' \in [count : 1..BarrierSize, queue : ThreadSeqs]
    BY <1>1, BarrierAssumption DEF IInv, Typed, ThreadSeqs
  <2>2. QED
    BY <1>1, <1>3, <2>1 DEF IInv, Typed
<1>8. QED
  BY <1>2, <1>3, <1>4, <1>5, <1>6, <1>7 DEF IInv

LEMMA JoinKeepsIInv ==
    ASSUME IInv, NEW t \in Threads, NEW u \in Threads, Join(t, u)
    PROVE  IInv'
<1>1. /\ sched.current = t /\ ~ Asleep(sched) /\ pc[t] = "user"
      /\ u \notin InactiveOnes(sched)
      /\ joinedOnMe' = [joinedOnMe EXCEPT ![u] = @ \cup {t}]
      /\ sched' = Suspend(sched) /\ Goes(t, "joining")
      /\ UNCHANGED <<alarm, hardware, tasks, current_call, started>>
      /\ UNCHANGED <<mutex, mutex_count, condvar, barrier, inside>>
  BY DEF Join, MayCall, Runs, syncVars, InactiveOnes
<1>2. /\ Settled(sched') /\ SuspendedOnes(sched') = SuspendedOnes(sched) \cup {t}
      /\ InactiveOnes(sched') = InactiveOnes(sched)
  BY <1>1, SuspendedByCall
<1>3. /\ \A a : At(a)' = IF a = "joining" THEN At(a) \cup {t} ELSE At(a)
      /\ t \notin At("joining") /\ pc' \in [Threads -> PcValues] /\ Rules'
      /\ Handed(SuspendedOnes(sched'), pc') = Handed(SuspendedOnes(sched), pc)
      /\ \A v \in inside : pc'[v] \notin {"locking", "waiting"}
  BY <1>1, <1>2, BlocksAt DEF PcValues
<1>4. Lines' /\ Holding'
  BY <1>1, <1>3, HoldingUnchanged DEF IInv, Lines
<1>5. /\ joinedOnMe' \in [Threads -> SUBSET Threads]
      /\ \A v \in Threads : joinedOnMe'[v] =
            IF v = u THEN joinedOnMe[v] \cup {t} ELSE joinedOnMe[v]
  BY <1>1 DEF IInv, Typed
<1>6. Joins'
  <2>1. \A v \in Threads : t \notin joinedOnMe[v]
    BY <1>3 DEF IInv, Joins
  <2>2. ASSUME NEW v \in Threads
        PROVE  v \in At("joining")' <=> \E w \in Threads : v \in joinedOnMe'[w]
    <3>1. v \in At("joining")' <=> v \in At("joining") \/ v = t
      BY <1>3
    <3>2. v \in At("joining") <=> \E w \in Threads : v \in joinedOnMe[w]
      BY DEF IInv, Joins
    <3>3. QED
      BY <1>5, <3>1, <3>2
  <2>3. \A v, w, x \in Threads : v \in joinedOnMe'[w] /\ v \in joinedOnMe'[x] => w = x
    BY <1>5, <2>1 DEF IInv, Joins
  <2>4. \A v \in InactiveOnes(sched') : joinedOnMe'[v] = {}
    BY <1>1, <1>2, <1>5, SuspendedAreThreads DEF IInv, Joins
  <2>5. QED
    BY <2>2, <2>3, <2>4 DEF Joins
<1>7. Calling'
  BY <1>1, <1>3, Running, CallsUnchanged
<1>8. Typed'
  BY <1>1, <1>3, <1>5 DEF IInv, Typed
<1>9. QED
  BY <1>2, <1>3, <1>4, <1>6, <1>7, <1>8 DEF IInv

LEMMA WaitOnEventKeepsIInv ==
    ASSUME IInv, NEW t \in Threads, WaitOnEvent(t)
    PROVE  IInv'
<1>1. /\ sched.current = t /\ ~ Asleep(sched) /\ pc[t] = "user"
      /\ current_call' = t /\ started' = started \cup {t}
      /\ sched' = Suspend(sched) /\ Goes(t, "calling")
      /\ UNCHANGED <<alarm, hardware, tasks, joinedOnMe>>
      /\ UNCHANGED <<mutex, mutex_count, condvar, barrier, inside>>
  BY DEF WaitOnEvent, MayCall, Runs, syncVars
<1>2. /\ Settled(sched') /\ SuspendedOnes(sched') = SuspendedOnes(sched) \cup {t}
      /\ InactiveOnes(sched') = InactiveOnes(sched)
  BY <1>1, SuspendedByCall
<1>3. /\ \A a : At(a)' = IF a = "calling" THEN At(a) \cup {t} ELSE At(a)
      /\ t \notin At("calling") /\ pc' \in [Threads -> PcValues] /\ Rules'
      /\ Handed(SuspendedOnes(sched'), pc') = Handed(SuspendedOnes(sched), pc)
      /\ \A v \in inside : pc'[v] \notin {"locking", "waiting"}
  BY <1>1, <1>2, BlocksAt DEF PcValues
<1>4. Lines'
  BY <1>1, <1>3 DEF IInv, Lines
<1>5. Joins' /\ Holding'
  BY <1>1, <1>2, <1>3, JoinsUnchanged, HoldingUnchanged
<1>6. Calling'
  <2>1. ~ Contains(tasks, "threadTask") /\ ~ Contains(tasks', "threadTask")
    BY <1>1, Running
  <2>2. QED
    BY <1>1, <1>3, <2>1 DEF IInv, Calling, Performed
<1>7. Typed'
  BY <1>1, <1>3 DEF IInv, Typed
<1>8. QED
  BY <1>2, <1>3, <1>4, <1>5, <1>6, <1>7 DEF IInv

LEMMA SystemCallKeepsIInv ==
    ASSUME IInv, NEW t \in Threads, SystemCall(t)
    PROVE  IInv'
<1>1. /\ sched.current = t /\ ~ Asleep(sched) /\ pc[t] = "user"
      /\ current_call' = t /\ PostTask("threadTask")
      /\ sched' = Suspend(WakeUp(sched, TOS)) /\ Goes(t, "calling")
      /\ UNCHANGED <<alarm, hardware, started, joinedOnMe>>
      /\ UNCHANGED <<mutex, mutex_count, condvar, barrier, inside>>
  BY DEF SystemCall, MayCall, Runs, syncVars
<1>2. /\ Settled(sched') /\ SuspendedOnes(sched') = SuspendedOnes(sched) \cup {t}
      /\ InactiveOnes(sched') = InactiveOnes(sched) /\ TosActive(sched')
  <2> DEFINE s == WakeUp(sched, TOS)
  <2>1. Settled(sched) /\ TOS \in Ids /\ sched \in Schedulers /\ t # TOS
    BY IdsAreNumbers DEF IInv, Ids, Settled, Consistent
  <2>2. sched.state[TOS] \in {"INACTIVE", "ACTIVE", "READY", "SUSPENDED"}
    BY <2>1, FourStates
  <2>3. sched.state[TOS] = "SUSPENDED"
    BY <1>1, <2>1, <2>2 DEF Settled, Consistent
  <2>4. /\ Consistent(s) /\ SameThreads(sched, s) /\ s.current = t
        /\ ~ Asleep(s) /\ s.state[TOS] = "READY"
    BY <1>1, <2>1, <2>3, WakeUpTos
  <2> HIDE DEF s
  <2>5. {t} \cap Threads = {t}
    OBVIOUS
  <2>6. QED
    BY <1>1, <2>4, <2>5, SuspendSettles DEF SameThreads, s
<1>3. /\ \A a : At(a)' = IF a = "calling" THEN At(a) \cup {t} ELSE At(a)
      /\ t \notin At("calling") /\ pc' \in [Threads -> PcValues] /\ Rules'
      /\ Handed(SuspendedOnes(sched'), pc') = Handed(SuspendedOnes(sched), pc)
      /\ \A v \in inside : pc'[v] \notin {"locking", "waiting"}
  BY <1>1, <1>2, BlocksAt DEF PcValues
<1>4. Lines'
  BY <1>1, <1>3 DEF IInv, Lines
<1>5. Joins' /\ Holding'
  BY <1>1, <1>2, <1>3, JoinsUnchanged, HoldingUnchanged
<1>6. /\ TaskQueueOK(tasks')
      /\ Contains(tasks', "threadTask")
  BY <1>1, PostTaskIs DEF IInv, Typed, Tasks
<1>7. Calling'
  <2>1. started = At("calling")
    BY <1>1, Running DEF IInv, Calling, Performed
  <2>2. QED
    BY <1>1, <1>2, <1>3, <1>6, <2>1 DEF Calling, Performed
<1>8. Typed'
  BY <1>1, <1>3, <1>6 DEF IInv, Typed
<1>9. QED
  BY <1>2, <1>3, <1>4, <1>5, <1>7, <1>8 DEF IInv

LEMMA RulesSame ==
    ASSUME IInv, InactiveOnes(sched') = InactiveOnes(sched),
           UNCHANGED <<pc, mutex_count, inside>>
    PROVE  Rules'
  BY DEF IInv, Rules

\* A thread wakes up others, all of them suspended at b.
LEMMA WakesAt ==
    ASSUME IInv, NEW b, NEW woken, woken \subseteq At(b), UNCHANGED pc,
           SuspendedOnes(sched') = SuspendedOnes(sched) \ woken
    PROVE  /\ \A a : At(a)' = IF a = b THEN At(a) \ woken ELSE At(a)
           /\ Handed(SuspendedOnes(sched'), pc') =
                  IF b = "locking" THEN Handed(SuspendedOnes(sched), pc) \cup woken
                  ELSE Handed(SuspendedOnes(sched), pc)
<1> DEFINE S == SuspendedOnes(sched)
<1>1. S \subseteq Threads /\ SuspendedOnes(sched') = S \ woken /\ pc' = pc
  BY SuspendedAreThreads
<1>2. woken \subseteq Where(S, pc, b)
  BY DEF At
<1> HIDE DEF S
<1>3. ASSUME NEW a
      PROVE  Where(S \ woken, pc, a) =
                 IF a = b THEN Where(S, pc, a) \ woken ELSE Where(S, pc, a)
  BY <1>2 DEF Where
<1>4. Handed(S \ woken, pc) =
          IF b = "locking" THEN Handed(S, pc) \cup woken ELSE Handed(S, pc)
  BY <1>1, <1>2 DEF Handed, Where
<1>5. QED
  BY <1>1, <1>3, <1>4 DEF At, S

LEMMA SignalNextKeepsIInv ==
    ASSUME IInv, NEW t \in Threads, SignalNext(t)
    PROVE  IInv'
<1> DEFINE h == Head(condvar)
<1>1. /\ sched.current = t /\ ~ Asleep(sched) /\ condvar # << >>
      /\ condvar' = Tail(condvar) /\ sched' = WakeUp(sched, h)
      /\ UNCHANGED <<alarm, hardware, tasks, current_call, started, joinedOnMe>>
      /\ UNCHANGED <<mutex, mutex_count, barrier, inside, pc>>
  BY DEF SignalNext, MayCall, Runs, callVars
<1>2. h \in At("waiting") /\ Line(condvar', At("waiting") \ {h})
  BY <1>1, LineTail DEF IInv, Lines
<1>3. h \in Threads
  BY <1>2, SuspendedAreThreads DEF At, Where
<1> HIDE DEF h
<1>4. /\ Settled(sched') /\ SuspendedOnes(sched') = SuspendedOnes(sched) \ {h}
      /\ InactiveOnes(sched') = InactiveOnes(sched)
  BY <1>1, <1>3, WakeUpSettles DEF IInv
<1>5. /\ \A a : At(a)' = IF a = "waiting" THEN At(a) \ {h} ELSE At(a)
      /\ Handed(SuspendedOnes(sched'), pc') = Handed(SuspendedOnes(sched), pc)
  <2>1. {h} \subseteq At("waiting")
    BY <1>2
  <2>2. QED
    BY <1>1, <1>4, <2>1, WakesAt
<1>6. Lines'
  BY <1>1, <1>2, <1>5 DEF IInv, Lines
<1>7. Joins' /\ Rules'
  BY <1>1, <1>4, <1>5, JoinsUnchanged, RulesSame
<1>8. Holding'
  BY <1>1, <1>5, HoldingUnchanged DEF IInv, Holding
<1>9. Calling'
  BY <1>1, <1>5, Running, CallsUnchanged
<1>10. Typed'
  BY <1>1 DEF IInv, Typed, ThreadSeqs
<1>11. QED
  BY <1>4, <1>6, <1>7, <1>8, <1>9, <1>10 DEF IInv

\* All that are in a queue are woken up.
LEMMA WakesLine ==
    ASSUME IInv, ~ Asleep(sched), NEW b, NEW q \in Seq(Threads), Line(q, At(b)),
           sched' = WakeUpAll(sched, q), UNCHANGED pc
    PROVE  /\ Settled(sched') /\ InactiveOnes(sched') = InactiveOnes(sched)
           /\ \A a : At(a)' = IF a = b THEN {} ELSE At(a)
           /\ b # "locking" => Handed(SuspendedOnes(sched'), pc') = Handed(SuspendedOnes(sched), pc)
<1>1. Range(q) = At(b)
  BY DEF Line
<1>2. /\ Settled(sched') /\ SuspendedOnes(sched') = SuspendedOnes(sched) \ At(b)
      /\ InactiveOnes(sched') = InactiveOnes(sched)
  BY <1>1, WakeUpAllSettles DEF IInv
<1> DEFINE woken == At(b)
<1>3. woken \subseteq At(b) /\ SuspendedOnes(sched') = SuspendedOnes(sched) \ woken
  BY <1>2
<1> HIDE DEF woken
<1>4. /\ \A a : At(a)' = IF a = b THEN At(a) \ woken ELSE At(a)
      /\ b # "locking" => Handed(SuspendedOnes(sched'), pc') = Handed(SuspendedOnes(sched), pc)
  BY <1>3, WakesAt
<1>5. \A a : At(a)' = IF a = b THEN {} ELSE At(a)
  BY <1>4 DEF woken
<1>6. QED
  BY <1>2, <1>4, <1>5

LEMMA SignalAllKeepsIInv ==
    ASSUME IInv, NEW t \in Threads, SignalAll(t)
    PROVE  IInv'
<1>1. /\ sched.current = t /\ ~ Asleep(sched)
      /\ condvar' = << >> /\ sched' = WakeUpAll(sched, condvar)
      /\ UNCHANGED <<alarm, hardware, tasks, current_call, started, joinedOnMe>>
      /\ UNCHANGED <<mutex, mutex_count, barrier, inside, pc>>
  BY DEF SignalAll, MayCall, Runs, callVars
<1>2. Line(condvar, At("waiting")) /\ condvar \in Seq(Threads)
  BY DEF IInv, Lines, Typed, ThreadSeqs
<1>3. /\ Settled(sched') /\ InactiveOnes(sched') = InactiveOnes(sched)
      /\ \A a : At(a)' = IF a = "waiting" THEN {} ELSE At(a)
      /\ Handed(SuspendedOnes(sched'), pc') = Handed(SuspendedOnes(sched), pc)
  BY <1>1, <1>2, WakesLine
<1>4. Line(condvar', {}) /\ condvar' \in ThreadSeqs
  BY <1>1 DEF Line, Range, IsInjective, ThreadSeqs
<1>5. Lines'
  BY <1>1, <1>3, <1>4 DEF IInv, Lines
<1>6. Joins' /\ Rules'
  BY <1>1, <1>3, JoinsUnchanged, RulesSame
<1>7. Holding'
  BY <1>1, <1>3, HoldingUnchanged DEF IInv, Holding
<1>8. Calling'
  BY <1>1, <1>3, Running, CallsUnchanged
<1>9. Typed'
  BY <1>1, <1>4 DEF IInv, Typed
<1>10. QED
  BY <1>3, <1>5, <1>6, <1>7, <1>8, <1>9 DEF IInv

LEMMA OpenBarrierKeepsIInv ==
    ASSUME IInv, NEW t \in Threads, OpenBarrier(t)
    PROVE  IInv'
<1>1. /\ sched.current = t /\ ~ Asleep(sched)
      /\ barrier' = [barrier EXCEPT !.queue = << >>]
      /\ sched' = WakeUpAll(sched, barrier.queue)
      /\ UNCHANGED <<alarm, hardware, tasks, current_call, started, joinedOnMe>>
      /\ UNCHANGED <<mutex, mutex_count, condvar, inside, pc>>
  BY DEF OpenBarrier, MayCall, Runs, otherThanBarrier, callVars
<1>2. Line(barrier.queue, At("blocked")) /\ barrier.queue \in Seq(Threads)
  BY DEF IInv, Lines, Typed, ThreadSeqs
<1>3. /\ Settled(sched') /\ InactiveOnes(sched') = InactiveOnes(sched)
      /\ \A a : At(a)' = IF a = "blocked" THEN {} ELSE At(a)
      /\ Handed(SuspendedOnes(sched'), pc') = Handed(SuspendedOnes(sched), pc)
  BY <1>1, <1>2, WakesLine
<1>4. Line(barrier'.queue, {}) /\ barrier' \in [count : 1..BarrierSize, queue : ThreadSeqs]
  <2>1. barrier'.queue = << >> /\ barrier' \in [count : 1..BarrierSize, queue : ThreadSeqs]
    <3>1. << >> \in ThreadSeqs /\ barrier \in [count : 1..BarrierSize, queue : ThreadSeqs]
      BY DEF ThreadSeqs, IInv, Typed
    <3>2. QED
      BY <1>1, <3>1
  <2>2. QED
    BY <2>1 DEF Line, Range, IsInjective
<1>5. Lines'
  BY <1>1, <1>3, <1>4 DEF IInv, Lines
<1>6. Joins' /\ Rules'
  BY <1>1, <1>3, JoinsUnchanged, RulesSame
<1>7. Holding'
  BY <1>1, <1>3, HoldingUnchanged DEF IInv, Holding
<1>8. Calling'
  BY <1>1, <1>3, Running, CallsUnchanged
<1>9. Typed'
  BY <1>1, <1>4 DEF IInv, Typed
<1>10. QED
  BY <1>3, <1>5, <1>6, <1>7, <1>8, <1>9 DEF IInv

LEMMA ResetBarrierKeepsIInv ==
    ASSUME IInv, NEW t \in Threads, ResetBarrier(t)
    PROVE  IInv'
<1>1. /\ barrier.queue = << >> /\ barrier' = [count |-> BarrierSize, queue |-> << >>]
      /\ UNCHANGED <<alarm, hardware, tasks, current_call, started, joinedOnMe>>
      /\ UNCHANGED <<mutex, mutex_count, condvar, inside, sched, pc>>
  BY DEF ResetBarrier, otherThanBarrier, callVars
<1>2. barrier'.queue = barrier.queue
  BY <1>1
<1>3. barrier' \in [count : 1..BarrierSize, queue : ThreadSeqs]
  BY <1>1, BarrierAssumption DEF ThreadSeqs
<1>4. Lines' /\ Joins'
  BY <1>1, <1>2 DEF IInv, Lines, Joins, At
<1>5. Calling' /\ Holding' /\ Rules'
  BY <1>1 DEF IInv, Calling, Holding, Rules, At
<1>6. Typed' /\ Settled(sched')
  BY <1>1, <1>3 DEF IInv, Typed
<1>7. QED
  BY <1>4, <1>5, <1>6 DEF IInv

LEMMA EventKeepsIInv ==
    ASSUME IInv, NEW t \in Threads, Event(t)
    PROVE  IInv'
<1>1. /\ TosActive(sched) /\ tasks # << >> /\ Head(tasks) = "event" /\ t \in started
      /\ tasks' = Tail(tasks) /\ started' = started \ {t} /\ sched' = WakeUp(sched, t)
      /\ UNCHANGED <<alarm, hardware, current_call, joinedOnMe, pc>>
      /\ UNCHANGED <<mutex, mutex_count, condvar, barrier, inside>>
  BY TosRunsIs DEF Event, NextTask, syncVars
<1>2. /\ Settled(sched') /\ SuspendedOnes(sched') = SuspendedOnes(sched) \ {t}
      /\ InactiveOnes(sched') = InactiveOnes(sched) /\ TosActive(sched')
  BY <1>1, WakeUpSettles DEF IInv, TosActive, Asleep
<1>3. /\ \A a : At(a)' = IF a = "calling" THEN At(a) \ {t} ELSE At(a)
      /\ Handed(SuspendedOnes(sched'), pc') = Handed(SuspendedOnes(sched), pc)
  <2>1. {t} \subseteq At("calling")
    BY <1>1 DEF IInv, Calling
  <2>2. QED
    BY <1>1, <1>2, <2>1, WakesAt
<1>4. /\ TaskQueueOK(tasks')
      /\ Contains(tasks', "threadTask") <=> Contains(tasks, "threadTask")
  BY <1>1, TailTask DEF IInv, Typed
<1>5. Lines'
  BY <1>1, <1>3 DEF IInv, Lines
<1>6. Joins' /\ Rules'
  BY <1>1, <1>2, <1>3, JoinsUnchanged, RulesSame
<1>7. Holding'
  BY <1>1, <1>3, HoldingUnchanged DEF IInv, Holding
<1>8. Calling'
  <2>1. Performed(tasks', current_call') = Performed(tasks, current_call)
    BY <1>1, <1>4 DEF Performed
  <2>2. t \notin Performed(tasks, current_call)
    BY <1>1 DEF IInv, Calling
  <2>3. QED
    BY <1>1, <1>2, <1>3, <2>1, <2>2 DEF IInv, Calling
<1>9. Typed'
  BY <1>1, <1>4 DEF IInv, Typed
<1>10. QED
  BY <1>2, <1>5, <1>6, <1>7, <1>8, <1>9 DEF IInv

LEMMA ThreadTaskKeepsIInv == IInv /\ ThreadTask => IInv'
<1> SUFFICES ASSUME IInv, ThreadTask PROVE IInv'
  OBVIOUS
<1>1. /\ TosActive(sched) /\ tasks # << >> /\ Head(tasks) = "threadTask"
      /\ tasks' = Tail(tasks) /\ started' = started \cup {current_call}
      /\ UNCHANGED <<sched, alarm, hardware, current_call, joinedOnMe, syncVars, pc>>
  BY TosRunsIs DEF ThreadTask, NextTask
<1>2. TaskQueueOK(tasks') /\ ~ Contains(tasks', "threadTask")
  BY <1>1, TailTask DEF IInv, Typed
<1>3. Contains(tasks, "threadTask")
  <2>1. tasks \in Seq(Tasks) /\ tasks # << >>
    BY <1>1 DEF IInv, Typed, TaskQueueOK
  <2>2. 1 \in 1..Len(tasks) /\ tasks[1] = Head(tasks)
    BY <2>1
  <2>3. QED
    BY <1>1, <2>2 DEF Contains
<1>4. SameThreads(sched, sched')
  BY <1>1 DEF SameThreads
<1>5. Lines' /\ Joins' /\ Holding' /\ Rules'
  BY <1>1, <1>4, ThreadsUnchanged
<1>6. Performed(tasks, current_call) = {current_call} /\ Performed(tasks', current_call') = {}
  BY <1>2, <1>3 DEF Performed
<1>7. At("calling")' = At("calling")
  BY <1>1 DEF At
<1>8. Calling'
  BY <1>1, <1>2, <1>6, <1>7 DEF IInv, Calling
<1>9. current_call \in Threads
  BY <1>6, SuspendedAreThreads DEF IInv, Calling, At, Where
<1>10. Typed' /\ Settled(sched')
  BY <1>1, <1>2, <1>9 DEF IInv, Typed, syncVars
<1>11. QED
  BY <1>5, <1>8, <1>10 DEF IInv

-----------------------------------------------------------------------------
(* Threads that go on, start, end and are stopped.                         *)

\* A thread returns to the code that called.
LEMMA GoesToUser ==
    ASSUME IInv, NEW t \in Threads, sched.current = t, ~ Asleep(sched), Goes(t, "user"),
           UNCHANGED sched
    PROVE  /\ \A a : At(a)' = At(a)
           /\ Handed(SuspendedOnes(sched'), pc') = Handed(SuspendedOnes(sched), pc) \ {t}
           /\ pc' \in [Threads -> PcValues]
           /\ pc'[t] = "user" /\ \A u \in Threads : u # t => pc'[u] = pc[u]
<1> DEFINE S == SuspendedOnes(sched)
<1>1. S \subseteq Threads /\ t \notin S /\ SuspendedOnes(sched') = S
  BY Running, SuspendedAreThreads
<1>2. /\ pc' \in [Threads -> PcValues]
      /\ pc'[t] = "user" /\ \A u \in Threads : u # t => pc'[u] = pc[u]
  BY DEF IInv, Typed, Goes, PcValues
<1> HIDE DEF S
<1>3. ASSUME NEW a
      PROVE  Where(S, pc', a) = Where(S, pc, a)
  BY <1>1, <1>2 DEF Where
<1>4. Handed(S, pc') = Handed(S, pc) \ {t}
  BY <1>1, <1>2, HandedGoes
<1>5. QED
  BY <1>1, <1>2, <1>3, <1>4 DEF At, S

LEMMA ReturnsKeepsIInv ==
    ASSUME IInv, NEW t \in Threads, Returns(t)
    PROVE  IInv'
<1>1. /\ sched.current = t /\ ~ Asleep(sched) /\ pc[t] # "locking" /\ Goes(t, "user")
      /\ UNCHANGED <<sched, alarm, hardware, tasks, current_call, started, joinedOnMe>>
      /\ UNCHANGED <<mutex, mutex_count, condvar, barrier, inside>>
  BY DEF Returns, callVars, syncVars
<1>2. /\ \A a : At(a)' = At(a)
      /\ Handed(SuspendedOnes(sched'), pc') = Handed(SuspendedOnes(sched), pc) \ {t}
      /\ pc' \in [Threads -> PcValues]
      /\ pc'[t] = "user" /\ \A u \in Threads : u # t => pc'[u] = pc[u]
  BY <1>1, GoesToUser
<1>3. Handed(SuspendedOnes(sched), pc) \ {t} = Handed(SuspendedOnes(sched), pc)
  BY <1>1 DEF Handed, Where
<1>4. Lines' /\ Joins'
  BY <1>1, <1>2, JoinsUnchanged DEF IInv, Lines
<1>5. Calling'
  BY <1>1, <1>2, Running, CallsUnchanged
<1>6. Holding'
  <2>1. \A u \in inside : pc'[u] \notin {"locking", "waiting"}
    BY <1>2 DEF IInv, Holding, Typed
  <2>2. QED
    BY <1>1, <1>2, <1>3, <2>1, HoldingUnchanged
<1>7. Rules'
  BY <1>1, Running, RulesUnchanged DEF PcValues
<1>8. Typed' /\ Settled(sched')
  BY <1>1, <1>2 DEF IInv, Typed
<1>9. QED
  BY <1>4, <1>5, <1>6, <1>7, <1>8 DEF IInv

LEMMA StartThreadKeepsIInv ==
    ASSUME IInv, NEW t \in Threads, StartThread(t)
    PROVE  IInv'
<1>1. /\ ~ Asleep(sched) /\ t \in InactiveOnes(sched) /\ sched' = Start(sched, t)
      /\ IF sched'.num_runnable_threads = 2 THEN SetAlarm ELSE UNCHANGED <<alarm, tasks>>
      /\ mutex_count' = [mutex_count EXCEPT ![t] = 0]
      /\ joinedOnMe' = [joinedOnMe EXCEPT ![t] = {}]
      /\ Goes(t, "user")
      /\ UNCHANGED <<hardware, current_call, started, mutex, condvar, barrier, inside>>
  BY DEF StartThread, MayCall, Runs, TosRuns, InactiveOnes
<1>2. /\ Settled(sched') /\ SuspendedOnes(sched') = SuspendedOnes(sched)
      /\ InactiveOnes(sched') = InactiveOnes(sched) \ {t}
      /\ TosActive(sched) => TosActive(sched')
  BY <1>1, StartSettles DEF IInv
<1>3. pc' = pc /\ joinedOnMe' = joinedOnMe
  <2>1. pc[t] = "user" /\ joinedOnMe[t] = {}
    BY <1>1 DEF IInv, Rules, Joins
  <2>2. pc \in [Threads -> PcValues] /\ joinedOnMe \in [Threads -> SUBSET Threads]
    BY DEF IInv, Typed
  <2>3. QED
    BY <1>1, <2>1, <2>2 DEF Goes
<1>4. /\ TaskQueueOK(tasks') /\ alarm' \in BOOLEAN
      /\ Contains(tasks', "threadTask") <=> Contains(tasks, "threadTask")
  <2>1. CASE sched'.num_runnable_threads = 2
    <3>1. alarm' = TRUE /\ PostTask("updateFromTimer") /\ "updateFromTimer" \in Tasks
      BY <1>1, <2>1 DEF SetAlarm, Tasks
    <3>2. TaskQueueOK(tasks)
      BY DEF IInv, Typed
    <3>3. QED
      BY <3>1, <3>2, PostTaskIs
  <2>2. CASE sched'.num_runnable_threads # 2
    BY <1>1, <2>2 DEF IInv, Typed
  <2>3. QED
    BY <2>1, <2>2
<1>5. At("calling")' = At("calling") /\ At("joining")' = At("joining")
  BY <1>2, <1>3 DEF At
<1>6. Lines'
  BY <1>1, <1>2, <1>3 DEF IInv, Lines, At
<1>7. Joins'
  BY <1>2, <1>3, <1>5, JoinsUnchanged
<1>8. Calling'
  BY <1>1, <1>2, <1>4, <1>5, CallsUnchanged DEF IInv, Calling
<1>9. Holding'
  BY <1>1, <1>2, <1>3 DEF IInv, Holding
<1>10. Rules'
  <2>1. t \notin inside
    BY <1>1 DEF IInv, Rules
  <2>2. \A u \in Threads : mutex_count'[u] = IF u = t THEN 0 ELSE mutex_count[u]
    BY <1>1 DEF IInv, Typed
  <2>3. QED
    BY <1>1, <1>2, <1>3, <2>1, <2>2, StoppableAssumption DEF IInv, Rules
<1>11. Typed'
  <2>1. 0 \in 0..CountModulus - 1
    BY CountAssumption
  <2>2. mutex_count' \in [Threads -> 0..CountModulus - 1]
    BY <1>1, <2>1 DEF IInv, Typed
  <2>3. QED
    BY <1>1, <1>3, <1>4, <2>2 DEF IInv, Typed
<1>12. QED
  BY <1>2, <1>6, <1>7, <1>8, <1>9, <1>10, <1>11 DEF IInv

\* A thread that leaves, and those that joined it go on.
LEMMA JoinedGoOn ==
    ASSUME IInv, NEW t \in Threads, t \notin SuspendedOnes(sched),
           SuspendedOnes(sched') = SuspendedOnes(sched) \ joinedOnMe[t],
           InactiveOnes(sched') = InactiveOnes(sched) \cup {t},
           joinedOnMe' = [joinedOnMe EXCEPT ![t] = {}], Goes(t, "user"), pc[t] # "locking"
    PROVE  /\ \A a : a # "joining" => At(a)' = At(a)
           /\ pc' \in [Threads -> PcValues]
           /\ pc'[t] = "user" /\ \A u \in Threads : u # t => pc'[u] = pc[u]
           /\ Handed(SuspendedOnes(sched'), pc') = Handed(SuspendedOnes(sched), pc)
           /\ joinedOnMe' \in [Threads -> SUBSET Threads] /\ Joins'
<1> DEFINE S == SuspendedOnes(sched)
           J == joinedOnMe[t]
<1>1. /\ S \subseteq Threads /\ t \notin S /\ SuspendedOnes(sched') = S \ J
      /\ J \subseteq Threads
  BY SuspendedAreThreads DEF IInv, Typed
<1>2. /\ pc' \in [Threads -> PcValues]
      /\ pc'[t] = "user" /\ \A u \in Threads : u # t => pc'[u] = pc[u]
  BY DEF IInv, Typed, Goes, PcValues
<1>3. \A u \in J : u \in S /\ u # t /\ pc[u] = "joining"
  BY <1>1 DEF IInv, Joins, At, Where
<1>4. /\ joinedOnMe' \in [Threads -> SUBSET Threads]
      /\ \A u \in Threads : joinedOnMe'[u] = IF u = t THEN {} ELSE joinedOnMe[u]
  BY DEF IInv, Typed
<1> HIDE DEF S, J
<1>5. ASSUME NEW a
      PROVE  Where(S \ J, pc', a) = Where(S, pc, a) \ J
  BY <1>1, <1>2, <1>3 DEF Where
<1>6. ASSUME NEW a, a # "joining"
      PROVE  Where(S, pc, a) \ J = Where(S, pc, a)
  BY <1>3, <1>6 DEF Where
<1>7. Handed(S \ J, pc') = Handed(S, pc)
  BY <1>1, <1>2, <1>3 DEF Handed, Where
<1>8. \A a : At(a)' = At(a) \ J
  BY <1>1, <1>5 DEF At, S
<1>9. \A a : a # "joining" => At(a)' = At(a)
  BY <1>6, <1>8 DEF At, S
<1>10. Joins'
  <2>1. ASSUME NEW v \in Threads
        PROVE  v \in At("joining")' <=> \E u \in Threads : v \in joinedOnMe'[u]
    <3>1. v \in At("joining")' <=> v \in At("joining") /\ v \notin joinedOnMe[t]
      BY <1>8 DEF J
    <3>2. v \in At("joining") <=> \E u \in Threads : v \in joinedOnMe[u]
      BY DEF IInv, Joins
    <3>3. \A u, w \in Threads : v \in joinedOnMe[u] /\ v \in joinedOnMe[w] => u = w
      BY DEF IInv, Joins
    <3>4. QED
      BY <1>4, <3>1, <3>2, <3>3
  <2>2. \A v, u, w \in Threads : v \in joinedOnMe'[u] /\ v \in joinedOnMe'[w] => u = w
    BY <1>4 DEF IInv, Joins
  <2>3. \A u \in InactiveOnes(sched') : joinedOnMe'[u] = {}
    BY <1>4, SuspendedAreThreads DEF IInv, Joins
  <2>4. QED
    BY <2>1, <2>2, <2>3 DEF Joins
<1>11. QED
  BY <1>1, <1>2, <1>4, <1>7, <1>9, <1>10 DEF S, J

LEMMA ThreadEndsKeepsIInv ==
    ASSUME IInv, NEW t \in Threads, ThreadEnds(t)
    PROVE  IInv'
<1>1. /\ sched.current = t /\ ~ Asleep(sched) /\ pc[t] = "user" /\ t \notin inside
      /\ sched' = End(sched, joinedOnMe[t])
      /\ alarm' = (alarm /\ sched'.num_runnable_threads # 1)
      /\ joinedOnMe' = [joinedOnMe EXCEPT ![t] = {}]
      /\ UNCHANGED <<hardware, tasks, current_call, started, syncVars, pc>>
  BY DEF ThreadEnds, Runs, AlarmAfterStop
<1>2. t \notin SuspendedOnes(sched)
  BY <1>1, Running
<1>3. joinedOnMe[t] \in SUBSET Threads
  BY DEF IInv, Typed
<1>4. /\ Settled(sched') /\ SuspendedOnes(sched') = SuspendedOnes(sched) \ joinedOnMe[t]
      /\ InactiveOnes(sched') = InactiveOnes(sched) \cup {t}
  BY <1>1, <1>3, EndSettles DEF IInv
<1>5. Goes(t, "user")
  BY <1>1 DEF Goes, IInv, Typed
<1>6. /\ \A a : a # "joining" => At(a)' = At(a)
      /\ Handed(SuspendedOnes(sched'), pc') = Handed(SuspendedOnes(sched), pc)
      /\ joinedOnMe' \in [Threads -> SUBSET Threads] /\ Joins'
  BY <1>1, <1>2, <1>4, <1>5, JoinedGoOn
<1>7. Lines'
  BY <1>1, <1>6 DEF IInv, Lines, syncVars
<1>8. Calling'
  BY <1>1, <1>6, Running, CallsUnchanged
<1>9. Holding'
  BY <1>1, <1>6, HoldingUnchanged DEF IInv, Holding, syncVars
<1>10. Rules'
  BY <1>1, <1>4 DEF IInv, Rules, syncVars
<1>11. Typed'
  BY <1>1, <1>6 DEF IInv, Typed, syncVars
<1>12. QED
  BY <1>4, <1>6, <1>7, <1>8, <1>9, <1>10, <1>11 DEF IInv

LEMMA StopThreadKeepsIInv ==
    ASSUME IInv, NEW t \in Threads, StopThread(t)
    PROVE  IInv'
<1>1. /\ ~ Asleep(sched) /\ t \in Stoppable /\ t \in ReadyOnes(sched) /\ mutex_count[t] = 0
      /\ sched' = StopReady(sched, t, joinedOnMe[t])
      /\ alarm' = (alarm /\ sched'.num_runnable_threads # 1)
      /\ joinedOnMe' = [joinedOnMe EXCEPT ![t] = {}] /\ Goes(t, "user")
      /\ UNCHANGED <<hardware, tasks, current_call, started, syncVars>>
  BY DEF StopThread, MayCall, Runs, TosRuns, ReadyOnes, AlarmAfterStop
<1>2. t \notin SuspendedOnes(sched)
  BY <1>1 DEF ReadyOnes, SuspendedOnes
<1>3. joinedOnMe[t] \in SUBSET Threads
  BY DEF IInv, Typed
<1>4. /\ Settled(sched') /\ SuspendedOnes(sched') = SuspendedOnes(sched) \ joinedOnMe[t]
      /\ InactiveOnes(sched') = InactiveOnes(sched) \cup {t}
      /\ TosActive(sched) => TosActive(sched')
  BY <1>1, <1>3, StopReadySettles DEF IInv
<1>5. pc[t] # "locking" /\ t \notin inside
  BY <1>1 DEF IInv, Rules
<1>6. /\ \A a : a # "joining" => At(a)' = At(a)
      /\ pc' \in [Threads -> PcValues]
      /\ pc'[t] = "user" /\ \A u \in Threads : u # t => pc'[u] = pc[u]
      /\ Handed(SuspendedOnes(sched'), pc') = Handed(SuspendedOnes(sched), pc)
      /\ joinedOnMe' \in [Threads -> SUBSET Threads] /\ Joins'
  BY <1>1, <1>2, <1>4, <1>5, JoinedGoOn
<1>7. Lines'
  BY <1>1, <1>6 DEF IInv, Lines, syncVars
<1>8. Calling'
  BY <1>1, <1>4, <1>6, CallsUnchanged DEF IInv, Calling
<1>9. Holding'
  <2>1. \A u \in inside : pc'[u] \notin {"locking", "waiting"}
    BY <1>6 DEF IInv, Holding, Typed
  <2>2. QED
    BY <1>1, <1>6, <2>1, HoldingUnchanged DEF syncVars
<1>10. Rules'
  <2>1. \A u \in InactiveOnes(sched') : pc'[u] = "user" /\ u \notin inside'
    BY <1>1, <1>4, <1>5, <1>6, SuspendedAreThreads DEF IInv, Rules, syncVars
  <2>2. \A u \in Stoppable : /\ pc'[u] \notin {"locking", "waiting"}
                             /\ mutex_count'[u] = IF u \in inside' THEN 1 ELSE 0
    BY <1>1, <1>6, StoppableAssumption DEF IInv, Rules, syncVars
  <2>3. QED
    BY <2>1, <2>2 DEF Rules
<1>11. Typed'
  BY <1>1, <1>6 DEF IInv, Typed, syncVars
<1>12. QED
  BY <1>4, <1>6, <1>7, <1>8, <1>9, <1>10, <1>11 DEF IInv

-----------------------------------------------------------------------------
(* The mutex.                                                              *)

LEMMA Counts ==
    /\ \A n \in Nat : n % CountModulus \in 0..CountModulus - 1
    /\ (0 + 1) % CountModulus = 1
    /\ (1 + CountModulus - 1) % CountModulus = 0
<1>1. CountModulus \in Nat /\ CountModulus > 1
  BY CountAssumption
<1>2. \A n \in Nat : n % CountModulus \in 0..CountModulus - 1
  BY <1>1
<1>3. (0 + 1) % CountModulus = 1
  BY <1>1
<1>4. (1 + CountModulus - 1) % CountModulus = 0
  <2>1. 1 + CountModulus - 1 = CountModulus
    BY <1>1
  <2>2. CountModulus % CountModulus = 0
    BY <1>1
  <2>3. QED
    BY <2>1, <2>2
<1>5. QED
  BY <1>2, <1>3, <1>4

\* A thread takes the mutex, or waits for it: a call of lock, or the rest of one of wait.
LEMMA LockMutexKeepsIInv ==
    ASSUME IInv, NEW t \in Threads, sched.current = t, ~ Asleep(sched), t \notin inside,
           pc[t] # "locking", t \in Stoppable => ~ mutex.lock,
           LockMutex(t), UNCHANGED otherThanMutex
    PROVE  IInv'
<1>1. /\ UNCHANGED <<alarm, hardware, tasks, current_call, started, joinedOnMe>>
      /\ UNCHANGED <<condvar, barrier>>
  BY DEF otherThanMutex, callVars
<1>2. CASE TakeFreeMutex(t)
  <2>1. /\ ~ mutex.lock /\ mutex' = [mutex EXCEPT !.lock = TRUE]
        /\ mutex_count' = [mutex_count EXCEPT ![t] = (@ + 1) % CountModulus]
        /\ inside' = inside \cup {t} /\ Goes(t, "user") /\ UNCHANGED sched
    BY <1>2 DEF TakeFreeMutex
  <2>2. /\ \A a : At(a)' = At(a)
        /\ Handed(SuspendedOnes(sched'), pc') = Handed(SuspendedOnes(sched), pc) \ {t}
        /\ pc' \in [Threads -> PcValues]
        /\ pc'[t] = "user" /\ \A u \in Threads : u # t => pc'[u] = pc[u]
    BY <2>1, GoesToUser
  <2>3. inside = {} /\ Handed(SuspendedOnes(sched), pc) = {}
    BY <2>1 DEF IInv, Holding
  <2>4. mutex' \in [lock : BOOLEAN, queue : ThreadSeqs] /\ mutex'.lock /\ mutex'.queue = mutex.queue
    BY <2>1 DEF IInv, Typed
  <2>5. /\ mutex_count' \in [Threads -> 0..CountModulus - 1]
        /\ mutex_count'[t] = (mutex_count[t] + 1) % CountModulus
        /\ \A u \in Threads : u # t => mutex_count'[u] = mutex_count[u]
    <3>1. mutex_count \in [Threads -> 0..CountModulus - 1] /\ mutex_count[t] + 1 \in Nat
      BY CountAssumption DEF IInv, Typed
    <3>2. (mutex_count[t] + 1) % CountModulus \in 0..CountModulus - 1
      BY <3>1, Counts
    <3>3. QED
      BY <2>1, <3>1, <3>2
  <2>6. Lines' /\ Joins'
    BY <1>1, <2>1, <2>2, <2>4, JoinsUnchanged DEF IInv, Lines
  <2>7. Calling'
    BY <1>1, <2>2, Running, CallsUnchanged
  <2>8. Holding'
    <3>1. inside' = {t} /\ Handed(SuspendedOnes(sched'), pc') = {}
      BY <2>1, <2>2, <2>3
    <3>2. QED
      BY <2>2, <2>4, <3>1 DEF Holding
  <2>9. Rules'
    <3>1. \A u \in InactiveOnes(sched') : pc'[u] = "user" /\ u \notin inside'
      BY <2>1, <2>2, Running, SuspendedAreThreads DEF IInv, Rules
    <3>2. t \in Stoppable => mutex_count'[t] = 1
      BY <2>5, Counts DEF IInv, Rules
    <3>3. \A u \in Stoppable : /\ pc'[u] \notin {"locking", "waiting"}
                               /\ mutex_count'[u] = IF u \in inside' THEN 1 ELSE 0
      BY <2>1, <2>2, <2>5, <3>2, StoppableAssumption DEF IInv, Rules
    <3>4. QED
      BY <3>1, <3>3 DEF Rules
  <2>10. Typed' /\ Settled(sched')
    BY <1>1, <2>1, <2>2, <2>4, <2>5 DEF IInv, Typed
  <2>11. QED
    BY <2>6, <2>7, <2>8, <2>9, <2>10 DEF IInv
<1>3. CASE WaitForMutex(t)
  <2>1. /\ mutex.lock /\ mutex' = [mutex EXCEPT !.queue = Append(@, t)]
        /\ sched' = Suspend(sched) /\ Goes(t, "locking") /\ UNCHANGED <<mutex_count, inside>>
    BY <1>3 DEF WaitForMutex
  <2>2. /\ Settled(sched') /\ SuspendedOnes(sched') = SuspendedOnes(sched) \cup {t}
        /\ InactiveOnes(sched') = InactiveOnes(sched)
    BY <2>1, SuspendedByCall
  <2>3. /\ \A a : At(a)' = IF a = "locking" THEN At(a) \cup {t} ELSE At(a)
        /\ t \notin At("locking") /\ pc' \in [Threads -> PcValues] /\ Rules'
        /\ Handed(SuspendedOnes(sched'), pc') = Handed(SuspendedOnes(sched), pc)
        /\ \A u \in inside : pc'[u] \notin {"locking", "waiting"}
    BY <2>1, <2>2, BlocksAt DEF PcValues
  <2>4. /\ mutex' \in [lock : BOOLEAN, queue : ThreadSeqs] /\ mutex'.lock
        /\ mutex'.queue = Append(mutex.queue, t)
    <3>1. mutex \in [lock : BOOLEAN, queue : ThreadSeqs]
      BY DEF IInv, Typed
    <3>2. Append(mutex.queue, t) \in ThreadSeqs
      BY <3>1 DEF ThreadSeqs
    <3>3. QED
      BY <2>1, <3>1, <3>2
  <2>5. Lines'
    <3>1. Line(mutex'.queue, At("locking") \cup {t})
      BY <2>3, <2>4, LineAppend DEF IInv, Lines
    <3>2. QED
      BY <1>1, <2>3, <3>1 DEF IInv, Lines
  <2>6. Joins'
    BY <1>1, <2>2, <2>3, JoinsUnchanged
  <2>7. Calling'
    BY <1>1, <2>3, Running, CallsUnchanged
  <2>8. Holding'
    BY <2>1, <2>3, <2>4 DEF IInv, Holding
  <2>9. Typed'
    BY <1>1, <2>1, <2>3, <2>4 DEF IInv, Typed
  <2>10. QED
    BY <2>2, <2>3, <2>5, <2>6, <2>7, <2>8, <2>9 DEF IInv
<1>4. QED
  BY <1>2, <1>3 DEF LockMutex

LEMMA LockKeepsIInv ==
    ASSUME IInv, NEW t \in Threads, Lock(t)
    PROVE  IInv'
<1>1. /\ sched.current = t /\ ~ Asleep(sched) /\ t \notin inside /\ pc[t] # "locking"
      /\ t \in Stoppable => ~ mutex.lock
      /\ LockMutex(t) /\ UNCHANGED otherThanMutex
  BY DEF Lock, MayCall, Runs
<1>2. QED
  BY <1>1, LockMutexKeepsIInv

LEMMA WaitRelocksKeepsIInv ==
    ASSUME IInv, NEW t \in Threads, WaitRelocks(t)
    PROVE  IInv'
<1>1. /\ sched.current = t /\ ~ Asleep(sched) /\ pc[t] = "waiting"
      /\ LockMutex(t) /\ UNCHANGED otherThanMutex
  BY DEF WaitRelocks
<1>2. t \notin inside /\ t \notin Stoppable
  BY <1>1 DEF IInv, Holding, Rules
<1>3. QED
  BY <1>1, <1>2, LockMutexKeepsIInv

LEMMA LockReturnsKeepsIInv ==
    ASSUME IInv, NEW t \in Threads, LockReturns(t)
    PROVE  IInv'
<1>1. /\ sched.current = t /\ ~ Asleep(sched) /\ pc[t] = "locking" /\ Goes(t, "user")
      /\ inside' = inside \cup {t}
      /\ UNCHANGED <<alarm, hardware, tasks, current_call, started, joinedOnMe>>
      /\ UNCHANGED <<condvar, barrier, sched, mutex, mutex_count>>
  BY DEF LockReturns, otherThanMutex, callVars
<1>2. /\ \A a : At(a)' = At(a)
      /\ Handed(SuspendedOnes(sched'), pc') = Handed(SuspendedOnes(sched), pc) \ {t}
      /\ pc' \in [Threads -> PcValues]
      /\ pc'[t] = "user" /\ \A u \in Threads : u # t => pc'[u] = pc[u]
  BY <1>1, GoesToUser
<1>3. t \in Handed(SuspendedOnes(sched), pc) /\ t \notin InactiveOnes(sched)
  BY <1>1, Running DEF Handed, Where
<1>4. mutex.lock /\ inside = {} /\ Handed(SuspendedOnes(sched), pc) = {t}
  BY <1>3 DEF IInv, Holding
<1>5. Lines' /\ Joins'
  BY <1>1, <1>2, JoinsUnchanged DEF IInv, Lines
<1>6. Calling'
  BY <1>1, <1>2, Running, CallsUnchanged
<1>7. Holding'
  <2>1. inside' = {t} /\ Handed(SuspendedOnes(sched'), pc') = {}
    BY <1>1, <1>2, <1>4
  <2>2. QED
    BY <1>1, <1>2, <1>4, <2>1 DEF Holding
<1>8. t \notin Stoppable
  BY <1>1 DEF IInv, Rules
<1>9. Rules'
  BY <1>1, <1>2, <1>3, <1>8, StoppableAssumption, SuspendedAreThreads DEF IInv, Rules
<1>10. Typed' /\ Settled(sched')
  BY <1>1, <1>2 DEF IInv, Typed
<1>11. QED
  BY <1>5, <1>6, <1>7, <1>9, <1>10 DEF IInv

\* The thread the mutex is handed to when it is unlocked, if there is one.
NextHolder == IF mutex.queue = << >> THEN {} ELSE {Head(mutex.queue)}

LEMMA HandedOverIs ==
    ASSUME IInv, ~ Asleep(sched)
    PROVE  /\ Settled(HandedOver(sched)) /\ ~ Asleep(HandedOver(sched))
           /\ HandedOver(sched).current = sched.current
           /\ SuspendedOnes(HandedOver(sched)) = SuspendedOnes(sched) \ NextHolder
           /\ InactiveOnes(HandedOver(sched)) = InactiveOnes(sched)
           /\ NextHolder \subseteq At("locking")
<1>1. CASE mutex.queue = << >>
  <2>1. HandedOver(sched) = sched /\ NextHolder = {}
    BY <1>1 DEF HandedOver, NextHolder
  <2>2. QED
    BY <2>1 DEF IInv
<1>2. CASE mutex.queue # << >>
  <2> DEFINE h == Head(mutex.queue)
  <2>1. HandedOver(sched) = WakeUp(sched, h) /\ NextHolder = {h}
    BY <1>2 DEF HandedOver, NextHolder
  <2>2. h \in At("locking")
    BY <1>2, LineTail DEF IInv, Lines
  <2>3. h \in Threads
    BY <2>2, SuspendedAreThreads DEF At, Where
  <2> HIDE DEF h
  <2>4. QED
    BY <2>1, <2>2, <2>3, WakeUpSettles DEF IInv
<1>3. QED
  BY <1>1, <1>2

\* What unlock does to the mutex, and to the thread that was in it.
LEMMA UnlockMutexIs ==
    ASSUME IInv, NEW t \in inside, UnlockMutex(t)
    PROVE  /\ mutex' \in [lock : BOOLEAN, queue : ThreadSeqs]
           /\ Line(mutex'.queue, At("locking") \ NextHolder)
           /\ mutex_count' \in [Threads -> 0..CountModulus - 1]
           /\ \A u \in Stoppable : mutex_count'[u] = IF u \in inside' THEN 1 ELSE 0
           /\ inside' = {} /\ Handed(SuspendedOnes(sched), pc) = {}
           /\ mutex'.lock => \E h \in Threads : NextHolder = {h}
           /\ ~ mutex'.lock => NextHolder = {} /\ mutex'.queue = << >>
<1>1. /\ mutex \in [lock : BOOLEAN, queue : ThreadSeqs] /\ Line(mutex.queue, At("locking"))
      /\ inside \subseteq Threads /\ mutex_count \in [Threads -> 0..CountModulus - 1]
  BY DEF IInv, Typed, Lines
<1>2. /\ mutex' = UnlockedMutex /\ inside' = inside \ {t}
      /\ mutex_count' =
            [mutex_count EXCEPT ![t] = (mutex_count[t] + CountModulus - 1) % CountModulus]
  BY DEF UnlockMutex
<1>3. mutex.lock /\ inside = {t} /\ Handed(SuspendedOnes(sched), pc) = {}
  BY DEF IInv, Holding
<1>4. /\ mutex_count' \in [Threads -> 0..CountModulus - 1]
      /\ \A u \in Stoppable : mutex_count'[u] = IF u \in inside' THEN 1 ELSE 0
  <2> DEFINE n == (mutex_count[t] + CountModulus - 1) % CountModulus
  <2>1. mutex_count[t] \in Nat /\ CountModulus \in Nat \ {0, 1}
    BY <1>1, CountAssumption
  <2>2. mutex_count[t] + CountModulus - 1 \in Nat
    BY <2>1
  <2>3. n \in 0..CountModulus - 1
    BY <2>2, Counts
  <2>4. t \in Stoppable => n = 0
    <3>1. t \in Stoppable => mutex_count[t] = 1
      BY DEF IInv, Rules
    <3>2. QED
      BY <3>1, Counts
  <2> HIDE DEF n
  <2>5. mutex_count' = [mutex_count EXCEPT ![t] = n]
    BY <1>2 DEF n
  <2>6. \A u \in Stoppable : u # t => mutex_count[u] = 0
    BY <1>3 DEF IInv, Rules
  <2>7. QED
    BY <1>1, <1>2, <1>3, <2>3, <2>4, <2>5, <2>6, StoppableAssumption
<1>5. CASE mutex.queue = << >>
  <2>1. mutex' = [mutex EXCEPT !.lock = FALSE] /\ NextHolder = {}
    BY <1>2, <1>5 DEF UnlockedMutex, NextHolder
  <2>2. /\ mutex' \in [lock : BOOLEAN, queue : ThreadSeqs]
        /\ ~ mutex'.lock /\ mutex'.queue = mutex.queue
    BY <1>1, <2>1
  <2>3. At("locking") \ NextHolder = At("locking")
    BY <2>1
  <2>4. Line(mutex'.queue, At("locking") \ NextHolder)
    BY <1>1, <2>2, <2>3
  <2>5. inside' = {}
    BY <1>2, <1>3
  <2>6. QED
    BY <1>3, <1>4, <1>5, <2>1, <2>2, <2>4, <2>5
<1>6. CASE mutex.queue # << >>
  <2> DEFINE h == Head(mutex.queue)
  <2>1. mutex' = [mutex EXCEPT !.queue = Tail(@)] /\ NextHolder = {h}
    BY <1>2, <1>6 DEF UnlockedMutex, NextHolder
  <2>2. h \in At("locking") /\ Line(Tail(mutex.queue), At("locking") \ {h})
    BY <1>1, <1>6, LineTail
  <2>3. h \in Threads
    BY <2>2, SuspendedAreThreads DEF At, Where
  <2> HIDE DEF h
  <2>4. Tail(mutex.queue) \in ThreadSeqs
    BY <1>1, <1>6 DEF ThreadSeqs
  <2>5. /\ mutex' \in [lock : BOOLEAN, queue : ThreadSeqs]
        /\ mutex'.lock /\ mutex'.queue = Tail(mutex.queue)
    BY <1>1, <1>3, <2>1, <2>4
  <2>6. Line(mutex'.queue, At("locking") \ NextHolder)
    BY <2>1, <2>2, <2>5
  <2>7. inside' = {}
    BY <1>2, <1>3
  <2>8. QED
    BY <1>3, <1>4, <2>1, <2>3, <2>5, <2>6, <2>7
<1>7. QED
  BY <1>5, <1>6

LEMMA UnlockKeepsIInv ==
    ASSUME IInv, NEW t \in Threads, Unlock(t)
    PROVE  IInv'
<1>1. /\ sched.current = t /\ ~ Asleep(sched) /\ t \in inside /\ UnlockMutex(t)
      /\ sched' = HandedOver(sched)
      /\ UNCHANGED <<alarm, hardware, tasks, current_call, started, joinedOnMe>>
      /\ UNCHANGED <<condvar, barrier, pc>>
  BY DEF Unlock, Runs, otherThanMutex, callVars
<1>2. /\ Settled(sched') /\ SuspendedOnes(sched') = SuspendedOnes(sched) \ NextHolder
      /\ InactiveOnes(sched') = InactiveOnes(sched) /\ NextHolder \subseteq At("locking")
  BY <1>1, HandedOverIs
<1>3. /\ mutex' \in [lock : BOOLEAN, queue : ThreadSeqs]
      /\ Line(mutex'.queue, At("locking") \ NextHolder)
      /\ mutex_count' \in [Threads -> 0..CountModulus - 1]
      /\ \A u \in Stoppable : mutex_count'[u] = IF u \in inside' THEN 1 ELSE 0
      /\ inside' = {} /\ Handed(SuspendedOnes(sched), pc) = {}
      /\ mutex'.lock => \E h \in Threads : NextHolder = {h}
      /\ ~ mutex'.lock => NextHolder = {} /\ mutex'.queue = << >>
  BY <1>1, UnlockMutexIs
<1> DEFINE woken == NextHolder
<1>4. /\ woken \subseteq At("locking") /\ SuspendedOnes(sched') = SuspendedOnes(sched) \ woken
      /\ pc' = pc
  BY <1>1, <1>2
<1> HIDE DEF woken
<1>5. /\ \A a : At(a)' = IF a = "locking" THEN At(a) \ woken ELSE At(a)
      /\ Handed(SuspendedOnes(sched'), pc') = Handed(SuspendedOnes(sched), pc) \cup woken
  BY <1>4, WakesAt
<1>6. Lines'
  BY <1>1, <1>3, <1>5 DEF IInv, Lines, woken
<1>7. Joins'
  BY <1>1, <1>2, <1>5, JoinsUnchanged
<1>8. Calling'
  BY <1>1, <1>5, Running, CallsUnchanged
<1>9. Holding'
  <2>1. Handed(SuspendedOnes(sched'), pc') = NextHolder
    BY <1>3, <1>5 DEF woken
  <2>2. QED
    BY <1>3, <2>1 DEF Holding
<1>10. Rules'
  BY <1>1, <1>2, <1>3 DEF IInv, Rules
<1>11. Typed'
  BY <1>1, <1>3 DEF IInv, Typed
<1>12. QED
  BY <1>2, <1>6, <1>7, <1>8, <1>9, <1>10, <1>11 DEF IInv

LEMMA WaitKeepsIInv ==
    ASSUME IInv, NEW t \in Threads, Wait(t)
    PROVE  IInv'
<1> DEFINE s == HandedOver(sched)
<1>1. /\ sched.current = t /\ ~ Asleep(sched) /\ t \in inside /\ t \notin Stoppable
      /\ pc[t] = "user" /\ UnlockMutex(t) /\ condvar' = Append(condvar, t)
      /\ sched' = Suspend(s) /\ Goes(t, "waiting")
      /\ UNCHANGED <<alarm, hardware, tasks, current_call, started, joinedOnMe, barrier>>
  BY DEF Wait, MayCall, Runs, callVars
<1>2. /\ Settled(s) /\ ~ Asleep(s) /\ s.current = t
      /\ SuspendedOnes(s) = SuspendedOnes(sched) \ NextHolder
      /\ InactiveOnes(s) = InactiveOnes(sched) /\ NextHolder \subseteq At("locking")
  BY <1>1, HandedOverIs
<1> HIDE DEF s
<1>3. /\ mutex' \in [lock : BOOLEAN, queue : ThreadSeqs]
      /\ Line(mutex'.queue, At("locking") \ NextHolder)
      /\ mutex_count' \in [Threads -> 0..CountModulus - 1]
      /\ \A u \in Stoppable : mutex_count'[u] = IF u \in inside' THEN 1 ELSE 0
      /\ inside' = {} /\ Handed(SuspendedOnes(sched), pc) = {}
      /\ mutex'.lock => \E h \in Threads : NextHolder = {h}
      /\ ~ mutex'.lock => NextHolder = {} /\ mutex'.queue = << >>
  BY <1>1, UnlockMutexIs
<1> DEFINE S == SuspendedOnes(sched)
           H == NextHolder
<1>4. /\ Settled(sched') /\ SuspendedOnes(sched') = (S \ H) \cup {t}
      /\ InactiveOnes(sched') = InactiveOnes(sched)
  <2>1. {t} \cap Threads = {t}
    OBVIOUS
  <2>2. QED
    BY <1>1, <1>2, <2>1, SuspendSettles DEF Settled
<1>5. /\ S \subseteq Threads /\ t \notin S /\ t \notin InactiveOnes(sched)
      /\ \A u \in H : u \in S /\ pc[u] = "locking"
  BY <1>1, <1>2, Running, SuspendedAreThreads DEF At, Where
<1>6. /\ pc' \in [Threads -> PcValues]
      /\ pc'[t] = "waiting" /\ \A u \in Threads : u # t => pc'[u] = pc[u]
  BY <1>1 DEF IInv, Typed, Goes, PcValues
<1>7. At("locking") = Where(S, pc, "locking") /\ Handed(S, pc) = {}
  BY <1>3 DEF At
<1> HIDE DEF S, H
<1>8. ASSUME NEW a
      PROVE  Where((S \ H) \cup {t}, pc', a) =
                 IF a = "locking" THEN Where(S, pc, a) \ H
                 ELSE IF a = "waiting" THEN Where(S, pc, a) \cup {t} ELSE Where(S, pc, a)
  BY <1>5, <1>6 DEF Where
<1>9. \A a : At(a)' = IF a = "locking" THEN At(a) \ H
                      ELSE IF a = "waiting" THEN At(a) \cup {t} ELSE At(a)
  BY <1>4, <1>8 DEF At, S
<1>10. t \notin At("waiting")
  BY <1>5 DEF At, Where, S
<1>11. Handed((S \ H) \cup {t}, pc') = H
  BY <1>1, <1>5, <1>6, <1>7 DEF Handed, Where
<1>12. Lines'
  <2>1. Line(condvar', At("waiting") \cup {t})
    BY <1>1, <1>10, LineAppend DEF IInv, Lines
  <2>2. QED
    BY <1>1, <1>3, <1>9, <2>1 DEF IInv, Lines, H
<1>13. Joins'
  BY <1>1, <1>4, <1>9, JoinsUnchanged
<1>14. Calling'
  BY <1>1, <1>9, Running, CallsUnchanged
<1>15. Holding'
  <2>1. Handed(SuspendedOnes(sched'), pc') = NextHolder
    BY <1>4, <1>11 DEF H
  <2>2. QED
    BY <1>3, <2>1 DEF Holding
<1>16. Rules'
  <2>1. \A u \in InactiveOnes(sched') : pc'[u] = "user" /\ u \notin inside'
    BY <1>3, <1>4, <1>5, <1>6, SuspendedAreThreads DEF IInv, Rules
  <2>2. \A u \in Stoppable : pc'[u] \notin {"locking", "waiting"}
    BY <1>1, <1>6, StoppableAssumption DEF IInv, Rules
  <2>3. QED
    BY <1>3, <2>1, <2>2 DEF Rules
<1>17. Typed'
  BY <1>1, <1>3, <1>6 DEF IInv, Typed, ThreadSeqs
<1>18. QED
  BY <1>4, <1>12, <1>13, <1>14, <1>15, <1>16, <1>17 DEF IInv

-----------------------------------------------------------------------------
(***************************************************************************)
(* The invariant holds, and with it what the runs check.                   *)
(***************************************************************************)
LEMMA NextKeepsIInv == IInv /\ [Next]_vars => IInv'
<1> SUFFICES ASSUME IInv, [Next]_vars PROVE IInv'
  OBVIOUS
<1>1. ASSUME NEW t \in Threads, ThreadStep(t)
      PROVE  IInv'
  <2>1. CASE Lock(t) \/ Unlock(t) \/ Wait(t)
    BY <2>1, LockKeepsIInv, UnlockKeepsIInv, WaitKeepsIInv
  <2>2. CASE SignalNext(t) \/ SignalAll(t)
    BY <2>2, SignalNextKeepsIInv, SignalAllKeepsIInv
  <2>3. CASE BlockAtBarrier(t) \/ OpenBarrier(t) \/ ResetBarrier(t)
    BY <2>3, BlockAtBarrierKeepsIInv, OpenBarrierKeepsIInv, ResetBarrierKeepsIInv
  <2>4. CASE ThreadEnds(t) \/ \E u \in Threads : Join(t, u)
    BY <2>4, ThreadEndsKeepsIInv, JoinKeepsIInv
  <2>5. CASE SystemCall(t) \/ WaitOnEvent(t)
    BY <2>5, SystemCallKeepsIInv, WaitOnEventKeepsIInv
  <2>6. QED
    BY <1>1, <2>1, <2>2, <2>3, <2>4, <2>5 DEF ThreadStep
<1>2. ASSUME NEW t \in Threads, Resumes(t) \/ StartThread(t) \/ StopThread(t)
      PROVE  IInv'
  BY <1>2, LockReturnsKeepsIInv, WaitRelocksKeepsIInv, ReturnsKeepsIInv,
     StartThreadKeepsIInv, StopThreadKeepsIInv DEF Resumes
<1>3. CASE TosStep
  BY <1>3, ThreadTaskKeepsIInv, UpdateFromTimerKeepsIInv, AlarmFiredKeepsIInv,
     TosSuspendsKeepsIInv, EventKeepsIInv DEF TosStep
<1>4. CASE AlarmInterrupt \/ EventInterrupt \/ OtherInterrupt
  BY <1>4, AlarmInterruptKeepsIInv, EventInterruptKeepsIInv, OtherInterruptKeepsIInv
<1>5. CASE UNCHANGED vars
  BY <1>5, StutterKeepsIInv
<1>6. QED
  BY <1>1, <1>2, <1>3, <1>4, <1>5 DEF Next

\* Each suspended thread is in the queue of what it called, the threads in the mutex or
\* handed it are at most one, and TinyOS runs while a system call is to be performed.
THEOREM Invariant == Spec => []IInv
<1>1. Init => IInv
  BY InitIInv
<1>2. IInv /\ [Next]_vars => IInv'
  BY NextKeepsIInv
<1>3. QED
  BY <1>1, <1>2, PTL DEF Spec

LEMMA IInvTypes == IInv => TypeOK
<1> SUFFICES ASSUME IInv PROVE TypeOK
  OBVIOUS
<1>1. /\ sched.current \in Threads \cup {TOS}
      /\ sched.state \in [Threads \cup {TOS} -> States] /\ sched.ready \in ThreadSeqs
      /\ sched.num_runnable_threads = Cardinality(Threads \ InactiveOnes(sched))
  BY DEF IInv, Settled, Consistent, Schedulers, Ids, ThreadSeqs
<1>2. sched.num_runnable_threads \in 0..Cardinality(Threads)
  <2> DEFINE A == Threads \ InactiveOnes(sched)
  <2>1. IsFiniteSet(A) /\ Cardinality(A) <= Cardinality(Threads)
    BY IdsAreNumbers, FS_Subset
  <2>2. Cardinality(A) \in Nat /\ Cardinality(Threads) \in Nat
    BY <2>1, IdsAreNumbers, FS_CardinalityType
  <2>3. QED
    BY <1>1, <2>1, <2>2
<1>3. QED
  BY <1>1, <1>2 DEF IInv, Typed, TaskQueueOK, TypeOK, PcValues

\* The scheduler's record, the queues and the locks have their types.
THEOREM TypeCorrect == Spec => []TypeOK
  BY Invariant, IInvTypes, PTL

\* A mutex that is locked belongs to one thread, the one that is in it or the one it
\* was handed to: none that finds it in between takes it (MutexP:72-75).
THEOREM MutexIsExclusive == Spec => []OneHolder
<1>1. IInv => OneHolder
  <2> SUFFICES ASSUME IInv PROVE OneHolder
    OBVIOUS
  <2>1. HandedMutex = Handed(SuspendedOnes(sched), pc)
    <3>1. \A t \in Threads : Contains(mutex.queue, t) <=> t \in At("locking")
      BY LineHas DEF IInv, Lines
    <3>2. QED
      BY <3>1 DEF HandedMutex, Handed, At, Where
  <2>2. CASE mutex.lock
    <3>1. PICK h \in Threads : inside \cup HandedMutex = {h}
      BY <2>1, <2>2 DEF IInv, Holding
    <3>2. QED
      BY <2>2, <3>1, FS_Singleton DEF OneHolder
  <2>3. CASE ~ mutex.lock
    BY <2>1, <2>3, FS_EmptySet DEF IInv, Holding, OneHolder
  <2>4. QED
    BY <2>2, <2>3
<1>2. QED
  BY <1>1, Invariant, PTL

\* While the task of a system call waits, TinyOS runs and the thread that made the call
\* sleeps: no second call overwrites current_call (SystemCallP:52-61).
THEOREM CallsAreOneAtATime == Spec => []CallsOneAtATime
<1>1. IInv => CallsOneAtATime
  <2> SUFFICES ASSUME IInv, Contains(tasks, "threadTask")
               PROVE  sched.current \notin Threads /\ sched.state[current_call] = "SUSPENDED"
    BY DEF CallsOneAtATime, Scheduler!IsQueued, Contains
  <2>1. current_call \in At("calling") /\ TosActive(sched)
    BY DEF IInv, Calling, Performed
  <2>2. QED
    BY <2>1, IdsAreNumbers DEF At, Where, SuspendedOnes, TosActive
<1>2. QED
  BY <1>1, Invariant, PTL

LEMMA SuspendedIsAwaited ==
    ASSUME IInv, NEW t \in Threads, sched.state[t] = "SUSPENDED"
    PROVE  Awaited(t)
<1>1. pc[t] \in PcValues /\ t \in SuspendedOnes(sched)
  BY DEF IInv, Typed, SuspendedOnes
<1>2. t \in At(pc[t])
  BY <1>1 DEF At, Where
<1>3. CASE pc[t] = "user"
  BY <1>2, <1>3 DEF IInv, Lines
<1>4. CASE pc[t] = "locking"
  <2>1. Contains(mutex.queue, t)
    BY <1>2, <1>4, LineHas DEF IInv, Lines
  <2>2. mutex.queue # << >>
    BY <2>1 DEF Contains
  <2>3. mutex.lock
    BY <2>2 DEF IInv, Holding
  <2>4. QED
    BY <1>4, <2>1, <2>3 DEF Awaited
<1>5. CASE pc[t] = "waiting"
  BY <1>2, <1>5, LineHas DEF IInv, Lines, Awaited
<1>6. CASE pc[t] = "blocked"
  BY <1>2, <1>6, LineHas DEF IInv, Lines, Awaited
<1>7. CASE pc[t] = "joining"
  <2>1. PICK u \in Threads : t \in joinedOnMe[u]
    BY <1>2, <1>7 DEF IInv, Joins
  <2>2. sched.state[u] # "INACTIVE"
    BY <2>1 DEF IInv, Joins, InactiveOnes
  <2>3. QED
    BY <1>7, <2>1, <2>2 DEF Awaited
<1>8. CASE pc[t] = "calling"
  <2>1. t \in started \cup Performed(tasks, current_call)
    BY <1>2, <1>8 DEF IInv, Calling
  <2>2. t \in started \/ (t = current_call /\ Scheduler!IsQueued("threadTask"))
    BY <2>1 DEF Performed, Contains, Scheduler!IsQueued
  <2>3. QED
    BY <1>8, <2>2 DEF Awaited
<1>9. QED
  BY <1>1, <1>3, <1>4, <1>5, <1>6, <1>7, <1>8 DEF PcValues

LEMMA QueuesAreDisjoint ==
    ASSUME IInv
    PROVE  IsInjective(sched.ready \o mutex.queue \o condvar \o barrier.queue)
<1> DEFINE r == ReadyOnes(sched)
           m == At("locking")
           c == At("waiting")
           b == At("blocked")
<1>1. /\ Line(sched.ready, r) /\ Line(mutex.queue, m) /\ Line(condvar, c)
      /\ Line(barrier.queue, b)
  BY DEF IInv, Lines, Settled, Consistent
<1>2. /\ r \cap m = {} /\ (r \cup m) \cap c = {} /\ ((r \cup m) \cup c) \cap b = {}
  BY DEF ReadyOnes, At, Where, SuspendedOnes
<1> HIDE DEF r, m, c, b
<1>3. Line(sched.ready \o mutex.queue, r \cup m)
  BY <1>1, <1>2, LineConcat
<1>4. Line((sched.ready \o mutex.queue) \o condvar, (r \cup m) \cup c)
  BY <1>1, <1>2, <1>3, LineConcat
<1>5. Line(((sched.ready \o mutex.queue) \o condvar) \o barrier.queue, ((r \cup m) \cup c) \cup b)
  BY <1>1, <1>2, <1>4, LineConcat
<1>6. QED
  BY <1>5 DEF Line

\* Whatever threads are started, stopped, end and wake each other up: a thread that is
\* suspended is where somebody finds it, one that is ready is in the ready queue, and
\* no record is linked in two queues (thread.h).
THEOREM NobodyIsStranded == Spec => []NoThreadStranded
<1>1. IInv => NoThreadStranded
  <2> SUFFICES ASSUME IInv PROVE NoThreadStranded
    OBVIOUS
  <2>1. {t \in Threads : sched.state[t] = "READY"} = Range(sched.ready)
    BY DEF IInv, Settled, Consistent, Line, ReadyOnes
  <2>2. QED
    BY <2>1, SuspendedIsAwaited, QueuesAreDisjoint DEF NoThreadStranded
<1>2. QED
  BY <1>1, Invariant, PTL
=============================================================================
