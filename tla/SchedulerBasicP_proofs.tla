----------------------- MODULE SchedulerBasicP_proofs -----------------------
(***************************************************************************)
(* Proofs about SchedulerBasicP, for every number of tasks a byte can name.*)
(***************************************************************************)
EXTENDS SchedulerBasicP, FiniteSetTheorems, WellFoundedInduction, TLAPS

LEMMA TaskIds == Tasks \subseteq Nat /\ NO_TASK \notin Tasks
  BY TaskIdsFitInAByte DEF Tasks, NO_TASK

(***************************************************************************)
(* Every variable keeps its type: in particular popTask only ever indexes  *)
(* the array with the id of a task.                                        *)
(***************************************************************************)
THEOREM TypeCorrect == Spec => []TypeOK
<1>1. Init => TypeOK
  <2>1. 0 \in Tasks
    BY TaskIdsFitInAByte DEF Tasks, NO_TASK
  <2>2. QED
    BY <2>1 DEF Init, TypeOK, Places, Booting
<1>2. TypeOK /\ [Next]_vars => TypeOK'
  <2> SUFFICES ASSUME TypeOK, [Next]_vars PROVE TypeOK'
    OBVIOUS
  <2> USE DEF TypeOK, list, AtMain, Places, Booting
  <2>1. CASE SchedulerInit
    BY <2>1 DEF SchedulerInit
  <2>2. CASE \/ PlatformInitDone \/ PlatformTasksDone \/ SoftwareInitDone
             \/ SoftwareTasksDone \/ BootedDone \/ FindIdle \/ Sleep \/ Resume
    BY <2>2 DEF PlatformInitDone, PlatformTasksDone, SoftwareInitDone,
                SoftwareTasksDone, BootedDone, FindIdle, Sleep, Resume, Advance
  <2>3. CASE RunNextTask
    BY <2>3 DEF RunNextTask, PopTask
  <2>4. CASE TaskDone
    BY <2>4 DEF TaskDone
  <2>5. ASSUME NEW id \in Tasks, PostTask(id)
        PROVE  TypeOK'
    BY <2>5 DEF PostTask, PushTask
  <2>6. CASE Raise \/ TakeInterrupt \/ HandlerDone
    BY <2>6 DEF Raise, TakeInterrupt, HandlerDone
  <2>7. CASE UNCHANGED vars
    BY <2>7 DEF vars
  <2>8. QED
    BY <2>1, <2>2, <2>3, <2>4, <2>5, <2>6, <2>7 DEF Next, MainStep
<1>3. QED
  BY <1>1, <1>2, PTL DEF Spec

(***************************************************************************)
(* main() comes to its sleep instruction only with an empty queue and no   *)
(* way to fill it (taskLoop).                                              *)
(***************************************************************************)
THEOREM SleepInvInvariant == Spec => []SleepInv
<1> USE DEF SleepInv, SleepsOnlyWhenIdle, AtMain, list
<1>1. Init => SleepInv
  BY DEF Init
<1>2. SleepInv /\ [Next]_vars => SleepInv'
  <2> SUFFICES ASSUME SleepInv, [Next]_vars PROVE SleepInv'
    OBVIOUS
  <2>1. CASE SchedulerInit
    BY <2>1 DEF SchedulerInit
  <2>2. CASE \/ PlatformInitDone \/ PlatformTasksDone \/ SoftwareInitDone
             \/ SoftwareTasksDone \/ BootedDone \/ FindIdle \/ Sleep \/ Resume
    BY <2>2 DEF PlatformInitDone, PlatformTasksDone, SoftwareInitDone,
                SoftwareTasksDone, BootedDone, FindIdle, Sleep, Resume, Advance
  <2>3. CASE RunNextTask
    BY <2>3 DEF RunNextTask, PopTask
  <2>4. CASE TaskDone
    BY <2>4 DEF TaskDone
  <2>5. ASSUME NEW id \in Tasks, PostTask(id)
        PROVE  SleepInv'
    BY <2>5 DEF PostTask, CodeRuns
  <2>6. CASE Raise \/ HandlerDone
    BY <2>6 DEF Raise, HandlerDone
  <2>7. CASE TakeInterrupt
    BY <2>7 DEF TakeInterrupt, InterruptsEnabled
  <2>8. CASE UNCHANGED vars
    BY <2>8 DEF vars
  <2>9. QED
    BY <2>1, <2>2, <2>3, <2>4, <2>5, <2>6, <2>7, <2>8 DEF Next, MainStep
<1>3. QED
  BY <1>1, <1>2, PTL DEF Spec

(***************************************************************************)
(* The processor is never turned off with a task waiting: no post is lost  *)
(* to an interrupt between the test of the queue and the sleep.            *)
(***************************************************************************)
THEOREM NoTaskSleptOver == Spec => []SleepsOnlyWhenIdle
<1>1. SleepInv => SleepsOnlyWhenIdle
  BY DEF SleepInv
<1>2. QED
  BY <1>1, SleepInvInvariant, PTL

-----------------------------------------------------------------------------
(***************************************************************************)
(* The linked list as a sequence.  A list is given by its head, its tail   *)
(* and its links, so that the lemmas hold of the list before a step and of *)
(* the list after it.                                                      *)
(***************************************************************************)

Distinct(s) == \A i, j \in 1..Len(s) : s[i] = s[j] => i = j

\* The last of s has no link, nor has a task that is not in s.
Linked(s, next) ==
    /\ \A i \in 1..(Len(s) - 1) : next[s[i]] = s[i + 1]
    /\ \A t \in Tasks : (\A i \in 1..(Len(s) - 1) : s[i] # t) => next[t] = NO_TASK

Lists(s, head, tail, next) ==
    /\ Distinct(s)
    /\ head = IF s = <<>> THEN NO_TASK ELSE s[1]
    /\ tail = IF s = <<>> THEN NO_TASK ELSE s[Len(s)]
    /\ Linked(s, next)

LEMMA OrdersAreSequences ==
    ASSUME NEW s \in Orders
    PROVE  s \in Seq(Tasks) /\ Len(s) \in Nat /\ s \in [1..Len(s) -> Tasks]
           /\ (s = <<>> <=> Len(s) = 0)
<1>1. PICK n \in 0..NUM_TASKS : s \in [1..n -> Tasks]
  BY DEF Orders
<1>2. s \in Seq(Tasks)
  BY <1>1, TaskIdsFitInAByte
<1>3. QED
  BY <1>2

\* Each task is in a sequence once, so it is not too long to be one of Orders.
LEMMA DistinctIsOrder ==
    ASSUME NEW s \in Seq(Tasks), Distinct(s)
    PROVE  s \in Orders
<1>1. Len(s) \in Nat /\ s \in [1..Len(s) -> Tasks]
  OBVIOUS
<1>2. NUM_TASKS \in Nat
  BY TaskIdsFitInAByte
<1>3. ASSUME Len(s) > NUM_TASKS
      PROVE  FALSE
  <2>1. IsFiniteSet(1..Len(s)) /\ Cardinality(1..Len(s)) = Len(s)
    BY <1>1, <1>2, <1>3, FS_Interval
  <2>2. IsFiniteSet(Tasks) /\ Cardinality(Tasks) = NUM_TASKS
    BY <1>2, TaskIdsFitInAByte, FS_Interval DEF Tasks, NO_TASK
  <2>3. \E x, y \in 1..Len(s) : x # y /\ s[x] = s[y]
    BY <1>1, <1>3, <2>1, <2>2, FS_PigeonHole
  <2>4. QED
    BY <2>3 DEF Distinct
<1>4. Len(s) \in 0..NUM_TASKS
  BY <1>1, <1>2, <1>3
<1>5. [1..Len(s) -> Tasks] \in {[1..n -> Tasks] : n \in 0..NUM_TASKS}
  BY <1>4
<1>6. QED
  BY <1>1, <1>5 DEF Orders

\* Represents says the same with a CHOOSE.
LEMMA LinksAsFunction ==
    ASSUME NEW s \in Seq(Tasks), Distinct(s), NEW next
    PROVE  Linked(s, next) <=>
             \A t \in Tasks :
                next[t] = IF \E i \in 1..(Len(s) - 1) : s[i] = t
                          THEN s[(CHOOSE i \in 1..(Len(s) - 1) : s[i] = t) + 1]
                          ELSE NO_TASK
<1>1. \A i \in 1..(Len(s) - 1) :
         (CHOOSE j \in 1..(Len(s) - 1) : s[j] = s[i]) = i
  BY DEF Distinct
<1>2. \A i \in 1..(Len(s) - 1) : s[i] \in Tasks
  OBVIOUS
<1> DEFINE Link(t) ==
             IF \E i \in 1..(Len(s) - 1) : s[i] = t
             THEN s[(CHOOSE i \in 1..(Len(s) - 1) : s[i] = t) + 1]
             ELSE NO_TASK
<1>3. \A i \in 1..(Len(s) - 1) : Link(s[i]) = s[i + 1]
  BY <1>1
<1>4. \A t \in Tasks : (\A i \in 1..(Len(s) - 1) : s[i] # t) => Link(t) = NO_TASK
  OBVIOUS
<1> HIDE DEF Link
<1>5. Linked(s, next) <=> \A t \in Tasks : next[t] = Link(t)
  BY <1>2, <1>3, <1>4 DEF Linked
<1>6. QED
  BY <1>5 DEF Link

LEMMA RepresentsAsLists ==
    ASSUME NEW s \in Orders
    PROVE  /\ Represents(s) <=> Lists(s, m_head, m_tail, m_next)
           /\ Represents(s)' <=> Lists(s, m_head', m_tail', m_next')
<1>1. s \in Seq(Tasks)
  BY OrdersAreSequences
<1>2. Represents(s) <=> Lists(s, m_head, m_tail, m_next)
  <2>1. CASE Distinct(s)
    BY <1>1, <2>1, LinksAsFunction DEF Represents, Lists, Distinct
  <2>2. CASE ~ Distinct(s)
    BY <2>2 DEF Represents, Lists, Distinct
  <2>3. QED
    BY <2>1, <2>2
<1>3. Represents(s)' <=> Lists(s, m_head', m_tail', m_next')
  <2>1. CASE Distinct(s)
    BY <1>1, <2>1, LinksAsFunction DEF Represents, Lists, Distinct
  <2>2. CASE ~ Distinct(s)
    BY <2>2 DEF Represents, Lists, Distinct
  <2>3. QED
    BY <2>1, <2>2
<1>4. QED
  BY <1>2, <1>3

LEMMA SmallestNumber ==
    ASSUME NEW S, S \subseteq Nat, S # {}
    PROVE  \E m \in S : \A n \in S : m <= n
<1> DEFINE R == OpToRel(<, Nat)
<1>1. \E m \in S : \A n \in S : <<n, m>> \notin R
  <2>1. IsWellFoundedOn(R, Nat)
    BY NatLessThanWellFounded
  <2> HIDE DEF R
  <2>2. QED
    BY <2>1, WFMin
<1>2. \A m, n \in Nat : n < m => <<n, m>> \in R
  BY DEF OpToRel
<1> HIDE DEF R
<1>3. PICK m \in S : \A n \in S : <<n, m>> \notin R
  BY <1>1
<1>4. \A n \in S : ~ (n < m)
  BY <1>2, <1>3
<1>5. QED
  BY <1>4

\* The links of the list lead to no other sequence: at the first place where two differ,
\* or where one ends, the link of the place before would be another.
LEMMA AgreeUpTo ==
    ASSUME NEW s \in Seq(Tasks), NEW u \in Seq(Tasks), Len(s) <= Len(u),
           NEW head, NEW tail, NEW next,
           Lists(s, head, tail, next), Lists(u, head, tail, next)
    PROVE  \A i \in 1..Len(s) : s[i] = u[i]
<1> DEFINE Differ == {i \in 1..Len(s) : s[i] # u[i]}
<1> SUFFICES ASSUME Differ # {} PROVE FALSE
  OBVIOUS
<1>1. PICK m \in Differ : \A i \in Differ : m <= i
  <2>1. Differ \subseteq Nat
    OBVIOUS
  <2> HIDE DEF Differ
  <2>2. QED
    BY <2>1, SmallestNumber
<1>2. m \in 1..Len(s) /\ m \in 1..Len(u) /\ s[m] # u[m] /\ s # <<>> /\ u # <<>>
  OBVIOUS
<1>3. CASE m = 1
  BY <1>2, <1>3 DEF Lists
<1>4. CASE m # 1
  <2>1. m - 1 \in 1..(Len(s) - 1) /\ m - 1 \in 1..(Len(u) - 1)
    BY <1>2, <1>4
  <2>2. s[m - 1] = u[m - 1]
    BY <1>1, <1>2, <2>1
  <2>3. next[s[m - 1]] = s[(m - 1) + 1] /\ next[u[m - 1]] = u[(m - 1) + 1]
    BY <2>1 DEF Lists, Linked
  <2>4. QED
    BY <1>2, <2>2, <2>3
<1>5. QED
  BY <1>3, <1>4

LEMMA SameLength ==
    ASSUME NEW s \in Seq(Tasks), NEW u \in Seq(Tasks), Len(s) <= Len(u),
           NEW head, NEW tail, NEW next,
           Lists(s, head, tail, next), Lists(u, head, tail, next)
    PROVE  Len(s) = Len(u)
<1> SUFFICES ASSUME Len(s) < Len(u) PROVE FALSE
  OBVIOUS
<1>1. CASE s = <<>>
  <2>1. u[1] \in Tasks /\ u # <<>>
    BY <1>1
  <2>2. QED
    BY <1>1, <2>1, TaskIds DEF Lists
<1>2. CASE s # <<>>
  <2>1. Len(s) \in 1..Len(s) /\ Len(s) \in 1..(Len(u) - 1) /\ u[Len(s) + 1] \in Tasks
    BY <1>2
  <2>2. s[Len(s)] = u[Len(s)] /\ s[Len(s)] \in Tasks
    BY <2>1, AgreeUpTo
  <2>3. next[s[Len(s)]] = NO_TASK
    <3>1. \A i \in 1..(Len(s) - 1) : s[i] # s[Len(s)]
      BY <2>1 DEF Lists, Distinct
    <3>2. QED
      BY <2>2, <3>1 DEF Lists, Linked
  <2>4. next[u[Len(s)]] = u[Len(s) + 1]
    BY <2>1 DEF Lists, Linked
  <2>5. QED
    BY <2>1, <2>2, <2>3, <2>4, TaskIds
<1>3. QED
  BY <1>1, <1>2

LEMMA SameList ==
    ASSUME NEW s \in Seq(Tasks), NEW u \in Seq(Tasks), NEW head, NEW tail, NEW next,
           Lists(s, head, tail, next), Lists(u, head, tail, next)
    PROVE  s = u
<1>1. Len(s) <= Len(u) \/ Len(u) <= Len(s)
  OBVIOUS
<1>2. Len(s) = Len(u)
  BY <1>1, SameLength
<1>3. \A i \in 1..Len(s) : s[i] = u[i]
  BY <1>2, AgreeUpTo
<1>4. QED
  BY <1>2, <1>3

\* isWaiting is exact.
LEMMA WaitingIsListed ==
    ASSUME NEW s \in Seq(Tasks), NEW head, NEW tail, NEW next, Lists(s, head, tail, next),
           NEW t \in Tasks
    PROVE  next[t] # NO_TASK \/ tail = t <=> \E i \in 1..Len(s) : s[i] = t
<1>1. ASSUME NEW i \in 1..Len(s), s[i] = t
      PROVE  next[t] # NO_TASK \/ tail = t
  <2>1. CASE i = Len(s)
    BY <1>1, <2>1 DEF Lists
  <2>2. CASE i # Len(s)
    <3>1. i \in 1..(Len(s) - 1) /\ s[i + 1] \in Tasks
      BY <2>2
    <3>2. QED
      BY <1>1, <3>1, TaskIds DEF Lists, Linked
  <2>3. QED
    BY <2>1, <2>2
<1>2. ASSUME next[t] # NO_TASK
      PROVE  \E i \in 1..Len(s) : s[i] = t
  <2>1. \E i \in 1..(Len(s) - 1) : s[i] = t
    BY <1>2 DEF Lists, Linked
  <2>2. QED
    BY <2>1
<1>3. ASSUME tail = t
      PROVE  \E i \in 1..Len(s) : s[i] = t
  <2>1. s # <<>> /\ tail = s[Len(s)]
    BY <1>3, TaskIds DEF Lists
  <2>2. QED
    BY <1>3, <2>1
<1>4. QED
  BY <1>1, <1>2, <1>3

\* pushTask appends to the sequence.
LEMMA PushAppends ==
    ASSUME NEW s \in Seq(Tasks), NEW head, NEW tail, NEW next \in [Tasks -> Tasks \cup {NO_TASK}],
           Lists(s, head, tail, next),
           NEW t \in Tasks, \A i \in 1..Len(s) : s[i] # t
    PROVE  Lists(Append(s, t), IF head = NO_TASK THEN t ELSE head, t,
                 IF head = NO_TASK THEN next ELSE [next EXCEPT ![tail] = t])
<1> DEFINE u == Append(s, t)
           last == IF head = NO_TASK THEN next ELSE [next EXCEPT ![tail] = t]
<1>1. /\ u \in Seq(Tasks) /\ Len(s) \in Nat /\ Len(u) = Len(s) + 1 /\ u # <<>>
      /\ \A i \in 1..Len(s) : u[i] = s[i] /\ s[i] \in Tasks
      /\ u[Len(s) + 1] = t
  OBVIOUS
<1> HIDE DEF u
<1>2. Distinct(u)
  BY <1>1 DEF Lists, Distinct
<1>3. u[Len(u)] = t /\ u[1] = IF head = NO_TASK THEN t ELSE head
  BY <1>1, TaskIds DEF Lists
<1>4. Linked(u, last)
  <2>1. CASE s = <<>>
    BY <1>1, <2>1 DEF Lists, Linked
  <2>2. CASE s # <<>>
    <3>1. head # NO_TASK /\ tail = s[Len(s)] /\ Len(s) \in 1..Len(s)
      BY <1>1, <2>2, TaskIds DEF Lists
    <3>2. \A i \in 1..(Len(s) - 1) : s[i] # tail
      BY <1>1, <3>1 DEF Lists, Distinct
    <3>3. \A x \in Tasks : last[x] = IF x = tail THEN t ELSE next[x]
      BY <3>1
    <3> HIDE DEF last
    <3>4. ASSUME NEW i \in 1..(Len(u) - 1)
          PROVE  last[u[i]] = u[i + 1]
      <4>1. CASE i = Len(s)
        BY <1>1, <3>1, <3>3, <4>1
      <4>2. CASE i # Len(s)
        <5>1. i \in 1..(Len(s) - 1) /\ i \in 1..Len(s) /\ i + 1 \in 1..Len(s)
          BY <1>1, <4>2
        <5>2. next[s[i]] = s[i + 1]
          BY <5>1 DEF Lists, Linked
        <5>3. QED
          BY <1>1, <3>2, <3>3, <5>1, <5>2
      <4>3. QED
        BY <4>1, <4>2
    <3>5. ASSUME NEW x \in Tasks, \A i \in 1..(Len(u) - 1) : u[i] # x
          PROVE  last[x] = NO_TASK
      <4>1. \A i \in 1..Len(s) : s[i] # x
        BY <1>1, <3>5
      <4>2. x # tail /\ \A i \in 1..(Len(s) - 1) : s[i] # x
        BY <1>1, <3>1, <4>1
      <4>3. QED
        BY <3>3, <4>2 DEF Lists, Linked
    <3>6. QED
      BY <3>4, <3>5 DEF Linked
  <2>3. QED
    BY <2>1, <2>2
<1>5. QED
  BY <1>1, <1>2, <1>3, <1>4 DEF Lists, u

\* popTask takes the first task from the sequence.
LEMMA PopTakesHead ==
    ASSUME NEW s \in Seq(Tasks), NEW head, NEW tail, NEW next \in [Tasks -> Tasks \cup {NO_TASK}],
           Lists(s, head, tail, next), head # NO_TASK
    PROVE  /\ s # <<>> /\ head = Head(s)
           /\ Lists(Tail(s), next[head], IF next[head] = NO_TASK THEN NO_TASK ELSE tail,
                    [next EXCEPT ![head] = NO_TASK])
<1> DEFINE u == Tail(s)
           rest == [next EXCEPT ![head] = NO_TASK]
<1>1. s # <<>> /\ head = s[1] /\ head \in Tasks /\ tail = s[Len(s)] /\ Len(s) \in Nat \ {0}
  BY DEF Lists
<1>2. /\ u \in Seq(Tasks) /\ Len(u) = Len(s) - 1 /\ Len(u) \in Nat
      /\ \A i \in 1..Len(u) : u[i] = s[i + 1] /\ i + 1 \in 1..Len(s) /\ u[i] \in Tasks
      /\ (u = <<>> <=> Len(u) = 0)
  <2>1. /\ u \in Seq(Tasks) /\ Len(u) = Len(s) - 1
        /\ \A i \in 1..Len(u) : u[i] = s[i + 1]
    BY <1>1
  <2> HIDE DEF u
  <2>2. QED
    BY <1>1, <2>1
<1>3. \A x \in Tasks : rest[x] = IF x = head THEN NO_TASK ELSE next[x]
  BY <1>1
<1> HIDE DEF u, rest
<1>4. Distinct(u) /\ \A i \in 1..Len(u) : u[i] # head
  <2>1. \A i, j \in 1..Len(s) : s[i] = s[j] => i = j
    BY DEF Lists, Distinct
  <2>2. Distinct(u)
    <3>1. \A i, j \in 1..Len(u) : s[i + 1] = s[j + 1] => i = j
      BY <1>1, <1>2, <2>1
    <3>2. QED
      BY <1>2, <3>1 DEF Distinct
  <2>3. ASSUME NEW i \in 1..Len(u), u[i] = head
        PROVE  FALSE
    <3>1. 1 \in 1..Len(s) /\ i + 1 \in 1..Len(s) /\ s[i + 1] = s[1]
      BY <1>1, <1>2, <2>3
    <3>2. i + 1 = 1
      BY <2>1, <3>1
    <3>3. QED
      BY <1>2, <3>2
  <2>4. QED
    BY <2>2, <2>3
<1>5. next[head] = IF u = <<>> THEN NO_TASK ELSE u[1]
  <2>1. CASE u = <<>>
    <3>1. Len(s) = 1
      BY <1>1, <1>2, <2>1
    <3>2. ASSUME NEW i \in 1..(Len(s) - 1)
          PROVE  FALSE
      BY <1>1, <3>1
    <3>3. QED
      BY <1>1, <2>1, <3>2 DEF Lists, Linked
  <2>2. CASE u # <<>>
    <3>1. 1 \in 1..(Len(s) - 1) /\ u[1] = s[1 + 1]
      BY <1>2, <2>2
    <3>2. QED
      BY <1>1, <2>2, <3>1 DEF Lists, Linked
  <2>3. QED
    BY <2>1, <2>2
<1>6. (IF next[head] = NO_TASK THEN NO_TASK ELSE tail) = IF u = <<>> THEN NO_TASK ELSE u[Len(u)]
  BY <1>1, <1>2, <1>5, TaskIds
<1>7. Linked(u, rest)
  <2>1. ASSUME NEW i \in 1..(Len(u) - 1)
        PROVE  rest[u[i]] = u[i + 1]
    <3>1. i \in 1..Len(u) /\ i + 1 \in 1..Len(u) /\ i + 1 \in 1..(Len(s) - 1)
      BY <1>2
    <3>2. next[s[i + 1]] = s[(i + 1) + 1]
      BY <3>1 DEF Lists, Linked
    <3>3. QED
      BY <1>2, <1>3, <1>4, <3>1, <3>2
  <2>2. ASSUME NEW x \in Tasks, \A i \in 1..(Len(u) - 1) : u[i] # x
        PROVE  rest[x] = NO_TASK
    <3>1. CASE x = head
      BY <1>3, <3>1
    <3>2. CASE x # head
      <4>1. ASSUME NEW i \in 1..(Len(s) - 1), s[i] = x
            PROVE  FALSE
        <5>1. i # 1 /\ i - 1 \in 1..(Len(u) - 1) /\ i - 1 \in 1..Len(u)
          BY <1>1, <1>2, <3>2, <4>1
        <5>2. u[i - 1] = s[(i - 1) + 1]
          BY <1>2, <5>1
        <5>3. QED
          BY <2>2, <4>1, <5>1, <5>2
      <4>2. QED
        BY <1>3, <3>2, <4>1 DEF Lists, Linked
    <3>3. QED
      BY <3>1, <3>2
  <2>3. QED
    BY <2>1, <2>2 DEF Linked
<1>8. QED
  BY <1>1, <1>4, <1>5, <1>6, <1>7 DEF Lists, u, rest

-----------------------------------------------------------------------------
(***************************************************************************)
(* From reset on the list is one: the inductive invariant of the           *)
(* refinement.  Before, nothing that could post runs.                      *)
(***************************************************************************)
IsList == \E s \in Orders : Represents(s)

ListInv ==
    /\ TypeOK
    /\ pc = "reset" => running = NO_TASK /\ ~ inHandler
    /\ pc # "reset" => IsList

\* Waiting is the one sequence that the list represents.
LEMMA WaitingIs ==
    ASSUME NEW s \in Orders
    PROVE  /\ pc # "reset" /\ Represents(s) => Waiting = s
           /\ pc' # "reset" /\ Represents(s)' => Waiting' = s
<1>1. \A u, v \in Orders : Represents(u) /\ Represents(v) => u = v
  BY RepresentsAsLists, OrdersAreSequences, SameList
<1>2. \A u, v \in Orders : Represents(u)' /\ Represents(v)' => u = v
  BY RepresentsAsLists, OrdersAreSequences, SameList
<1>3. ASSUME pc # "reset", Represents(s)
      PROVE  Waiting = s
  <2>1. Represents(CHOOSE u \in Orders : Represents(u))
        /\ (CHOOSE u \in Orders : Represents(u)) \in Orders
    BY <1>3
  <2>2. QED
    BY <1>1, <1>3, <2>1 DEF Waiting
<1>4. ASSUME pc' # "reset", Represents(s)'
      PROVE  Waiting' = s
  <2>1. Waiting' = CHOOSE u \in Orders : Represents(u)'
    BY <1>4 DEF Waiting
  <2>2. /\ (CHOOSE u \in Orders : Represents(u)') \in Orders
        /\ \A v \in Orders : v = (CHOOSE u \in Orders : Represents(u)') => Represents(v)'
    BY <1>4
  <2>3. QED
    BY <1>2, <1>4, <2>1, <2>2
<1>5. QED
  BY <1>3, <1>4

LEMMA ListBooted ==
    ASSUME SchedulerInit
    PROVE  <<>> \in Orders /\ Represents(<<>>)'
<1>1. <<>> \in Seq(Tasks) /\ Len(<<>>) = 0
  OBVIOUS
<1>2. Distinct(<<>>)
  BY <1>1 DEF Distinct
<1>3. Lists(<<>>, m_head', m_tail', m_next')
  BY <1>1, <1>2 DEF SchedulerInit, Lists, Linked
<1>4. QED
  BY <1>1, <1>2, <1>3, DistinctIsOrder, RepresentsAsLists

\* A post that is accepted appends the task, which was not waiting.
LEMMA PostAppends ==
    ASSUME TypeOK, NEW s \in Orders, Represents(s), NEW id \in Tasks, PushTask(id)
    PROVE  /\ Append(s, id) \in Orders /\ Represents(Append(s, id))'
           /\ \A i \in 1..Len(s) : s[i] # id
<1>1. s \in Seq(Tasks) /\ Lists(s, m_head, m_tail, m_next)
  BY OrdersAreSequences, RepresentsAsLists
<1>2. \A i \in 1..Len(s) : s[i] # id
  BY <1>1, WaitingIsListed DEF PushTask, isWaiting
<1>3. /\ m_head' = (IF m_head = NO_TASK THEN id ELSE m_head)
      /\ m_tail' = id
      /\ m_next' = (IF m_head = NO_TASK THEN m_next ELSE [m_next EXCEPT ![m_tail] = id])
  BY DEF PushTask
<1>4. Lists(Append(s, id), m_head', m_tail', m_next')
  <2>1. m_next \in [Tasks -> Tasks \cup {NO_TASK}]
    BY DEF TypeOK
  <2>2. QED
    BY <1>1, <1>2, <1>3, <2>1, PushAppends
<1>5. Append(s, id) \in Orders
  <2>1. Append(s, id) \in Seq(Tasks) /\ Distinct(Append(s, id))
    BY <1>1, <1>4 DEF Lists
  <2>2. QED
    BY <2>1, DistinctIsOrder
<1>6. QED
  BY <1>2, <1>4, <1>5, RepresentsAsLists

\* The task that is taken is the first.
LEMMA PopTakes ==
    ASSUME TypeOK, NEW s \in Orders, Represents(s), PopTask
    PROVE  /\ s # <<>> /\ m_head = Head(s)
           /\ Tail(s) \in Orders /\ Represents(Tail(s))'
<1>1. s \in Seq(Tasks) /\ Lists(s, m_head, m_tail, m_next)
  BY OrdersAreSequences, RepresentsAsLists
<1>2. m_next \in [Tasks -> Tasks \cup {NO_TASK}] /\ m_head # NO_TASK
  BY DEF TypeOK, PopTask
<1>3. s # <<>> /\ m_head = Head(s) /\ Lists(Tail(s), m_head', m_tail', m_next')
  BY <1>1, <1>2, PopTakesHead DEF PopTask
<1>4. Tail(s) \in Seq(Tasks)
  BY <1>1, <1>3
<1>5. Tail(s) \in Orders
  BY <1>3, <1>4, DistinctIsOrder DEF Lists
<1>6. QED
  BY <1>3, <1>5, RepresentsAsLists

\* A step that leaves the list alone, after reset.
LEMMA ListUnchanged ==
    ASSUME ListInv, UNCHANGED list, pc # "reset", pc' # "reset"
    PROVE  IsList' /\ Waiting' = Waiting
<1>1. PICK s \in Orders : Represents(s)
  BY DEF ListInv, IsList
<1>2. Represents(s)'
  BY <1>1 DEF Represents, list
<1>3. QED
  BY <1>1, <1>2, WaitingIs DEF IsList

\* The steps of main() between its tasks, and those of handlers.
LEMMA OtherSteps ==
    ASSUME ListInv, \/ PlatformInitDone \/ PlatformTasksDone
                    \/ SoftwareInitDone \/ SoftwareTasksDone
                    \/ BootedDone \/ FindIdle \/ Sleep \/ Resume
                    \/ Raise \/ TakeInterrupt \/ HandlerDone
    PROVE  /\ UNCHANGED <<list, running>>
           /\ pc = "reset" => pc' = "reset" /\ ~ inHandler'
           /\ pc # "reset" => pc' # "reset"
<1> USE DEF list
<1>1. CASE \/ PlatformInitDone \/ PlatformTasksDone \/ SoftwareInitDone
           \/ SoftwareTasksDone \/ BootedDone \/ FindIdle \/ Sleep \/ Resume
  BY <1>1 DEF PlatformInitDone, PlatformTasksDone, SoftwareInitDone,
              SoftwareTasksDone, BootedDone, FindIdle, Sleep, Resume, Advance, AtMain
<1>2. CASE Raise \/ HandlerDone
  BY <1>2 DEF Raise, HandlerDone, ListInv
<1>3. CASE TakeInterrupt
  BY <1>3 DEF TakeInterrupt, InterruptsEnabled, Booting
<1>4. QED
  BY <1>1, <1>2, <1>3

\* Every step from ListInv maps to a step of TaskQueue or to a stutter, and keeps it.
LEMMA StepOfTaskQueue ==
    ASSUME ListInv, TypeOK', [Next]_vars
    PROVE  ListInv' /\ [Abstract!Next]_(Abstract!vars)
<1>1. CASE SchedulerInit
  <2>1. Waiting' = <<>>
    BY <1>1, ListBooted, WaitingIs DEF SchedulerInit
  <2>2. Waiting = <<>> /\ UNCHANGED running
    BY <1>1 DEF SchedulerInit, AtMain, Waiting
  <2>3. IsList'
    BY <1>1, ListBooted DEF IsList
  <2>4. QED
    BY <1>1, <2>1, <2>2, <2>3 DEF ListInv, SchedulerInit, Abstract!vars
<1>2. ASSUME NEW id \in Tasks, PostTask(id)
      PROVE  ListInv' /\ [Abstract!Next]_(Abstract!vars)
  <2>1. pc # "reset" /\ pc' = pc /\ UNCHANGED <<running, inHandler>>
    BY <1>2 DEF PostTask, CodeRuns, ListInv
  <2>2. CASE PushTask(id)
    <3>1. PICK s \in Orders : Represents(s)
      BY <2>1 DEF ListInv, IsList
    <3>2. /\ Append(s, id) \in Orders /\ Represents(Append(s, id))'
          /\ \A i \in 1..Len(s) : s[i] # id
      BY <2>2, <3>1, PostAppends DEF ListInv
    <3>3. Waiting = s /\ Waiting' = Append(s, id)
      BY <2>1, <3>1, <3>2, WaitingIs
    <3>4. Abstract!Post(id)
      BY <2>1, <3>2, <3>3 DEF Abstract!Post, Abstract!LineUp, Abstract!IsQueued
    <3>5. QED
      BY <2>1, <3>2, <3>4 DEF ListInv, IsList, Abstract!Next
  <2>3. CASE UNCHANGED list
    BY <2>1, <2>3, ListUnchanged DEF ListInv, Abstract!vars
  <2>4. QED
    BY <1>2, <2>2, <2>3 DEF PostTask
<1>3. CASE RunNextTask
  <2>1. /\ PopTask /\ running = NO_TASK /\ running' = m_head
        /\ pc # "reset" /\ pc' = pc
    BY <1>3 DEF RunNextTask, AtMain
  <2>2. PICK s \in Orders : Represents(s)
    BY <2>1 DEF ListInv, IsList
  <2>3. /\ s # <<>> /\ m_head = Head(s)
        /\ Tail(s) \in Orders /\ Represents(Tail(s))'
    BY <2>1, <2>2, PopTakes DEF ListInv
  <2>4. Waiting = s /\ Waiting' = Tail(s)
    BY <2>1, <2>2, <2>3, WaitingIs
  <2>5. Abstract!Start
    BY <2>1, <2>3, <2>4 DEF Abstract!Start
  <2>6. QED
    BY <2>1, <2>3, <2>5 DEF ListInv, IsList, Abstract!Next
<1>4. CASE TaskDone
  <2>1. pc # "reset" /\ pc' = pc /\ UNCHANGED list /\ running # NO_TASK /\ running' = NO_TASK
    BY <1>4 DEF TaskDone, ListInv, list
  <2>2. IsList' /\ Waiting' = Waiting
    BY <2>1, ListUnchanged
  <2>3. QED
    BY <2>1, <2>2 DEF ListInv, Abstract!Finish, Abstract!Next
<1>5. CASE \/ PlatformInitDone \/ PlatformTasksDone
           \/ SoftwareInitDone \/ SoftwareTasksDone
           \/ BootedDone \/ FindIdle \/ Sleep \/ Resume
           \/ Raise \/ TakeInterrupt \/ HandlerDone
  <2>1. CASE pc = "reset"
    BY <1>5, <2>1, OtherSteps DEF ListInv, Waiting, Abstract!vars
  <2>2. CASE pc # "reset"
    BY <1>5, <2>2, OtherSteps, ListUnchanged DEF ListInv, Abstract!vars
  <2>3. QED
    BY <2>1, <2>2
<1>6. CASE UNCHANGED vars
  <2>1. UNCHANGED <<list, pc, running, inHandler>>
    BY <1>6 DEF vars
  <2>2. CASE pc = "reset"
    BY <2>1, <2>2 DEF ListInv, Waiting, Abstract!vars
  <2>3. CASE pc # "reset"
    BY <2>1, <2>3, ListUnchanged DEF ListInv, Abstract!vars
  <2>4. QED
    BY <2>2, <2>3
<1>7. QED
  BY <1>1, <1>2, <1>3, <1>4, <1>5, <1>6 DEF Next, MainStep

(***************************************************************************)
(* The array of links is the first-come first-served queue of TEP 106: a   *)
(* post lines its task up last or is refused because the task waits, and   *)
(* runNextTask starts the one that has waited longest.                     *)
(***************************************************************************)
THEOREM IsTaskQueue == Spec => ImplementsTaskQueue
<1>1. Init => ListInv /\ Abstract!Init
  <2>1. Init => TypeOK
    <3>1. 0 \in Tasks
      BY TaskIdsFitInAByte DEF Tasks, NO_TASK
    <3>2. QED
      BY <3>1 DEF Init, TypeOK, Places, Booting
  <2>2. QED
    BY <2>1 DEF Init, ListInv, Waiting, Abstract!Init
<1>2. ListInv /\ TypeOK' /\ [Next]_vars => ListInv' /\ [Abstract!Next]_(Abstract!vars)
  BY StepOfTaskQueue
<1>3. QED
  BY <1>1, <1>2, TypeCorrect, PTL DEF Spec, ImplementsTaskQueue, Abstract!Spec
=============================================================================
