# TinyOS: a verification project

TLA+ models of the core of TinyOS: the task scheduler, the resource arbiters and
the power managers, on which everything else stands; the virtualized timers, the
send queue of active messages and application threads; and two network protocols,
dissemination (Drip) and the forwarding engine of collection (CTP). TLC
model-checks them on small instances, and TLAPS proves all of their safety, refinements
included, for every size. The sources are under `src/tos`. Line numbers refer to them.

## 1. The system

TinyOS is a set of nesC components linked into one program. There is one stack.
*Tasks* run to completion, one after the other; *interrupt handlers* ("async"
code) preempt them anywhere outside an `atomic` section. A service that takes
time is split-phase: a command starts it and an event reports it.

| Component | State | Operations | Talks to | Hard part | What makes it correct |
|---|---|---|---|---|---|
| Scheduler and boot (`SchedulerBasicP`, `RealMainP`) | linked list of tasks in a byte array | `postTask`, `runNextTask`, `taskLoop` | every component; `McuSleep` | posts from interrupts, the way into sleep | first come first served, each post runs once and eventually, no sleep on a waiting task |
| Resource queues (`FcfsResourceQueueC`, `RoundRobinResourceQueueC`) | linked list; bit map and last client | `enqueue`, `dequeue`, `isEnqueued`, `isEmpty` | arbiters | byte encodings, wrap-around | answers as a queue or a ring |
| Arbiter (`ArbiterP`) | state, owner, last request | `request`, `immediateRequest`, `release`, `grantedTask`, the default owner's `release` | queue, scheduler, clients, default owner | calls from interrupts between its atomic sections | one owner, fair grants, accepted requests are granted |
| Simple arbiter (`SimpleArbiterP`) | state, owner | the same, without a default owner | queue, scheduler, clients | commands while `granted` is signaled | the same; configured for the owner |
| Power managers (`PowerManagerP`, `Deferred…`, `Async…`, `AsyncDeferred…`) | flags, a timer, two tasks | default-owner events, `startDone`, `stopDone`, `fired` | arbiter, device, timer, scheduler | a request while the device goes down; late timers | on while used, off when idle, no request lost |
| Timers (`VirtualizeTimerC`, alarms, counters) | one record a timer; one hardware timer | start, stop, `fired`, `updateFromTimer` | scheduler, hardware clock | wrapping clocks, timers started in events | no timer early, none starved |
| AM send queue (`AMQueueImplP`) | one packet a client, cancel bits | `send`, `cancel`, `sendDone`, two tasks | radio stack, clients | cancel against completion, refused sends | every accepted packet is reported once |
| Serial stack (`SerialP`, `SerialDispatcherP`, `HdlcTranslateC`) | transmit and receive machines, two rings | bytes, frames, acknowledgements | UART, dispatcher | byte interrupts against tasks, full rings | frames delivered whole, acknowledgements in order |
| Trickle and Drip | interval, counter, version and value a key | timer, send, receive | radio, other nodes | loss, repetition, reordering | all nodes come to the newest value |
| CTP forwarding (`CtpForwardingEngineP`) | queue, two pools, sent cache, flags | send, forward, `sendDone`, retransmit | routing, link, pools | retries against duplicates, limits | no packet or pool entry lost, no loop of work |
| TOSThreads | ready queue, mutexes, condition variables, barriers | block, wake, preempt, stop | scheduler | wake-ups against suspends | mutual exclusion, no lost wake-up |
| CX stack, other protocols, drivers, tools | – | – | – | – | not modelled (section 8) |

Interactions that matter here: an arbiter posts `grantedTask` to the scheduler and
calls its queue; it signals its default owner, which is a power manager; the
manager posts tasks, drives a device and a timer, and lets the arbiter go on by
calling `ResourceDefaultOwner.release`. A virtualized timer is served by tasks and by
one alarm; the thread scheduler is driven by such a timer, and makes the whole of
TinyOS, with its task loop, one of its threads. The forwarding engine sends
through the send queue, and Drip through a trickle timer and a broadcast.

## 2. Modules and how they correspond to the code

| Module | Models |
|---|---|
| `TaskQueue` | the promise of the scheduler (TEP 106); also the scheduler under the arbiters |
| `SchedulerBasicP` | `SchedulerBasicP.nc`, `RealMainP.nc`, the interrupt window of `McuSleep` |
| `SchedulerBasicP_proofs` | proofs about it |
| `SharedResource` | the promise of an arbiter to its clients (TEP 108) |
| `ResourceQueue` | what an arbiter expects of its queue, for both policies |
| `FcfsResourceQueueC`, `RoundRobinResourceQueueC` | the two encodings of the queue |
| `ArbiterP` | `ArbiterP.nc` with its clients, its contexts and the scheduler |
| `UnmanagedArbiter` | `ArbiterP` with its default event handlers |
| `FcfsArbiterC` | that, with the linked list in lock step with the abstract queue |
| `FcfsArbiterC_proofs` | proofs about both |
| `SimpleArbiterP`, `SimpleRoundRobinArbiterC` | `SimpleArbiterP.nc`; with the bit map in lock step |
| `SimpleRoundRobinArbiterC_proofs` | proofs about both |
| `ManagedArbiter` | what the managers share: the build, the device, the client's calls |
| `PowerManagerP`, `DeferredPowerManagerP`, `AsyncPowerManagerP`, `AsyncDeferredPowerManagerP` | the managers |
| `PowerManagers` (`_proofs`) | the four side by side, with their fairness and properties (and proofs) |
| `TimerService` | what the virtualized timers promise (`Timer.nc`, TEP 102) |
| `VirtualizeTimerC` (`_proofs`) | `VirtualizeTimerC.nc` over `AlarmToTimerC.nc`, a clock and an alarm (and proofs) |
| `SendQueue` | what a virtualized sender promises (`Send.nc`, TEP 116) |
| `AMQueueImplP` (`_proofs`) | `AMQueueImplP.nc` over the radio and the scheduler (and proofs) |
| `TinyThreadSchedulerP` | the commands of `TinyThreadSchedulerP.nc`, as operators on its state |
| `TOSThreads` (`_proofs`) | threads that use it: `MutexP`, `ConditionVariableP`, `BarrierP`, `SystemCallP`, `StaticThreadP`, the TinyOS thread and interrupts (and proofs) |
| `Drip` | `DisseminatorP.nc`, `DisseminationEngineImplP.nc`, `TrickleTimerImplP.nc` on each node of a network |
| `CtpForwardingEngineP` | `CtpForwardingEngineP.nc` with `QueueC`, `PoolP` and `LruCtpMsgCacheP` on one node |
| `Net_proofs` | proofs about `CtpForwardingEngineP` and `Drip` |
| `MC*` | constants for TLC, nothing else |

State variables have the names of the code. What is added is named for its
meaning: `pc` and `running` (where `main()` is), `raised` and `inHandler` (the
interrupt system), `holds` and `pending` (what a client has been told), `configured`
(for whom the device is set up), `power` (of the device), `build` (the program). `Net_proofs` extends
two specifications, so those definitions of `Drip` that any has are called `DripInit`, `DripNext`, `DripSpec`
and so on.

**Steps.** An atomic section is one action. A call that goes on after its atomic
section leaves a *frame* in `call[ctx]`, where `ctx` is the main context or an
interrupt handler, so that a handler can come between any two sections; it keeps
the processor until it returns (`Runs`). An operation with several outcomes has an
action for each: `RequestControlled`, `RequestAgain` and `RequestBusy` are the
three branches of `Resource.request`. A call that changes nothing (a request
answered EBUSY, an `immediateRequest` answered FAIL, a refused `release`) is a stutter.
Sections that touch only what no handler touches are merged into one action; the
modules say where.

Timers, send queue, Drip and forwarding engine run in the main context alone, so that an
action there is a whole command, event or task; an interrupt does no more than post a task. The
commands of the thread scheduler are atomic sections that call one another, and so are operators
from one record, `sched`, to the next; a thread suspended in the middle of a call goes on from `pc`.

**Refinements.** `TaskQueue`, `SharedResource`, `TimerService` and `SendQueue` say what clients may
rely on. `AMQueueImplP` and `CtpForwardingEngineP` both implement `SendQueue`: what is pending is
the packet in the queue, or the queue entry that a client has not got back. `VirtualizeTimerC`
implements `TimerService`, liveness included; the map turns `t0` and `dt` on a clock that wraps
into the ticks that are left, which no longer do.

**The lock step.** `QueueCalls` in `FcfsArbiterC` and `SimpleRoundRobinArbiterC`
makes every enqueue or dequeue of the abstract queue in the encoded one too.
A list or map that refused such a call would block the step; the invariants
`ListInStep` and `MapInStep` report the difference in the state before it.

**Environment.** Clients follow TEP 108: a client that waits does not also ask for
an immediate grant, and only an owner releases. The device follows TEP 115: it
starts from off and stops from on, refuses in between, and in some builds fails.
Timers have no clock: one that runs may fire whenever the processor is free, except in
`VirtualizeTimerC`, which is about the clock. There tasks and clients are late by at most
`MaxLag` ticks. Threads unlock what they lock, do not lock a mutex they have, and reset a barrier
when nobody waits at it. In `Drip` the radio accepts every message, and loses them per receiver; a
message heard late is one that is lost, of a sender that repeats itself. In
`CtpForwardingEngineP` the radio refuses a packet when it is off or busy, and nothing else.

Operators marked `Slip:` in the modules are wrong variants of an operation; no
specification uses them. Each shows that a property would notice such a bug.

## 3. What the runs check

All runs are exhaustive and without state constraints. They check for deadlock, except
`threads`, whose application comes to rest when every thread has ended or waits for ever.

| Run | Bounds | States | Shows |
|---|---|---|---|
| `scheduler` | 3 tasks | 742 | `ImplementsTaskQueue`: the list is the queue of TEP 106; `SleepsOnlyWhenIdle`; `EveryPostRuns` |
| `fcfs_arbiter` | 4 clients, requests from tasks and from a handler | 656 | `HolderOnRecord`, `ImplementsSharedResource`, `NoOvertaking`, `EveryRequestGranted`, and the linked list (`ListInStep`) |
| `simple_rr_arbiter` | 4 clients, bytes of 2 bits, next turns asked for by the owner | 1,556 | `ConfiguredForOwner`, `ImplementsSharedResource`, `EveryRequestGranted`, and the bit map (`MapInStep`) |
| `power_managers` | 3 clients, 16 builds | 21,942 | `PoweredUnlessStartFails`, `PromisesKept`, `TimerOnlyWhenFree`, `StartsNotWhileStopping`, `PoweredDownWhenIdle`, `RequestsAreServed` |
| `am_queue` | 3 clients, 3 packets | 50,119 | `ImplementsSendQueue`, `NoSecondTurn`, `EveryPacketReported` |
| `threads` | 3 threads, a mutex, a condition, a barrier | 99,954 | `OneHolder`, `NoThreadStranded`, `CallsOneAtATime`, `ReadyThreadsRun` |
| `virtual_timers` | 2 timers, clock of 8 ticks, delays 1 and 2, tasks late by 2 | 61,672 | `ImplementsTimerService`, `AlarmInTime` |
| `drip` | 3 nodes in a line, 2 changes, counter of 8 values, 3 ids | 46,814 | `Converges`, `OneValueAVersion` |
| `ctp_forwarding` | 1 client, 2 entries, 2 packets to forward, cache of 1, 2 tries | 85,761 | `BuffersAccounted`, `EveryPacketReportedOnce` |
| `next_turn` | 2 clients | | finding 1 |
| `async_deferred_cut` | 2 clients, one build | | finding 2 |
| `lost_wakeup` | 2 clients, one build | | finding 3 |

Why the bounds suffice. *Three tasks* give a list with a head, a middle and a tail,
and a task behind the one that runs. *Four clients* give an owner and a queue of
three, so the list has a middle; with *two bits a byte* the map has two bytes,
and the scan crosses their border and wraps around. *Three clients* under a manager
give one that holds, one that is granted next and one more in the queue; the managers
do not look at clients otherwise. One handler at a time is what the code has: handlers do not nest.
The sixteen builds are both kinds of device with and without requests from handlers,
for each manager that has a choice, and the failing devices: a start that fails with
requests from tasks, and everything that can fail with requests from handlers.
*Three clients* of the send queue give one that is sent and two that wait, which is
what passing and the scan around the ring need. *Three threads* give one that holds, one that was
handed the mutex and one that comes in between; what each calls is fixed in `Code`, so that each
primitive is called by threads that also end, or are stopped, or block elsewhere. *A clock of
eight ticks* wraps in a few steps, and half of it is more than the longest delay and lag together,
as 2^31 ms is in practice. *Three nodes in a line* make two that hear each other only
through the third, which has the id 0, has just booted, and is stopped and started again; either end
may change the variable twice, or each once, and the counter wraps in the first change.
*Two queue entries* let a packet wait behind another of which it might be a copy; *a cache of
one* forgets what was sent before last, and *two tries* give a retry and a drop.
Type invariants are in the same runs, one for each specification.

Some properties leave out builds, because the code breaks them there and section 5
tells how: `PoweredUnlessStartFails` leaves out a device whose start fails, and the
asynchronous deferred manager; `RequestsAreServed` leaves out `MayLoseRequests`.
Everywhere else they hold, also under requests from a handler at any point.

## 4. Fairness, and why the code justifies it

* `SF(MainStep)` (scheduler), `SF(RunNextTask)` and `SF(Continue("main") \/ Grant)`
  (arbiters, managers): `main()` is disabled while a handler runs. TinyOS assumes
  that interrupts leave it the processor again and again; a task runs to completion.
* `WF` on handlers, and on taking a latched interrupt: handlers return, and the
  processor takes an interrupt when they are enabled.
* `SF(Release("main", c))`: a client that has the resource releases it
  (`Resource.nc:78-79`: "You must call release() when you are done with it"). Without
  this no arbiter can promise anything. No fairness makes a client *ask*.
* `SF(DeviceCompletes)` and `SF(TimerFires)`: a device that accepted a start or stop
  reports its completion (`SplitControl.nc:91-97`), and a timer that is not stopped again and
  again fires.

* `am_queue`: tasks run, and a radio signals `sendDone` (`AMSend.nc:64-66`).
* `threads`: the processor goes on, TinyOS comes to the end of its tasks again and again, and the
  clock interrupts. *Nothing* makes an application thread yield: `ReadyThreadsRun` holds by
  preemption alone.
* `virtual_timers`: time goes on and tasks run. No lateness of a task is for ever, by `MaxLag`.
* `drip`: a trickle timer fires unsuppressed again and again, as it picks its time at random; a
  broadcast repeated for ever is heard by each neighbour again and again. `Converges` asks nothing
  unless every node is up for good from some time on.
* `ctp_forwarding`: the timer fires, tasks run, the radio completes what it takes and does not fail for
  ever. A route that is *missing* comes back while the radio is on (`RouteReturns`), signaled by `routeFound`
  or, when it replaces an evicted parent at once, by nothing (`CtpRoutingEngineP.nc:372-383`); and again and again radio and
  route last until the timer fires or `sendTask` sends. Nothing signals while there is a route: a
  packet that then waits is sent only because the engine itself posted `sendTask` or started its timer.

A `SF` instead of a `WF` never claims more than that the main context gets the
processor: what disables these actions is a handler, or another task.

## 5. Where the code and its documents differ

Findings with a run:

1. **The owner's request for its next turn is lost** (`ArbiterP.nc:84-86`, run
   `next_turn`). `reqResId` names the client granted last as long as nobody else is;
   its next request answers SUCCESS without being queued. `Resource.nc:82-84`
   promises a `granted` event. `SimpleArbiterP` queues it.
2. **A device powered down under its owner** (`AsyncDeferredPowerManagerP.nc:81-84`,
   104-109, run `async_deferred_cut`). A release posts `timerTask` while the `stopTimerTask`
   of the request before it still waits; the next request finds that one posted. They run
   in the wrong order for it, and the timer runs while the client holds the resource.
   The other order of things loses the power-down: `timerTask` that finds `stopTimer` set
   never starts the timer.
3. **A lost wake-up** (`PowerManagerP.nc:112-121`, run `lost_wakeup`). A request from a
   handler between the test of `requested` and the section that clears it is
   erased, and the arbiter waits for ever for its default owner.

Met while modelling, and left to this description:

* `SimpleArbiterP.nc:70-81`: a client that repeats its request while it is *being*
  granted is queued a second time; TEP 108 (`tep108.txt:220-222`) says that it gets EBUSY and
  is not queued. `ArbiterP` answers SUCCESS in that case and does not queue. Clients that
  repeat requests are left out of the simple arbiter's model.
* `PowerManagerP.nc:102-105`, `DeferredPowerManagerP.nc:110-112`: `startDone` ignores its
  error, so the client of a device that failed to start is granted a device that is
  off. `startTask` and `stopTask` ignore a call of `SplitControl` that fails: then no
  event follows, and the request, or every later one (`stopping` stays TRUE), is lost.
* `ArbiterP.nc:102-108` under a manager that ignores `immediateRequested`
  (`PowerManagerP`, `DeferredPowerManagerP`): requests queued by a handler while the state is
  `RES_IMM_GRANTING` are left in the queue when it is set back to `RES_CONTROLLED`, until
  another client happens to request and release.
* `VirtualizeTimerC.nc:102-105` claims delays up to MAXINT; `min_remaining` starts at 2^31 - 1
  and `<` at line 122 then leaves a timer with that delay unset. One with a longer delay is late at
  once. A timer that its client restarts in the past for ever starves those of higher number (93).
  `AlarmToTimerC.nc:71-82`: a timer stopped after its alarm fired and before the task still
  fires, which `Timer.nc:75-78` excludes; `VirtualizeTimerC` above it is not disturbed.
* `MutexP.nc:71-74` hands a mutex over without counting it for the new holder: `stopThread`, which
  is to fail for a thread with a mutex (`tep134.txt:422-427`), may stop it, and the mutex stays
  locked. `StaticThreadP.nc:51-71`: `Thread.start` of a thread that runs resets its record, and then
  fails. `BarrierP.nc:64` leaves the count at 1 after the barrier opened, so it stays open until it is reset.
  A task that a thread posts waits for the next interrupt (`TOSThreadsInterruptP.nc:52-57`).
* `DisseminatorP.nc:92-96`: the test that keeps a new version from being `DISSEMINATION_SEQNO_UNKNOWN` (94) comes before
  the shift, where the number is never 0. On a node with `TOS_NODE_ID` 0 a change at the counter's last value, 0xFFFF,
  gives 0x10000 << 16 = 0, Unknown: the change reaches nobody, the node takes the next version it hears, an older one too,
  and may later give its new values the numbers of old ones. The model's `NextSeqno` does this, too; with `Changers` {0},
  `Converges` fails from the top of the counter, and `OneValueAVersion` from two changes below it. The run and the
  theorem leave that one case out: node 0 is in the network, and does not change the variable as its counter wraps.
* `DisseminationEngineImplP.nc:157`: after a send that is refused `m_bufBusy` stays set and the
  node is silent from then on. Two versions exactly 2^31 apart are each older than the other (202).
  A node that reboots forgets its counter and may use a sequence number again.
  `TrickleTimer.nc:71-72` says that stopping resets the counter, `TrickleTimerImplP.nc:119-124` does not.
* `CtpForwardingEngineP.nc`: `send` posts `sendTask` while the retransmission timer runs, against
  the comment at 284-292; `sendDone` is SUCCESS for a packet dropped after its last try (489);
  `send` rewrites the header of the message before it answers EBUSY (302-311), and the
  message may be the one in flight. `ACK_PENDING` is never cleared (443, 540): a node that becomes root after
  it has sent takes its own loopback packets for unacknowledged and receives each up to 30 times. A node
  that becomes root while the radio has its packet and the timer runs frees that packet
  (744-746, 425-437): "while sending, the packet being sent is at the head of the queue" (367-368) fails
  there, and `SetRoot` in the model waits for the radio.

## 6. What is proved

TLAPS checks 11,783 obligations. Every invariant and every safety or action property that a passing run checks
is a theorem: for every value of the constants that the assumptions allow, and, where the table says so,
under a hypothesis.

| Module | Theorems about what a run checks | Assumed of the constants |
|---|---|---|
| `SchedulerBasicP_proofs` | `TypeCorrect`, `NoTaskSleptOver` (`SleepsOnlyWhenIdle`), `IsTaskQueue` (`ImplementsTaskQueue`) | `NUM_TASKS` in 1..255: ids are bytes, 255 is `NO_TASK` |
| `FcfsArbiterC_proofs` | `TypeCorrect`, `HolderStaysOnRecord`, `IsSharedResource`\*, `NobodyIsOvertaken`\*†, `ListStaysInStep`† | clients fit in a byte; either policy; any requesting contexts |
| `SimpleRoundRobinArbiterC_proofs` | `TypeCorrect`, `OwnerIsConfigured`, `IsSharedResource`, `MapStaysInStep`† | clients fit in a byte; bytes of any width |
| `PowerManagers_proofs` | `TypeCorrect`, `PromisesAreKept`\*, `IsPoweredWhileHeld` (`PoweredUnlessStartFails`), `TimerIsNeverBehindAHolder` (`TimerOnlyWhenFree`), `NeverStartsWhileStopping` | the same, and any set of builds |
| `AMQueueImplP_proofs` | `TypeCorrect`, `Implements` (`ImplementsSendQueue`), `FairShare` (`NoSecondTurn`) | 1..255 clients, any packets |
| `VirtualizeTimerC_proofs` | `TypeCorrect`, `AlarmIsInTime`, `IsTimerService` (the safety of `ImplementsTimerService`) | the clock wraps at an even number; a delay is at least 1 and below the largest signed value, and a start in the past and the lag together do not exceed that value |
| `TOSThreads_proofs` | `TypeCorrect`, `MutexIsExclusive` (`OneHolder`), `CallsAreOneAtATime`, `NobodyIsStranded` (`NoThreadStranded`) | finitely many threads, whatever each calls; a barrier of 1..255 |
| `Net_proofs` | `CtpTypeCorrect`, `BuffersAreAccounted`, `IsSendQueue` (the safety of `EveryPacketReportedOnce`); `DripTypeCorrect`, `VersionsNameOneValue`‡ (`OneValueAVersion`) | CTP: one buffer more than entries, a cache and tries of at least 1, names that differ. Drip: any nodes, the id 0 among them, any links, a counter with an even number of values above 2, any number of changes |

\* for clients that do not ask for their next turn while they have the resource, `~ RequestWhileOwner`: with them the
arbiter breaks its promise, which is finding 1.
† for the policy that the queue implements: first come first served for the list and the order of grants, round robin for the map.
‡ under `NumbersSuffice`: fewer changes than half the counter has values, counted from when all had one version; a node
that has just booted makes none, unless all have; node 0 makes none that wraps the counter (section 5). Without the
first, versions may lie so far apart that the older one passes for newer; without the second, a node starts its count anew.

The arguments, and the invariants they need:

*Scheduler.* `TypeCorrect` is inductive as it stands; it says that
the array is only ever indexed with a task. `NoTaskSleptOver` is not: at `pc = "asleep"` a
post would break it, and so would one just before. `SleepInv` adds that `main()` is at
`"idle"` only with no task running, no handler on top of it and an empty queue, and then
`CodeRuns` is false, so nobody can post; after the sleep instruction only a handler can, and
then the property asks nothing until it has returned, which moves `main()` to `"woken"`.
`IsTaskQueue` needs `ListInv`: from the reset on, `m_head`, `m_next` and `m_tail` represent one order of distinct tasks,
and only one. `Waiting`, which the refinement puts for the queue, chooses that order; that there is no second one follows from the smallest
place where two would differ (`SameList`).
A post appends to the order (`PostAppends`) and `popTask` takes its first (`PopTakes`), so that they are the steps of `TaskQueue`.

*Arbiter.* The goal is `HolderOnRecord`, and from it
`MutualExclusion`. Neither is inductive: `granted` may hand the resource over only if the
owner on record has not changed since `grantedTask` was posted, perhaps long before. The
invariant `GrantInv` says that a grant is decided in one place at a time: a context asking the
default owner (`DecidingInv`, `OneDecides`), then the posted `grantedTask` (`GrantDueInv`), then
`grantedTask` past its atomic section (`GrantingInv`), then the client; and what state, owner and
last request are in each. It needs that a task is queued at most once
(`NoTaskTwice`), which is the scheduler's promise. The proof has a lemma for each action
(`RequestKeepsIInv`, `ReleaseKeepsIInv`, ...), over lemmas about the queue: in
particular `NextPlaceIsPlace`, that round robin always finds a next client in a queue that is not
empty, from the well-ordering of the natural numbers. `IInv` there is `GrantInv` regrouped
for the provers (`IInvIsGrantInv`).
The promises need two invariants more. `ServedInv`: nobody waits for an idle resource, who was served is out of the
queue, and what is in use is with `reqResId` or on its way there. `PendingInv`: what a client was promised is its
place in the queue, or `reqResId` in a grant under way. With them every step is one of `SharedResource`,
and the line that `NoOvertaking` follows is the queue behind `reqResId`.
`ListStaysInStep` is about `FcfsSpec`, with the linked list beside the queue: `ListInv` says that the links visit the
clients in the queue's order, so no call that the queue accepts is refused by the list.

*Simple arbiter.* The invariant joins state, owner and the places of the grant (`ArbiterInv`, `HoldsInv`,
`PendingInv`) with `ConfiguredInv`: the device is set up for the owner exactly while the state is busy. For the bit map,
`MapInv`: the bits that are set are those of clients in the queue, each in the byte `c \div BITS`. That the scan over
bytes, which wraps around, finds the client that the ring finds, is an argument about distances
around the ring, for every width.

*Power managers.* The first half is about the arbiter: each step of a manager does to it one of a few things
(post a task, answer with `release`, be busy in an event), and each keeps `IInv`, which is `GrantInv` with the
places where a manager may be asked. `ManagedInvariant` then holds with any of the four and any device.
`PromiseInv` adds what `PromisesKept` needs. The other half is an invariant for each manager about the device.
`StartInv`: a request is a token, which is with the context that signals it, or in `startTask`, or in the device, or in
`startDone`, or noted in `requested`, in one of these only, and the arbiter waits for it. `StopInv`: `PowerManagerP`'s
device is on while the resource is in use, and goes off between a release and the end of `stopDone`. `TimerInv`:
while the resource is in use or the device changes, the timer neither runs nor is about to be started, and a timer that
fires ahead of `startTask` finds `stopTimer` set. `OnInv` and `AsyncInv`: the device is on for its user under
`DeferredPowerManagerP` and `AsyncPowerManagerP`. `AsyncDeferredPowerManagerP` has none; it is finding 2.

*Send queue.* `QueueInv` is needed for the first two theorems: a
sendDone may take `queue[current]` for granted only because the packet is in the radio or an `errorTask`, and one
only, will report it, and because a packet that is current is never marked in `cancelMask`. `FairShare` needs `TurnInv`:
nothing waits while `current` is `NumClients`, and a client that has had its turn since `c` asked is farther along the ring
than `c` (`PassedAreBehind`). That `nextPacket` keeps this comes down to `DistanceFromNext`: when the
radio goes to the nearest client, the others keep their order as seen from it.

*Virtual timers.* Times wrap, so nothing can be said of `now - t0` unless it is known to be small. `TimersKeepUp` and
`AlarmKeepsUp` say that no timer and no alarm is later than the processor has lagged behind; as a delay and a lateness are
each below half of the clock, a difference modulo `Wrap` is then what it seems (`LeftOf`). With `AlarmInTime`, that the alarm is
set no later than the first timer is due, these are inductive. `IsTimerService` follows: the ticks left
of each timer, computed from `t0` and `dt`, count down, and no `fired` comes early.

*Threads.* The scheduler's commands are reduced first to what each does to the sets of runnable, suspended and
inactive threads. The invariant, which TLC confirms on the run's instance, says then: each suspended thread is in one
line, that of the call it made, and each line has no others (`Lines`, `Joins`, `Calling`); the mutex is locked for
one thread, inside it or handed it while suspended (`Holding`); between two calls TinyOS does not wait for the
processor, and the processor sleeps only if nobody does (`Settled`). `NobodyIsStranded` reads off that a
suspended thread is where its wake-up will look for it. `Rules` is about `stopThread`: who may be stopped holds nothing.

*Forwarding engine.* `BuffersAccounted` is kept because what returns to a pool always finds room: what is in a pool, in the queue
and in the radio are sets that do not meet, and of a fixed total. It needs that an entry in the
queue has been filled in (`FilledIn`), and that a root has given the radio nothing (`RootIsQuiet`), so that what `sendTask`
completes there is not in the radio. In `IsSendQueue` the client's packet is pending while its entry is away, in `clientPtrs`
or not, so that a retry is a stutter and a drop is a completion.

*Drip.* `DripTypeOK` is inductive as it stands, since a sequence number wraps (`NextNumber`). `OneValueAVersion` is not: a client
makes a number from that of its node, and the number is new only if no version that it made before is ahead of
the one its node has now. `DripIInv`, which TLC confirms on the run's instance and on others, says so of all versions that
nodes have or that wait in a buffer. How far a version is `Ahead` counts the changes since all had one
version; it is no more than the changes made. A change goes one further (`ChangeGoesAhead`). What a node
takes from another is never further behind (`BehindIsNotNewer`): the signed difference of two numbers has the
sign of the difference of their counters, whatever their ids and though the counter wrapped between the two, as long as they are less
than half the numbers apart.

## 7. What is only model-checked

Liveness under fairness is out of the prover's reach: `EveryPostRuns`, `EveryRequestGranted`, `PoweredDownWhenIdle`,
`RequestsAreServed`, `EveryPacketReported`, `ReadyThreadsRun`, `Converges`, and in `ImplementsTimerService` and
`EveryPacketReportedOnce` the half that something happens. TLC checks them on the instances of section 3. The three runs
of section 5's findings are counterexamples, which TLC shows.

## 8. Not modelled, and why

* `ResourceRequested`, signaled before a request does anything: an owner that releases in
  that event is a `Release` before the `Request`. The queries `isOwner`, `inUse`, `userId` change nothing.
* The time a timer takes, outside `VirtualizeTimerC`; the power states of the processor; `DEBUG_TASK` pins.
* `VirtualizeAlarmC`, `TransformAlarmC` and `TransformCounterC`: arithmetic on clocks of other widths.
* Threads: `pause` and `resume`, semaphores, dynamic threads, blocking resources, `TOSTHREADS_TIMER_OPTIMIZATION`;
  stacks and context switches, which are assembly.
* Drip: probes, which ask for a version and change none; several variables over one buffer; the lengths of trickle
  intervals, and with them the arithmetic of `adjustTimer` and `generateTime`.
* CTP: packets that are too long, `StdControl.stop`, congestion bits, snooping, the link estimator and the routing engine.
* `InfiniteRetryPowerManagerP.nc` declares a component of another name and cannot be wired;
  `FcfsPriorityArbiterC` is written for older interfaces and nothing wires it; `NoArbiterC` has no state.
* The serial stack: planned.
* The CX stack (`lib/cx`, `lib/cxl`) depends on radio timing to the symbol. Dip, DHV, BLIP, FTSP, radio
  stacks, flash drivers, applications, build files and host tools: outside the core.

## 9. Plan

Done: the modules of section 2, in that order. Next:

1. `SerialP` with `SerialDispatcherP`: framing and acknowledgements by byte interrupts against tasks.
2. `TrickleTimerImplP` with its intervals: no interval is charged for time before it began.
3. The CTP routing engine on several nodes: loops that are seen and resolved.

Proofs to write: those of the three modules above, as they come. The arithmetic of a trickle interval on a clock
that wraps can build on the lemmas of `VirtualizeTimerC_proofs`.
