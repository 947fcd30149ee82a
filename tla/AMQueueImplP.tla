---------------------------- MODULE AMQueueImplP ----------------------------
(***************************************************************************)
(* The fair-share send queue of active messages, tos/system/AMQueueImplP:  *)
(* one packet a client, over a radio that takes one packet at a time, and  *)
(* may refuse any.  All of it runs in the main context, so a task is one   *)
(* action up to the sendDone it signals; what a handler of sendDone calls  *)
(* is a call that comes next.  Only CancelTask goes on after a sendDone:   *)
(* while it runs, clients call from the handler it has just signaled.      *)
(*                                                                         *)
(* A send the radio refuses at once (90-114) returns the error and leaves  *)
(* everything as it was; a send answered EBUSY and a cancel answered FAIL  *)
(* change nothing.  The three are stutters.  The radio reports only what   *)
(* it accepted; reports of other packets are ignored by the code, 195-204. *)
(***************************************************************************)
EXTENDS Naturals, Sequences

CONSTANTS NumClients, Packets, NoPacket, NoTask

Clients == 0 .. NumClients - 1
Tasks == {"CancelTask", "errorTask"}

ASSUME NumClientsAssumption == NumClients \in 1..255
ASSUME NoPacketAssumption == NoPacket \notin Packets
ASSUME NoTaskAssumption == NoTask \notin Tasks

VARIABLES
    current,     \* the client whose packet is being sent, or NumClients
    queue,       \* queue[c]: the packet of client c, or NoPacket
    cancelMask,  \* the clients whose waiting packet is cancelled
    scan,        \* the client CancelTask looks at next; 0 when it has not begun
    tasks, running,  \* the scheduler: posted tasks, and the one that runs
    air,         \* the packet the radio has, or NoPacket
    airCancelled,  \* its cancel returned SUCCESS
    report,      \* the last sendDone: its client, packet and error
    passedBy     \* history: the clients sent since the packet of c was accepted

queueVars == <<current, queue, cancelMask>>
radioVars == <<air, airCancelled>>
taskVars == <<tasks, running, scan>>
vars == <<queueVars, radioVars, taskVars, report, passedBy>>

Scheduler == INSTANCE TaskQueue WITH queue <- tasks

\* A post of a task that waits already changes nothing.
PostTask(t) == Scheduler!LineUp(t) \/ (Scheduler!IsQueued(t) /\ UNCHANGED tasks)

Init ==
    /\ current = NumClients
    /\ queue = [c \in Clients |-> NoPacket]
    /\ cancelMask = {}
    /\ scan = 0
    /\ tasks = <<>>
    /\ running = NoTask
    /\ air = NoPacket
    /\ airCancelled = FALSE
    /\ report = <<>>
    /\ passedBy = [c \in Clients |-> {}]

Waiting(c) == queue[c] # NoPacket /\ c \notin cancelMask /\ c # current
InUse(p) == \E c \in Clients : queue[c] = p

\* Client code runs in tasks of its own, or in the sendDone CancelTask signaled.
CanCall == running = NoTask \/ (running = "CancelTask" /\ scan # 0)

\* Client d goes to the radio; those that wait in q see it pass.
Passes(d, q) ==
    passedBy' = [c \in Clients |->
                    IF q[c] = NoPacket \/ c = d THEN {} ELSE passedBy[c] \cup {d}]

-----------------------------------------------------------------------------
\* Send.send of a client while another packet is being sent.
SendQueued(c, p) ==
    /\ CanCall
    /\ queue[c] = NoPacket /\ ~ InUse(p)
    /\ current # NumClients
    /\ queue' = [queue EXCEPT ![c] = p]
    /\ UNCHANGED <<current, cancelMask, taskVars, radioVars, report, passedBy>>

\* Send.send while none is: the packet goes to the radio, which takes it.
SendDirect(c, p) ==
    /\ CanCall
    /\ queue[c] = NoPacket /\ ~ InUse(p)
    /\ current = NumClients
    /\ queue' = [queue EXCEPT ![c] = p]
    /\ current' = c
    /\ air' = p /\ airCancelled' = FALSE
    /\ Passes(c, queue')
    /\ UNCHANGED <<cancelMask, taskVars, report>>

-----------------------------------------------------------------------------
\* Slip: every cancel marks the packet, the one that is being sent as well.
CancelQueuedAny(c) ==
    /\ CanCall
    /\ queue[c] # NoPacket
    /\ cancelMask' = cancelMask \cup {c}
    /\ PostTask("CancelTask")
    /\ UNCHANGED <<current, queue, running, scan, radioVars, report, passedBy>>

\* Send.cancel of a packet that waits; it stays in the queue until CancelTask runs.
CancelQueued(c) ==
    /\ CanCall
    /\ queue[c] # NoPacket /\ current # c
    /\ cancelMask' = cancelMask \cup {c}
    /\ PostTask("CancelTask")
    /\ UNCHANGED <<current, queue, running, scan, radioVars, report, passedBy>>

\* Send.cancel of the packet the radio has, when AMSend.cancel returns SUCCESS.
CancelCurrent(c) ==
    /\ CanCall
    /\ queue[c] # NoPacket /\ current = c
    /\ air = queue[c]
    /\ airCancelled' = TRUE
    /\ UNCHANGED <<queueVars, air, taskVars, report, passedBy>>

-----------------------------------------------------------------------------
\* The steps from one client to another around the ring.
Distance(from, to) == (to + NumClients - from - 1) % NumClients

FirstAfterCurrent(S) ==
    IF S = {} THEN NumClients
    ELSE CHOOSE c \in S : \A d \in S : Distance(current, c) <= Distance(current, d)

Sendable(q) == {c \in Clients : q[c] # NoPacket /\ c \notin cancelMask}

\* Slip: a cancelled packet is sent if CancelTask has not yet taken it out.
nextPacketCancelled(q) == FirstAfterCurrent({c \in Clients : q[c] # NoPacket})

\* Slip: the search starts from the first client each time.
nextPacketLowest(q) ==
    IF Sendable(q) = {} THEN NumClients
    ELSE CHOOSE c \in Sendable(q) : \A d \in Sendable(q) : c <= d

\* The first client after the current one with a packet that is not cancelled.
nextPacket(q) == FirstAfterCurrent(Sendable(q))

\* Slip: a packet the radio refuses is left for the next sendDone.
tryToSendOnce(q) ==
    LET next == nextPacket(q)
    IN  /\ current' = next
        /\ airCancelled' = FALSE
        /\ \/ next = NumClients /\ air' = NoPacket /\ UNCHANGED passedBy
           \/ next # NumClients /\ air' \in {q[next], NoPacket} /\ Passes(next, q)
        /\ UNCHANGED tasks

\* The next packet goes to the radio; if it refuses, errorTask reports that later.
tryToSend(q) ==
    LET next == nextPacket(q)
    IN  /\ current' = next
        /\ airCancelled' = FALSE
        /\ \/ next = NumClients /\ air' = NoPacket /\ UNCHANGED <<tasks, passedBy>>
           \/ next # NumClients /\ air' = q[next] /\ Passes(next, q) /\ UNCHANGED tasks
           \/ next # NumClients /\ air' = NoPacket /\ Passes(next, q) /\ PostTask("errorTask")

\* The packet of the current client leaves the queue, the next one is sent, and
\* then the client is told.
sendDone(err) ==
    LET rest == [queue EXCEPT ![current] = NoPacket]
    IN  /\ queue' = rest
        /\ tryToSend(rest)
        /\ report' = <<current, queue[current], err>>
        /\ UNCHANGED <<cancelMask, scan>>

\* AMSend.sendDone from the radio.
RadioSendDone ==
    /\ running = NoTask
    /\ air # NoPacket
    /\ current # NumClients /\ queue[current] = air
    /\ \E err \in (IF airCancelled THEN {"ECANCEL"} ELSE {"SUCCESS", "FAIL"}) : sendDone(err)
    /\ UNCHANGED running

errorTask ==
    /\ running = "errorTask"
    /\ running' = NoTask
    /\ sendDone("FAIL")

-----------------------------------------------------------------------------
\* The first cancelled packet that CancelTask has not passed.
NextCancelled(c) ==
    /\ c \in cancelMask /\ scan <= c
    /\ \A d \in cancelMask : scan <= d => c <= d

\* The packet leaves the queue, and its client is told.
CancelTaskReports ==
    /\ running = "CancelTask"
    /\ \E c \in Clients :
          /\ NextCancelled(c)
          /\ queue' = [queue EXCEPT ![c] = NoPacket]
          /\ cancelMask' = cancelMask \ {c}
          /\ report' = <<c, queue[c], "ECANCEL">>
          /\ passedBy' = [passedBy EXCEPT ![c] = {}]
          /\ scan' = c + 1
    /\ UNCHANGED <<current, radioVars, tasks, running>>

CancelTaskEnds ==
    /\ running = "CancelTask"
    /\ \A c \in Clients : ~ NextCancelled(c)
    /\ running' = NoTask /\ scan' = 0
    /\ UNCHANGED <<queueVars, radioVars, tasks, report, passedBy>>

RunNextTask ==
    /\ Scheduler!Start
    /\ UNCHANGED <<queueVars, radioVars, scan, report, passedBy>>

-----------------------------------------------------------------------------
ClientCall(c) ==
    \/ \E p \in Packets : SendQueued(c, p) \/ SendDirect(c, p)
    \/ CancelQueued(c)
    \/ CancelCurrent(c)

TaskStep == errorTask \/ CancelTaskReports \/ CancelTaskEnds

Next ==
    \/ \E c \in Clients : ClientCall(c)
    \/ RadioSendDone
    \/ RunNextTask
    \/ TaskStep

Spec == Init /\ [][Next]_vars

(***************************************************************************)
(* Tasks run, and to completion; a radio that accepted a packet signals    *)
(* sendDone (AMSend.nc:64-66).  The last is strong fairness because the    *)
(* event waits for the task that runs.  Nothing makes a client call.       *)
(***************************************************************************)
Fairness == WF_vars(RunNextTask) /\ WF_vars(TaskStep) /\ SF_vars(RadioSendDone)

FairSpec == Spec /\ Fairness

-----------------------------------------------------------------------------
TypeOK ==
    /\ current \in 0..NumClients
    /\ queue \in [Clients -> Packets \cup {NoPacket}]
    /\ cancelMask \subseteq {c \in Clients : queue[c] # NoPacket}
    /\ scan \in 0..NumClients
    /\ tasks \in Seq(Tasks)
    /\ running \in Tasks \cup {NoTask}
    /\ air \in Packets \cup {NoPacket}
    /\ airCancelled \in BOOLEAN
    /\ report = <<>> \/ report \in Clients \X Packets \X {"SUCCESS", "FAIL", "ECANCEL"}
    /\ passedBy \in [Clients -> SUBSET Clients]

(***************************************************************************)
(* What keeps the promises, as an inductive invariant.  A task is queued   *)
(* once; the current packet is in the queue and not cancelled, and it is   *)
(* either in the radio or refused with errorTask to report it.             *)
(***************************************************************************)
NoTaskTwice == \A i, j \in 1..Len(tasks) : tasks[i] = tasks[j] => i = j

ErrorQueued == Scheduler!IsQueued("errorTask")
ErrorDue == running = "errorTask" \/ ErrorQueued

CurrentIsQueued ==
    current # NumClients => queue[current] # NoPacket /\ current \notin cancelMask

RadioHasCurrent ==
    /\ air # NoPacket => current # NumClients /\ air = queue[current]
    /\ airCancelled => air # NoPacket

ErrorIsCurrent ==
    /\ ErrorDue => current # NumClients /\ air = NoPacket
    /\ running = "errorTask" => ~ ErrorQueued

QueueInv ==
    /\ TypeOK
    /\ NoTaskTwice
    /\ CurrentIsQueued
    /\ RadioHasCurrent
    /\ ErrorIsCurrent

(***************************************************************************)
(* And why turns are fair: nothing waits while the radio is free, and the  *)
(* clients that a waiting one has let pass are behind it in the ring.      *)
(***************************************************************************)
PassedAreBehind ==
    \A c, d \in Clients :
        Waiting(c) /\ d \in passedBy[c] => Distance(current, c) < Distance(current, d)

TurnInv ==
    /\ current = NumClients => Sendable(queue) = {}
    /\ \A c \in Clients : queue[c] = NoPacket \/ c = current => passedBy[c] = {}
    /\ PassedAreBehind

(***************************************************************************)
(* The queue keeps the promise of the interface: an accepted packet is     *)
(* reported once, with ECANCEL if and only if it was cancelled, whether    *)
(* the cancel met the packet in the radio, in the queue, or behind a       *)
(* CancelTask that was posted for another (AMQueueImplP.nc:126-205).       *)
(***************************************************************************)
Abstract == INSTANCE SendQueue WITH
    pending <- queue,
    cancelled <- cancelMask \cup (IF airCancelled THEN {current} ELSE {})

ImplementsSendQueue == Abstract!Spec

(***************************************************************************)
(* The queue is fair (TEP 116: "each client with outstanding packets       *)
(* receives a reasonable approximation of an equal share"): no client is   *)
(* given the radio twice while the packet of another waits, whatever is    *)
(* sent, refused or cancelled meanwhile (AMQueueImplP.nc:65-79, 163-187).  *)
(***************************************************************************)
NoSecondTurn ==
    [][\A c, d \in Clients :
          Waiting(c) /\ d \in passedBy[c] => ~ (current' = d /\ current # d)]_vars

(***************************************************************************)
(* Every accepted packet is reported (Send.nc:60-61: "the component will   *)
(* signal the sendDone event in the future"), also when the radio refuses  *)
(* it in the queue: each refusal is reported by an errorTask, and that     *)
(* starts the next packet (AMQueueImplP.nc:169-187).                       *)
(***************************************************************************)
EveryPacketReported ==
    \A c \in Clients : queue[c] # NoPacket ~> queue[c] = NoPacket
=============================================================================
