-------------------------------- MODULE Drip --------------------------------
(***************************************************************************)
(* Dissemination of one variable, tos/lib/net/drip: on each node the       *)
(* DisseminatorP of the variable, the DisseminationEngineImplP that sends  *)
(* and receives for it, and its TrickleTimerImplP, over a broadcast that   *)
(* loses messages.  TEP 118 describes the service.                         *)
(*                                                                         *)
(* A value is known by the update that made it: the first is 1, and 0 was  *)
(* there before.  A trickle timer fires at any time: the length of its     *)
(* period is left out, and with it all that only makes it longer or        *)
(* shorter.                                                                *)
(*                                                                         *)
(* The network has been at work for a while: every node has the version    *)
(* Agreed, or has just booted.  The radio takes every message it is given: *)
(* the engine ignores what AMSend.send returns, and after a send that      *)
(* fails m_bufBusy stays TRUE (DisseminationEngineImplP:157).              *)
(*                                                                         *)
(* What every specification has is called DripInit, DripSpec and so on:    *)
(* Net_proofs extends this module together with CtpForwardingEngineP.      *)
(***************************************************************************)
EXTENDS Integers

CONSTANTS Nodes,       \* their TOS_NODE_IDs
          Links,       \* the pairs <<n, m>> where m may hear n
          Changers,    \* the nodes whose clients change the variable
          Updates,     \* a bound on how often they all do
          Restarting,  \* those where dissemination is stopped and started again
          Counters,    \* the values of the upper half of a seqno: 2^16 in the code
          Ids,         \* those of the lower half: 2^16 in the code
          Agreed,      \* a seqno
          Newcomers    \* the nodes that have just booted, and have no version

Unknown == 0   \* DISSEMINATION_SEQNO_UNKNOWN

Seqnos == 0..Counters * Ids - 1

ASSUME NodesAssumption == Nodes \subseteq 0..Ids - 1
ASSUME LinksAssumption == Links \subseteq Nodes \X Nodes
ASSUME RolesAssumption == Changers \subseteq Nodes /\ Restarting \cup Newcomers \subseteq Nodes
ASSUME SizesAssumption == Counters \in Nat /\ Counters > 2 /\ Counters % 2 = 0 /\ Ids \in Nat \ {0}
ASSUME UpdatesAssumption == Updates \in Nat
ASSUME AgreedAssumption == Agreed \in Seqnos

NoMessage == [seqno |-> -1, data |-> 0]

VARIABLES m_running,   \* the nodes where dissemination is started
          seqno,       \* the version each node has
          valueCache,  \* its value
          m_buf,       \* the message each sends, or NoMessage
          count,       \* whether it heard its own version since its timer fired last
          pending,     \* the nodes whose timer has fired, and timerTask is to signal it
          updates      \* how often clients have changed the variable

dripVars == <<m_running, seqno, valueCache, m_buf, count, pending, updates>>

DripInit ==
    /\ m_running = Nodes
    /\ seqno = [n \in Nodes |-> IF n \in Newcomers THEN Unknown ELSE Agreed]
    /\ valueCache = [n \in Nodes |-> 0]
    /\ m_buf = [n \in Nodes |-> NoMessage]
    /\ count = [n \in Nodes |-> FALSE]
    /\ pending = {}
    /\ updates = 0

\* Slip: the ids do not decide between two versions with the same counter.
NewerByCounter(a, b) ==
    LET d == (a \div Ids - b \div Ids) % Counters IN d # 0 /\ 2 * d < Counters

\* (int32_t)(a - b) > 0
Newer(a, b) ==
    LET d == (a - b) % (Counters * Ids) IN d # 0 /\ 2 * d < Counters * Ids

\* The message with version s and value v, or that there is none.
Message(s, v) == [seqno |-> s, data |-> IF s = Unknown THEN 0 ELSE v]

\* sendObject of n, unless the engine is stopped or its buffer busy.
CanSend(n) == n \in m_running /\ m_buf[n] = NoMessage

sendObject(n, message) == m_buf' = IF CanSend(n) THEN [m_buf EXCEPT ![n] = message] ELSE m_buf

\* TrickleTimer.reset: a new interval begins.
Reset(n) == count' = [count EXCEPT ![n] = FALSE]

-----------------------------------------------------------------------------
\* StdControl of the engine, which starts the disseminator and its timer.
Start(n) ==
    /\ m_running' = m_running \cup {n}
    /\ Reset(n)
    /\ UNCHANGED <<seqno, valueCache, m_buf, pending, updates>>

Stop(n) ==
    /\ m_running' = m_running \ {n}
    /\ UNCHANGED <<seqno, valueCache, m_buf, count, pending, updates>>

\* Slip: the counter is wider than its half of the number.
NextSeqnoWide(n) == (seqno[n] \div Ids + 1) * Ids + n

\* The counter goes up, and the id becomes that of the node.  Of node 0 that is Unknown when
\* the counter wraps: the code tests for it before the shift, where it never is.
NextSeqno(n) == (((seqno[n] \div Ids + 1) * Ids) % (Counters * Ids)) + n

\* DisseminationUpdate.change
Change(n) ==
    /\ n \in m_running /\ updates < Updates
    /\ updates' = updates + 1
    /\ seqno' = [seqno EXCEPT ![n] = NextSeqno(n)]
    /\ valueCache' = [valueCache EXCEPT ![n] = updates']
    /\ sendObject(n, Message(NextSeqno(n), updates'))
    /\ Reset(n)
    /\ UNCHANGED <<m_running, pending>>

-----------------------------------------------------------------------------
\* Timer.fired of the trickle timer, when it is not suppressed, and when it is.
TimerFires(n) ==
    /\ n \in m_running /\ ~ count[n]
    /\ pending' = pending \cup {n}
    /\ UNCHANGED <<m_running, seqno, valueCache, m_buf, count, updates>>

TimerSuppressed(n) ==
    /\ n \in m_running /\ count[n]
    /\ Reset(n)
    /\ UNCHANGED <<m_running, seqno, valueCache, m_buf, pending, updates>>

\* timerTask, TrickleTimer.fired: the timer may have been stopped since.
TimerTask(n) ==
    /\ n \in pending
    /\ pending' = pending \ {n}
    /\ sendObject(n, Message(seqno[n], valueCache[n]))
    /\ UNCHANGED <<m_running, seqno, valueCache, count, updates>>

-----------------------------------------------------------------------------
MayHear(n) == {m \in Nodes : <<n, m>> \in Links}

\* Slip: whatever differs is taken for newer.
StoresOther(n, incoming) == incoming # Unknown /\ incoming # seqno[n]

\* Receive.receive of n stores the incoming version.
Stores(n, incoming) ==
    IF seqno[n] = Unknown \/ incoming = Unknown
    THEN seqno[n] = Unknown /\ incoming # Unknown
    ELSE Newer(incoming, seqno[n])

\* It answers an older version at once, but not one that only says there is none.
Answers(n, incoming) ==
    incoming # seqno[n] /\ incoming # Unknown /\ ~ Stores(n, incoming)

(***************************************************************************)
(* The radio broadcasts the message of n, and the nodes in heard hear it.  *)
(* A message that a node hears later than the others do is as one that it  *)
(* does not hear, of a sender that repeats itself.  sendDone is signaled.  *)
(***************************************************************************)
Broadcast(n, heard) ==
    /\ m_buf[n] # NoMessage
    /\ LET incoming == m_buf[n].seqno
           received == heard \cap m_running
           storing  == {m \in received : Stores(m, incoming)} IN
       /\ seqno' = [m \in Nodes |-> IF m \in storing THEN incoming ELSE seqno[m]]
       /\ valueCache' = [m \in Nodes |-> IF m \in storing THEN m_buf[n].data ELSE valueCache[m]]
       /\ count' = [m \in Nodes |-> IF m \in received /\ ~ Answers(m, incoming)
                                     THEN incoming = seqno[m] ELSE count[m]]
       /\ m_buf' = [m \in Nodes |->
                       IF m = n THEN NoMessage
                       ELSE IF m \in received /\ Answers(m, incoming) /\ CanSend(m)
                            THEN Message(seqno[m], valueCache[m]) ELSE m_buf[m]]
    /\ UNCHANGED <<m_running, pending, updates>>

-----------------------------------------------------------------------------
DripNext ==
    \/ \E n \in Nodes :
          \/ TimerFires(n) \/ TimerSuppressed(n) \/ TimerTask(n)
          \/ \E heard \in SUBSET MayHear(n) : Broadcast(n, heard)
    \/ \E n \in Restarting : Start(n) \/ Stop(n)
    \/ \E n \in Changers : Change(n)

DripSpec == DripInit /\ [][DripNext]_dripVars

(***************************************************************************)
(* Timers go on, each of them unsuppressed again and again, for a trickle  *)
(* timer picks its time at random; a message that is broadcast again and   *)
(* again is heard by each neighbour again and again; tasks run.            *)
(***************************************************************************)
DripFairness ==
    \A n \in Nodes :
        /\ SF_dripVars(TimerFires(n)) /\ WF_dripVars(TimerSuppressed(n)) /\ WF_dripVars(TimerTask(n))
        /\ WF_dripVars(\E heard \in SUBSET MayHear(n) : Broadcast(n, heard))
        /\ \A m \in MayHear(n) :
              SF_dripVars(\E heard \in SUBSET MayHear(n) : m \in heard /\ Broadcast(n, heard))

DripFairSpec == DripSpec /\ DripFairness

-----------------------------------------------------------------------------
\* The variables have their types.
DripTypeOK ==
    /\ m_running \subseteq Nodes
    /\ seqno \in [Nodes -> Seqnos]
    /\ valueCache \in [Nodes -> 0..updates]
    /\ m_buf \in [Nodes -> [seqno : Seqnos, data : 0..updates] \cup {NoMessage}]
    /\ count \in [Nodes -> BOOLEAN]
    /\ pending \subseteq Nodes
    /\ updates \in 0..Updates

\* The versions that nodes have or send, with their values.
Versions ==
    {o \in {[seqno |-> seqno[n], data |-> valueCache[n]] : n \in Nodes} \cup {m_buf[n] : n \in Nodes} :
        o.seqno # Unknown /\ o # NoMessage}

(***************************************************************************)
(* A sequence number never stands for two values: two nodes with the same  *)
(* version, neither of which takes anything from the other, have the same  *)
(* value.  A client may change the variable many times, and each time gets *)
(* a number that no node has and no message carries, however old: which    *)
(* takes that its node never went back to an older version meanwhile,      *)
(* though old messages wait in buffers, nodes stop and start and numbers   *)
(* wrap (DisseminationUpdate.change, Receive.receive).                     *)
(***************************************************************************)
OneValueAVersion ==
    \A o, p \in Versions : o.seqno = p.seqno => o.data = p.data

(***************************************************************************)
(* TEP 118: whatever messages are lost, the nodes that are up reach        *)
(* consensus on one value, and it is not the one from before a change: of  *)
(* two that two nodes make at the same time one wins everywhere.           *)
(***************************************************************************)
Converged ==
    \A n, m \in Nodes :
        /\ seqno[n] = seqno[m] /\ valueCache[n] = valueCache[m]
        /\ updates > 0 => valueCache[n] > 0

Converges == <>[](m_running = Nodes) => <>[]Converged
=============================================================================
