----------------------------- MODULE SendQueue -----------------------------
(***************************************************************************)
(* What a virtualized sender promises its clients (TEP 116, Send.nc): a    *)
(* queue of depth one for each of them; an accepted packet is reported     *)
(* with one sendDone, with ECANCEL if a cancel of it returned SUCCESS and  *)
(* only then.                                                              *)
(***************************************************************************)
CONSTANTS Clients, Packets,
          NoPacket   \* the client has no packet pending; not one of Packets

VARIABLES pending,   \* the packet a client waits for the sendDone of, or NoPacket
          cancelled, \* the clients whose pending packet was cancelled with SUCCESS
          report     \* the last sendDone: its client, packet and error

vars == <<pending, cancelled, report>>

Errors == {"SUCCESS", "FAIL", "ECANCEL"}

Init ==
    /\ pending = [c \in Clients |-> NoPacket]
    /\ cancelled = {}
    /\ report = <<>>

Accept(c, p) ==
    /\ pending[c] = NoPacket
    /\ pending' = [pending EXCEPT ![c] = p]
    /\ UNCHANGED <<cancelled, report>>

Cancel(c) ==
    /\ pending[c] # NoPacket
    /\ cancelled' = cancelled \cup {c}
    /\ UNCHANGED <<pending, report>>

Report(c, err) ==
    /\ pending[c] # NoPacket
    /\ (err = "ECANCEL") <=> (c \in cancelled)
    /\ report' = <<c, pending[c], err>>
    /\ pending' = [pending EXCEPT ![c] = NoPacket]
    /\ cancelled' = cancelled \ {c}

Next ==
    \E c \in Clients :
        \/ \E p \in Packets : Accept(c, p)
        \/ Cancel(c)
        \/ \E err \in Errors : Report(c, err)

Spec == Init /\ [][Next]_vars
=============================================================================
