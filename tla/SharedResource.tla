--------------------------- MODULE SharedResource ---------------------------
(***************************************************************************)
(* What the clients of an arbiter are promised (TEP 108): the resource has *)
(* one owner at a time; an accepted request is kept until it is granted;   *)
(* a client is granted only what it asked for; and an immediate request    *)
(* succeeds only when the resource is free and nobody waits for it.        *)
(***************************************************************************)
CONSTANTS Clients,
          Nobody     \* "the resource is free"; not one of Clients

VARIABLES owner,     \* the client that has the resource, or Nobody
          asked      \* the clients whose accepted request has not been granted

vars == <<owner, asked>>

Init == owner = Nobody /\ asked = {}

Accept(c) ==
    /\ asked' = asked \cup {c}
    /\ UNCHANGED owner

Grant(c) ==
    /\ owner = Nobody /\ c \in asked
    /\ owner' = c
    /\ asked' = asked \ {c}

GrantNow(c) ==
    /\ owner = Nobody /\ asked = {}
    /\ owner' = c
    /\ UNCHANGED asked

Release ==
    /\ owner # Nobody
    /\ owner' = Nobody
    /\ UNCHANGED asked

Next == Release \/ \E c \in Clients : Accept(c) \/ Grant(c) \/ GrantNow(c)

Spec == Init /\ [][Next]_vars
=============================================================================
