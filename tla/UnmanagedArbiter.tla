-------------------------- MODULE UnmanagedArbiter --------------------------
(***************************************************************************)
(* FcfsArbiterC and RoundRobinArbiterC with nothing wired to the default   *)
(* owner: ArbiterP's default handlers release the resource when asked.     *)
(***************************************************************************)
EXTENDS ArbiterP

vars == sharedVars

Init == SharedInit

\* The default handler of ResourceDefaultOwner.requested, then request returns.
DefaultRequested(ctx) ==
    /\ At(ctx, "requested")
    /\ DefaultOwnerRelease
    /\ Return(ctx)
    /\ UNCHANGED <<queueVars, running, clientVars>>

\* The default handler of ResourceDefaultOwner.immediateRequested.
DefaultImmediateRequested(ctx) ==
    /\ At(ctx, "immediateRequested")
    /\ DefaultOwnerRelease
    /\ GoTo(ctx, "immediateCheck")
    /\ UNCHANGED <<queueVars, running, clientVars>>

\* Nobody listens to ResourceDefaultOwner.granted.
Release(ctx, c) ==
    ReleaseToNext(ctx, c) \/ (ReleaseToDefault(ctx, c) /\ UNCHANGED tasks)

\* What goes on in a context by itself, once begun.
Continue(ctx) ==
    DefaultRequested(ctx) \/ DefaultImmediateRequested(ctx) \/ FinishAsking(ctx)

Next ==
    \/ \E ctx \in Contexts :
          Ask(ctx) \/ Continue(ctx) \/ \E c \in Clients : Release(ctx, c)
    \/ RunNextTask \/ Grant

Spec == Init /\ [][Next]_vars

(***************************************************************************)
(* Handlers return; the main context gets the processor again and again    *)
(* and goes on, and its posted tasks run (strong fairness: it is disabled  *)
(* while a handler runs); a client that has the resource releases it.      *)
(***************************************************************************)
Fairness ==
    /\ WF_vars(Continue("interrupt"))
    /\ SF_vars(Continue("main") \/ Grant)
    /\ SF_vars(RunNextTask)
    /\ \A c \in Clients : SF_vars(Release("main", c))

FairSpec == Spec /\ Fairness

TypeOK ==
    /\ SharedTypeOK
    /\ call \in [Contexts -> [at : Frames \cup {"none"}, id : Clients \cup {NO_RES}]]

-----------------------------------------------------------------------------
(***************************************************************************)
(* Why HolderOnRecord holds: the inductive invariant.  A grant has one     *)
(* place at a time where it is decided: a context that asks the default    *)
(* owner, then the posted grantedTask, then grantedTask past its atomic    *)
(* section, then the client.                                               *)
(***************************************************************************)
Deciding == {"requested", "immediateRequested", "immediateCheck"}

GrantQueued == Scheduler!IsQueued("grantedTask")
Granting == call["main"].at \in {"configure", "granted"}

\* grantedTask is waiting, or runs and has not come to its atomic section.
GrantDue == GrantQueued \/ (running = "grantedTask" /\ ~ Granting)

NoTaskTwice == \A i, j \in 1..Len(tasks) : tasks[i] = tasks[j] => i = j

OneDecides ==
    \A a, b \in Contexts : call[a].at \in Deciding /\ call[b].at \in Deciding => a = b

DecidingInv ==
    \A ctx \in Contexts :
        /\ call[ctx].at \in Deciding => reqResId = call[ctx].id /\ ~ GrantDue
        /\ call[ctx].at = "requested" => state = "granting" /\ resId = default_owner_id
        /\ call[ctx].at = "immediateRequested" =>
              state = "immGranting" /\ resId = default_owner_id
        /\ call[ctx].at = "immediateCheck" =>
              /\ state = "busy" /\ resId = call[ctx].id
              /\ ~ Granting
              /\ \A c \in Clients : ~ holds[c]
        /\ call[ctx].at # "immediateFail"

GrantDueInv ==
    /\ GrantDue => state = "granting"
    /\ ~ (GrantQueued /\ running = "grantedTask")

GrantingInv ==
    Granting =>
        /\ running = "grantedTask"
        /\ state = "busy" /\ resId \in Clients
        /\ call["main"].at = "granted" => configured = resId
        /\ \A c \in Clients : ~ holds[c]

IdleInv == state = "controlled" => resId = default_owner_id

GrantInv ==
    /\ TypeOK
    /\ IdleInv
    /\ NoTaskTwice
    /\ HolderOnRecord
    /\ OneDecides
    /\ DecidingInv
    /\ GrantDueInv
    /\ GrantingInv
=============================================================================
