----------------------------- MODULE TaskQueue -----------------------------
(***************************************************************************)
(* What the TinyOS scheduler promises the components that post tasks       *)
(* (TEP 106): a first-come first-served queue that holds every task at     *)
(* most once, from which one task at a time is taken and run to            *)
(* completion.  SchedulerBasicP is shown to implement this module.         *)
(***************************************************************************)
EXTENDS Naturals, Sequences

CONSTANTS Tasks,    \* the tasks of the program
          NoTask    \* "the processor runs no task"; not one of Tasks

VARIABLES queue,    \* accepted posts that have not run yet, oldest first
          running   \* the task that runs, or NoTask

vars == <<queue, running>>

IsQueued(t) == \E i \in 1..Len(queue) : queue[i] = t

Init == /\ queue = <<>>
        /\ running = NoTask

LineUp(t) == ~ IsQueued(t) /\ queue' = Append(queue, t)

(***************************************************************************)
(* A post is accepted, and lined up last, unless the task is waiting: a    *)
(* second post before the first one has run is refused and changes nothing.*)
(***************************************************************************)
Post(t) == LineUp(t) /\ UNCHANGED running

\* The task that has waited longest starts; it may be posted again from then on.
Start == /\ running = NoTask
         /\ queue # <<>>
         /\ running' = Head(queue)
         /\ queue' = Tail(queue)

Finish == /\ running # NoTask
          /\ running' = NoTask
          /\ UNCHANGED queue

Next == \/ \E t \in Tasks : Post(t)
        \/ Start
        \/ Finish

Spec == Init /\ [][Next]_vars
=============================================================================
