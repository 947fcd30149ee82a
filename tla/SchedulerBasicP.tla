-------------------------- MODULE SchedulerBasicP --------------------------
(***************************************************************************)
(* The default TinyOS scheduler, tos/system/SchedulerBasicP.nc, driven by  *)
(* the boot sequence of tos/system/RealMainP.nc and put to sleep through   *)
(* McuSleepC.                                                              *)
(*                                                                         *)
(* The task queue is a linked list threaded through an array that has one  *)
(* byte for each task: m_next[t] is the task behind t.  An atomic section  *)
(* is one action; interrupt handlers run between actions.  The one atomic  *)
(* section that is split is the one that sleeps: McuSleep.sleep enables    *)
(* interrupts inside it.                                                   *)
(***************************************************************************)
EXTENDS Integers, Sequences

CONSTANT NUM_TASKS   \* uniqueCount("TinySchedulerC.TaskBasic")

NO_TASK == 255

\* Task ids are bytes; NO_TASK must not be the id of a task.
ASSUME TaskIdsFitInAByte == NUM_TASKS \in 1..NO_TASK

Tasks == 0..(NUM_TASKS - 1)

VARIABLES
    m_head, m_tail, m_next,  \* the queue
    pc,          \* where main() is
    running,     \* the task whose runTask event is being signaled, or NO_TASK
    raised,      \* an interrupt is latched and waits to be taken
    inHandler    \* an interrupt handler runs, on top of main()

list == <<m_head, m_tail, m_next>>
vars == <<list, pc, running, raised, inHandler>>

\* main() inside RealMainP's outer atomic section.
Booting == {"reset", "platformInit", "platformTasks", "softwareInit", "softwareTasks"}

\* Where main() is; "idle" is inside the atomic section of taskLoop, "asleep"
\* is inside McuSleep.sleep with the processor off, "woken" is past it.
Places == Booting \cup {"booted", "taskLoop", "idle", "asleep", "woken"}

-----------------------------------------------------------------------------
\* Globals are zero until Scheduler.init runs.
Init ==
    /\ m_head = 0
    /\ m_tail = 0
    /\ m_next = [t \in Tasks |-> 0]
    /\ pc = "reset"
    /\ running = NO_TASK
    /\ raised = FALSE
    /\ inHandler = FALSE

\* main() itself runs: no task, and no handler on top of it.
AtMain(place) == pc = place /\ running = NO_TASK /\ ~ inHandler

\* Slip: the list is ended by the first number that is not a task.
SchedulerInitUnmarked ==
    /\ AtMain("reset")
    /\ m_head' = NUM_TASKS /\ m_tail' = NUM_TASKS
    /\ m_next' = [t \in Tasks |-> NUM_TASKS]
    /\ pc' = "platformInit"
    /\ UNCHANGED <<running, raised, inHandler>>

\* RealMainP: Scheduler.init, before anything can post.
SchedulerInit ==
    /\ AtMain("reset")
    /\ m_head' = NO_TASK
    /\ m_tail' = NO_TASK
    /\ m_next' = [t \in Tasks |-> NO_TASK]
    /\ pc' = "platformInit"
    /\ UNCHANGED <<running, raised, inHandler>>

\* Code that may post is running: an initializer, Boot.booted, a task or a handler.
CodeRuns == \/ inHandler
            \/ running # NO_TASK
            \/ pc \in {"platformInit", "softwareInit", "booted"}

isWaiting(id) == m_next[id] # NO_TASK \/ m_tail = id

\* Slip: the new task is linked in front.
PushTaskInFront(id) ==
    /\ ~ isWaiting(id)
    /\ m_head' = id
    /\ m_next' = [m_next EXCEPT ![id] = m_head]
    /\ m_tail' = IF m_head = NO_TASK THEN id ELSE m_tail

\* pushTask: SUCCESS, with id behind the last task.
PushTask(id) ==
    /\ ~ isWaiting(id)
    /\ IF m_head = NO_TASK
       THEN m_head' = id /\ UNCHANGED m_next
       ELSE m_next' = [m_next EXCEPT ![m_tail] = id] /\ UNCHANGED m_head
    /\ m_tail' = id

\* TaskBasic.postTask; a post of a waiting task returns EBUSY.
PostTask(id) ==
    /\ CodeRuns
    /\ \/ PushTask(id)
       \/ isWaiting(id) /\ UNCHANGED list
    /\ UNCHANGED <<pc, running, raised, inHandler>>

\* popTask of a queue that is not empty.
PopTask ==
    /\ m_head # NO_TASK
    /\ m_head' = m_next[m_head]
    /\ m_tail' = IF m_next[m_head] = NO_TASK THEN NO_TASK ELSE m_tail
    /\ m_next' = [m_next EXCEPT ![m_head] = NO_TASK]

\* runNextTask and taskLoop: the popped task's event is signaled.
RunNextTask ==
    /\ \E place \in {"platformTasks", "softwareTasks", "taskLoop"} : AtMain(place)
    /\ PopTask
    /\ running' = m_head
    /\ UNCHANGED <<pc, raised, inHandler>>

TaskDone ==
    /\ running # NO_TASK /\ ~ inHandler
    /\ running' = NO_TASK
    /\ UNCHANGED <<list, pc, raised, inHandler>>

\* The steps of main() between the places where it runs tasks.
Advance(from, to) ==
    /\ AtMain(from)
    /\ pc' = to
    /\ UNCHANGED <<list, running, raised, inHandler>>

PlatformInitDone == Advance("platformInit", "platformTasks")
PlatformTasksDone == m_head = NO_TASK /\ Advance("platformTasks", "softwareInit")
SoftwareInitDone == Advance("softwareInit", "softwareTasks")
SoftwareTasksDone == m_head = NO_TASK /\ Advance("softwareTasks", "booted")
BootedDone == Advance("booted", "taskLoop")

\* taskLoop finds nothing to do, and sleeps without leaving its atomic section.
FindIdle == m_head = NO_TASK /\ Advance("taskLoop", "idle")
Sleep == Advance("idle", "asleep")
Resume == Advance("woken", "taskLoop")

-----------------------------------------------------------------------------
\* The environment latches an interrupt at any time.
Raise ==
    /\ ~ raised
    /\ raised' = TRUE
    /\ UNCHANGED <<list, pc, running, inHandler>>

\* Slip: taskLoop leaves its atomic section before it sleeps.
InterruptsEnabledWhenIdle == ~ inHandler /\ pc \notin Booting

\* Handlers do not nest, and atomic sections hold them off.
InterruptsEnabled == ~ inHandler /\ pc \notin Booting \cup {"idle"}

TakeInterrupt ==
    /\ raised /\ InterruptsEnabled
    /\ raised' = FALSE
    /\ inHandler' = TRUE
    /\ UNCHANGED <<list, pc, running>>

\* A handler that interrupted McuSleep.sleep returns to a processor that is on.
HandlerDone ==
    /\ inHandler
    /\ inHandler' = FALSE
    /\ pc' = IF pc = "asleep" THEN "woken" ELSE pc
    /\ UNCHANGED <<list, running, raised>>

MainStep ==
    \/ SchedulerInit
    \/ PlatformInitDone \/ PlatformTasksDone
    \/ SoftwareInitDone \/ SoftwareTasksDone
    \/ BootedDone
    \/ RunNextTask \/ TaskDone
    \/ FindIdle \/ Sleep \/ Resume

Next ==
    \/ MainStep
    \/ \E id \in Tasks : PostTask(id)
    \/ Raise \/ TakeInterrupt \/ HandlerDone

Spec == Init /\ [][Next]_vars

(***************************************************************************)
(* Tasks and handlers run to completion, a latched interrupt is taken, and *)
(* interrupts leave the processor to main() again and again (main is       *)
(* disabled while a handler runs, hence strong fairness).                  *)
(***************************************************************************)
Fairness ==
    /\ SF_vars(MainStep)
    /\ WF_vars(HandlerDone)
    /\ WF_vars(TakeInterrupt)

FairSpec == Spec /\ Fairness

-----------------------------------------------------------------------------
Orders == UNION {[1..n -> Tasks] : n \in 0..NUM_TASKS}

\* The list holds the tasks of s, in that order, and nothing else.
Represents(s) ==
    /\ \A i, j \in 1..Len(s) : s[i] = s[j] => i = j
    /\ m_head = IF s = <<>> THEN NO_TASK ELSE s[1]
    /\ m_tail = IF s = <<>> THEN NO_TASK ELSE s[Len(s)]
    /\ \A t \in Tasks :
          m_next[t] = IF \E i \in 1..(Len(s) - 1) : s[i] = t
                      THEN s[(CHOOSE i \in 1..(Len(s) - 1) : s[i] = t) + 1]
                      ELSE NO_TASK

Waiting == IF pc = "reset" THEN <<>> ELSE CHOOSE s \in Orders : Represents(s)

TypeOK ==
    /\ m_head \in Tasks \cup {NO_TASK}
    /\ m_tail \in Tasks \cup {NO_TASK}
    /\ m_next \in [Tasks -> Tasks \cup {NO_TASK}]
    /\ pc \in Places
    /\ running \in Tasks \cup {NO_TASK}
    /\ raised \in BOOLEAN
    /\ inHandler \in BOOLEAN

(***************************************************************************)
(* The processor is never off with a task waiting: nothing can be posted   *)
(* between the popTask that finds the queue empty and the instruction that *)
(* turns the processor off (SchedulerBasicP.nc:154-160).                   *)
(***************************************************************************)
SleepsOnlyWhenIdle == pc = "asleep" /\ ~ inHandler => m_head = NO_TASK

(***************************************************************************)
(* Why SleepsOnlyWhenIdle holds: the inductive invariant.  main() comes to *)
(* the sleep instruction with no task running on an empty queue, and with  *)
(* interrupts off, so that nobody can post (SchedulerBasicP.nc:148-180).   *)
(***************************************************************************)
SleepInv ==
    /\ pc \in {"idle", "asleep"} => running = NO_TASK
    /\ pc = "idle" => ~ inHandler /\ m_head = NO_TASK
    /\ SleepsOnlyWhenIdle

(***************************************************************************)
(* The linked list implements the task queue of TEP 106: from m_head the   *)
(* links visit the waiting tasks in the order of their posts and end at    *)
(* m_tail, a task off the list has no link, so isWaiting is exact, and     *)
(* tasks run one at a time, each once for each accepted post               *)
(* (SchedulerBasicP.nc:77-121, 133-189).                                   *)
(***************************************************************************)
Abstract == INSTANCE TaskQueue
                WITH NoTask <- NO_TASK, queue <- Waiting
ImplementsTaskQueue == Abstract!Spec

(***************************************************************************)
(* A task whose post was accepted runs eventually (TEP 106: "the scheduler *)
(* MUST run it eventually"), however often other tasks are posted.         *)
(***************************************************************************)
EveryPostRuns ==
    \A id \in Tasks : pc # "reset" /\ isWaiting(id) ~> running = id
=============================================================================
