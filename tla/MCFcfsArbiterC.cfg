CONSTANTS
    NumClients = 4
    RoundRobin = FALSE
    Requesters <- TasksAndInterrupts
    RequestWhileOwner = FALSE
    Tasks <- MCTasks
    NoTask = NoTask
SPECIFICATION FcfsSpec
INVARIANTS TypeOK HolderOnRecord ListInStep
PROPERTIES ImplementsSharedResource NoOvertaking EveryRequestGranted
