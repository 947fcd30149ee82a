CONSTANTS
    NumClients = 2
    RoundRobin = FALSE
    Requesters <- TasksAndInterrupts
    RequestWhileOwner = TRUE
    Tasks <- MCTasks
    NoTask = NoTask
SPECIFICATION FcfsSpec
PROPERTY EveryRequestGranted
