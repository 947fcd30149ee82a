CONSTANTS
    NumClients = 2
    RoundRobin = FALSE
    Requesters <- TasksAndInterrupts
    RequestWhileOwner = FALSE
    Tasks <- MCTasks
    NoTask = NoTask
    Builds <- AsyncDeferred
SPECIFICATION FairSpec
INVARIANT PoweredWhileHeld
