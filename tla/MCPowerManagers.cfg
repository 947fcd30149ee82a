CONSTANTS
    NumClients = 3
    RoundRobin = FALSE
    Requesters <- TasksAndInterrupts
    RequestWhileOwner = FALSE
    Tasks <- MCTasks
    NoTask = NoTask
    Builds <- AllBuilds
SPECIFICATION FairSpec
INVARIANTS TypeOK PoweredUnlessStartFails PromisesKept TimerOnlyWhenFree StartsNotWhileStopping
PROPERTIES PoweredDownWhenIdle RequestsAreServed
