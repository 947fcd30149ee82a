CONSTANTS
    NumClients = 2
    RoundRobin = FALSE
    Requesters <- TasksAndInterrupts
    RequestWhileOwner = FALSE
    Tasks <- MCTasks
    NoTask = NoTask
    Builds <- ImmediateWithInterrupts
SPECIFICATION FairSpec
PROPERTY RequestReleasesResource
