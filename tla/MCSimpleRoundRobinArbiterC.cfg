CONSTANTS
    NumClients = 4
    RoundRobin = TRUE
    BITS = 2
SPECIFICATION MapSpec
INVARIANTS TypeOK ConfiguredForOwner MapInStep
PROPERTIES ImplementsSharedResource EveryRequestGranted
