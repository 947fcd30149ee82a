CONSTANTS
    Threads <- MCThreads
    TOS = 0
    Code <- MCCode
    Stoppable <- MCStoppable
    BarrierSize = 2
    CountModulus = 2
SPECIFICATION FairSpec
INVARIANTS TypeOK OneHolder NoThreadStranded CallsOneAtATime
PROPERTIES ReadyThreadsRun
CHECK_DEADLOCK FALSE
