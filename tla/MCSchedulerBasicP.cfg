CONSTANT NUM_TASKS = 3
SPECIFICATION FairSpec
INVARIANTS TypeOK SleepsOnlyWhenIdle
PROPERTIES ImplementsTaskQueue EveryPostRuns
