-------------------------- MODULE MCPowerManagers --------------------------
EXTENDS PowerManagers

MCTasks == {"grantedTask", "startTask", "stopTask", "timerTask", "stopTimerTask"}
TasksAndInterrupts == {"main", "interrupt"}

Build(manager, split, interrupts, failures) ==
    [manager |-> manager, split |-> split, interrupts |-> interrupts,
     failures |-> failures]

AllBuilds ==
    {Build(m, split, i, {}) : m \in {"PowerManagerP", "DeferredPowerManagerP"},
                              split \in BOOLEAN, i \in BOOLEAN}
        \cup {Build(m, TRUE, FALSE, {"start"}) :
                  m \in {"PowerManagerP", "DeferredPowerManagerP"}}
        \cup {Build(m, TRUE, TRUE, FailureKinds) :
                  m \in {"PowerManagerP", "DeferredPowerManagerP"}}
        \cup {Build(m, FALSE, i, {}) :
                  m \in {"AsyncPowerManagerP", "AsyncDeferredPowerManagerP"},
                  i \in BOOLEAN}

AsyncDeferred == {Build("AsyncDeferredPowerManagerP", FALSE, FALSE, {})}
ImmediateWithInterrupts == {Build("PowerManagerP", FALSE, TRUE, {})}
=============================================================================
