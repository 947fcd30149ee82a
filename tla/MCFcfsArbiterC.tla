--------------------------- MODULE MCFcfsArbiterC ---------------------------
EXTENDS FcfsArbiterC

MCTasks == {"grantedTask"}
TasksAndInterrupts == {"main", "interrupt"}
=============================================================================
