---------------------------- MODULE MCTOSThreads ----------------------------
EXTENDS TOSThreads
MCThreads == 1..3
MCCode == <<{"lock", "wait", "block"},
            {"lock", "signal", "systemCall", "waitOnEvent", "join"},
            {"signalAll", "systemCall", "block", "reset", "start", "stop"}>>
MCStoppable == {3}
=============================================================================
