------------------------- MODULE MCVirtualizeTimerC -------------------------
EXTENDS VirtualizeTimerC
MCTimers == 0..1
MCDelays == {1, 2}
MCBacks == {0, 1}
=============================================================================
