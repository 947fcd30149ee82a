CONSTANTS
    Timers <- MCTimers
    Wrap = 8
    Delays <- MCDelays
    Backs <- MCBacks
    MaxLag = 2
SPECIFICATION FairSpec
INVARIANTS TypeOK AlarmInTime
PROPERTIES ImplementsTimerService
