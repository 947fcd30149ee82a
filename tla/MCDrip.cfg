CONSTANTS
    Nodes <- MCNodes
    Links <- MCLinks
    Changers <- MCChangers
    Restarting <- MCRestarting
    Updates = 2
    Counters = 8
    Ids = 3
    Agreed <- MCAgreed
    Newcomers <- MCNewcomers
SPECIFICATION DripFairSpec
INVARIANTS DripTypeOK OneValueAVersion
PROPERTIES Converges
