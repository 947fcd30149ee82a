CONSTANTS
    Clients = {c1}
    Entries = {e1, e2}
    Buffers = {b1, b2, b3}
    Instances = {p, q}
    CacheSize = 1
    MaxRetries = 2
    Changes = 1
SPECIFICATION FairSpec
INVARIANTS TypeOK BuffersAccounted
PROPERTIES EveryPacketReportedOnce
