CONSTANTS
    NumClients = 3
    Packets = {p1, p2, p3}
    NoPacket = NoPacket
    NoTask = NoTask
SPECIFICATION FairSpec
INVARIANTS TypeOK
PROPERTIES ImplementsSendQueue NoSecondTurn EveryPacketReported
