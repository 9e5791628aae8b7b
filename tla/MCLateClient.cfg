SPECIFICATION Spec
CONSTANTS
    c1 = c1
    c2 = c2
    c3 = c3
    Clients = {c1, c2}
    NoClient = NoClient
    NoPacket = NoPacket
    NoCall = NoCall
    Packets <- AllPackets
    Used <- Windows
    N_PENDING = 5
    BACKLOG_DEFAULT = 4
    BACKLOG = 4
    BacklogArgs = {4}
INVARIANT ResponseToItsClient
