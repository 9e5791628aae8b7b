SPECIFICATION FairSpec
CONSTANTS
    c1 = c1
    c2 = c2
    c3 = c3
    Clients = {c1, c2, c3}
    NoClient = NoClient
    NoPacket = NoPacket
    NoCall = NoCall
    Packets <- AllPackets
    Used <- Kinds
    N_PENDING = 3
    BACKLOG_DEFAULT = 2
    BACKLOG = 2
    BacklogArgs = {2}
INVARIANTS
    TypeOK
    FullIsReadable
    NoPanic
    AnswerIsMine
    ReplyReadable
    CallsAreClean
PROPERTY CallReturns
