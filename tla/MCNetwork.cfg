SPECIFICATION FairSpec
CONSTANTS
    Me = Me
    Peer = Peer
    NoAddress = NoAddress
    NoFrame = NoFrame
    Addresses = {1}
    Frames <- AllFrames
    PeerFrames <- OtherClient
    MaxInFlight = 1
    RECEIVE_BUFFER_MAX = 3
    SEND_BUFFER_MAX = 3
INVARIANTS
    TypeOK
    TxBufferFree
    NotForgotten
    AddressAcknowledged
PROPERTIES
    FrameStable
    RingIsQueue
    FrameHandled
    DhcpCompletes
