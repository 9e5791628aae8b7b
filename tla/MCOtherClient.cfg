SPECIFICATION Spec
CONSTANTS
    Me = Me
    Peer = Peer
    NoAddress = NoAddress
    NoFrame = NoFrame
    Addresses = {1}
    Frames <- AllFrames
    PeerFrames <- Neighbour
    MaxInFlight = 1
    RECEIVE_BUFFER_MAX = 3
    SEND_BUFFER_MAX = 3
INVARIANT AddressIsMine
