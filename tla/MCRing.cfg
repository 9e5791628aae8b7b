SPECIFICATION FairSpec
CONSTANTS
    MSG_QUEUE_MAX = 3
    MaxPosts = 7
    Indices <- EveryIndex
    Restarts = {FALSE, TRUE}
INVARIANTS
    TypeOK
    AtMostOnce
PROPERTIES
    IsMailbox
    Received
