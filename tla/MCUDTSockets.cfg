SPECIFICATION SocketsSpec
CONSTANTS
    p1 = p1
    p2 = p2
    Peer = {p1, p2}
    NoPeer = NoPeer
    MaxId = 2
    BackLog = 1
INVARIANTS
    OneLive
    SocketsAreSound
    SizesAgree
PROPERTIES
    AllCollected
    QueuedIsAccepted
    CleanupReturns
CHECK_DEADLOCK FALSE
