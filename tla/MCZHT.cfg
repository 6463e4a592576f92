SPECIFICATION FairSpec
CONSTANTS
    c1 = c1
    c2 = c2
    t1 = t1
    t2 = t2
    h1 = h1
    h2 = h2
    k1 = k1
    k2 = k2
    v1 = v1
    NoVal = NoVal
    NoCall = NoCall
    NoThread = NoThread
    Closed = Closed
    Client = {c1, c2}
    Thread = {t1, t2}
    Process <- OneEach
    Host = {h1, h2}
    Key = {k1, k2}
    Val = {v1}
    HostOf <- MCHostOf
    Calls <- MCCalls
    SharedSockets = FALSE
    CacheSize = 1
    MaxFd = 2
    MaxCrashes = 1
INVARIANTS
    CacheIsSockets
PROPERTIES
    CallsReturn
    IsAtomicMap
CHECK_DEADLOCK FALSE
