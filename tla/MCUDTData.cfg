SPECIFICATION DataSpec
CONSTANTS
    s1 = s1
    s2 = s2
    s3 = s3
    NoSock = NoSock
INVARIANTS
    StructuresAreSound
PROPERTIES
    LossesAreSets
    SendsInOrder
    DataIsRead
    AcksAreRemembered
    WorkersServe
    WaitsEnd
CHECK_DEADLOCK FALSE
