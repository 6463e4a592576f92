SPECIFICATION Spec
CONSTANTS
    Calls = {c1, c2}
    Size = 1
    MaxBreaks = 1
INVARIANTS
    TransfersAreWhole
PROPERTIES
    CallsReturn
    SocketsGo
CHECK_DEADLOCK FALSE
