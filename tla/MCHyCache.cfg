SPECIFICATION HySpec
CONSTANTS
    Names = {1, 2, 3}
    InDir = {1}
    Ids = {1, 2, 3}
    Handles = {1, 2}
    Total = 0
    MaxVersion = 1
    Modes = {0, 1}
    MaxFreq = 2
    Careless = {}
    Elems = {1, 2, 3, 4}
INVARIANTS
    DisksAgree
PROPERTIES
    LimitHolds
    OneDisk
    QueueKeepsOrder
