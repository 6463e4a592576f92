SPECIFICATION Spec
CONSTANTS
    n1 = n1
    n2 = n2
    n3 = n3
    p1 = p1
    p2 = p2
    p3 = p3
    a = a
    c = c
    d = d
    Root = Root
    NoNode = NoNode
    NoHandle = NoHandle
    NoCall = NoCall
    Node = {n1, n2, n3}
    Proc = {p1, p2, p3}
    File = {a, c}
    Dir = {d}
    Home <- Apart
    Folder <- MCFolder
    Prefix <- MCPrefix
    Calls <- OwnersCalls
    Crashing = {n1}
    LateJoin = TRUE
    UnlinkOpenFiles = FALSE
    ShareWrites = TRUE
    MaxInFlight = 2
    MaxNames = 2
    MaxClock = 2
    Owner <- MCOwner
INVARIANTS
    TypeOK
    OwnerHoldsData
    DropsOnlyCopies
PROPERTIES
    CopiesNeverGoBack
    KeepsPrimaryCopies
