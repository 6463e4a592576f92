SPECIFICATION ServerSpec
CONSTANTS
    k1 = k1
    k2 = k2
    k3 = k3
    v1 = v1
    v2 = v2
    NoVal = NoVal
    Key = {k1, k2, k3}
    Val = {v1, v2}
    Hash <- MCHash
    FirstSize = 1
    LoadNum = 7
    LoadDen = 10
    MagicNumber = 2
    MaxRecords = 4
INVARIANTS
    TableIsSound
PROPERTIES
    IsMap
    ReplicasCatchUp
    NewestArrives
\* The server ends when it writes to the connection of a replica that fell, and
\* the clients stop after MaxInserts.
CHECK_DEADLOCK FALSE
