SPECIFICATION ServerSpec
CONSTANTS
    k1 = k1
    k2 = k2
    k3 = k3
    v1 = v1
    NoVal = NoVal
    Key = {k1, k2}
    Val = {v1}
    Hash <- MCHash
    FirstSize = 2
    LoadNum = 0
    LoadDen = 10
    MagicNumber = 2
    MaxRecords = 2
PROPERTIES
    OpenKeepsRecords
