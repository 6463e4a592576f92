\* rmdir of a directory that has files: the slow disk loses it.
SPECIFICATION RmdirSpec
CONSTANTS
    Names = {1, 2, 3}
    InDir = {1}
    Ids = {1, 2, 3}
    Handles = {1, 2}
    Total = 0
    MaxVersion = 1
    Modes = {0, 1}
    MaxFreq = 2
    Careless = {"rmdirFilled"}
    Elems = {1, 2, 3, 4}
INVARIANTS
    TreesInStep
