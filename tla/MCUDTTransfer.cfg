SPECIFICATION PartsSpec
CONSTANTS
    MaxSeqNo = 15
    SeqNoTH = 8
    ISN = 15
    Packets = 4
    SndBufSize = 2
    RcvBufSize = 3
    NetSize = 2
    MsgOf <- MCMsgOf
    Mortal = {1}
    Unordered = {2}
INVARIANTS
    EndsAgree
    ReadsAreWhole
PROPERTIES
    ReadsInOrder
    AllArrives
CHECK_DEADLOCK FALSE
