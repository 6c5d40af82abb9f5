SPECIFICATION RelaySpec
CONSTANTS
    Keys <- KeyDetach
    Output <- AB
    SockBuf = 4
    PtyIn = 1
    RawBuf = 2
    ReadMax = 2
    Substs <- TwoSubsts
    MaxSize = 2
INVARIANTS
    KeysKept
    OutputKept
PROPERTIES
    CatchesUp
    SizeArrives
    ConnectionEnds
CHECK_DEADLOCK FALSE
