SPECIFICATION Spec
CONSTANTS
    RawBufSize = 4
    MaxOldData = 2
    DropSize = 1
    MaxTotal = 6
    PassKinds <- AllPassKinds
    NonblockModes = {FALSE}
INVARIANTS
    AssertHolds
CHECK_DEADLOCK FALSE
