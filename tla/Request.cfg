SPECIFICATION Spec
CONSTANTS
    NULL = NULL
    NotInt = NotInt
    MaxSend = 6
    MaxMsg = 96
    Magic = 1247106906
    DefTimeout = 30
    Winsize <- Size
    KillArgs = 1
    CommandLines <- AllLines
INVARIANTS
    SafeToSend
    DumpAccepted
    Fits
    
    WholeOrNothing
    CStringMeans
    GlobMeans
CHECK_DEADLOCK FALSE
