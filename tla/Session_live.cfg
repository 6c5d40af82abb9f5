SPECIFICATION SessFairSpec
CONSTANTS
    RawBufSize = 3
    MaxOldData = 1
    DropSize = 1
    MaxTotal = 0
    PassKinds <- AllPasses
    NonblockModes = {FALSE}
    MaxOut = 0
    PtyCap = 2
    Grand = FALSE
    MayStop = FALSE
    c1 = c1
    c2 = c2
    NoClient = NoClient
    Clients <- TwoClients
    MaxBacklog = 1
    Cloexit = FALSE
    ZombieIdle <- Off
    OptSet <- TimeoutDefault
    ClientTimeouts = {1}
    EarlyExit = FALSE
    AgeCap <- PassClock
    Commands = {"expect", "wait", "send"}
    MayDetach = FALSE
    MayDie = TRUE
PROPERTIES
    WaitReturns
    RequestReturns
    NobodyHangs
    ReapEndsServer
CHECK_DEADLOCK FALSE
