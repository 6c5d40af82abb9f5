SPECIFICATION SessFairSpec
CONSTANTS
    RawBufSize = 3
    MaxOldData = 1
    DropSize = 1
    MaxTotal = 1
    PassKinds <- AllPasses
    NonblockModes = {FALSE}
    MaxOut = 1
    PtyCap = 2
    Grand = FALSE
    MayStop = FALSE
    c1 = c1
    NoClient = NoClient
    Clients <- OneClient
    MaxBacklog = 1
    Cloexit = FALSE
    ZombieIdle <- Off
    OptSet <- DefaultOnly
    ClientTimeouts <- NoTimeout
    EarlyExit = TRUE
    AgeCap <- NoClock
    Commands = {"wait"}
    MayDetach = FALSE
    MayDie = FALSE
    c2 = c2
PROPERTIES
    WaitReturns
CHECK_DEADLOCK FALSE
