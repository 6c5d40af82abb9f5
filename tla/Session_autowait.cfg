SPECIFICATION SessFairSpec
CONSTANTS
    RawBufSize = 3
    MaxOldData = 1
    DropSize = 1
    MaxTotal = 1
    PassKinds <- AllPasses
    NonblockModes = {FALSE}
    MaxOut = 1
    PtyCap = 2
    Grand = TRUE
    MayStop = TRUE
    c1 = c1
    NoClient = NoClient
    Clients <- OneClient
    MaxBacklog = 1
    Cloexit = TRUE
    ZombieIdle <- Off
    OptSet <- Autowait
    ClientTimeouts <- NoTimeout
    EarlyExit = FALSE
    AgeCap <- NoClock
    Commands = {"expect", "interact", "too_old"}
    MayDetach = TRUE
    MayDie = TRUE
    c2 = c2
PROPERTIES
    AutowaitExits
    CloexitCloses
CHECK_DEADLOCK FALSE
