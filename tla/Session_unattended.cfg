SPECIFICATION SessFairSpec
CONSTANTS
    RawBufSize = 3
    MaxOldData = 1
    DropSize = 1
    MaxTotal = 4
    PassKinds <- AllPasses
    NonblockModes = {FALSE}
    MaxOut = 4
    PtyCap = 2
    Grand = FALSE
    MayStop = FALSE
    c1 = c1
    NoClient = NoClient
    Clients <- OneClient
    MaxBacklog = 1
    Cloexit = FALSE
    ZombieIdle = 1
    OptSet <- Autowait
    ClientTimeouts <- NoTimeout
    EarlyExit = FALSE
    AgeCap <- IdleClocks
    Commands = {"send"}
    MayDetach = FALSE
    MayDie = FALSE
    c2 = c2
PROPERTIES
    ExitsByItself
CHECK_DEADLOCK FALSE
