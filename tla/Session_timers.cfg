SPECIFICATION SessFairSpec
CONSTANTS
    RawBufSize = 3
    MaxOldData = 1
    DropSize = 1
    MaxTotal = 3
    PassKinds <- AllPasses
    NonblockModes = {FALSE}
    MaxOut = 3
    PtyCap = 1
    Grand = FALSE
    MayStop = FALSE
    c1 = c1
    NoClient = NoClient
    Clients <- OneClient
    MaxBacklog = 1
    Cloexit = FALSE
    ZombieIdle = 1
    OptSet <- Timers
    ClientTimeouts = {0}
    EarlyExit = FALSE
    AgeCap <- IdleClocks
    Commands = {"eof", "set", "mismatch"}
    MayDetach = FALSE
    MayDie = TRUE
    c2 = c2
INVARIANTS
    IdleClock
PROPERTIES
    NoOrphanServer
CHECK_DEADLOCK FALSE
