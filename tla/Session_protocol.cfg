SPECIFICATION SessSpec
CONSTANTS
    RawBufSize = 3
    MaxOldData = 1
    DropSize = 1
    MaxTotal = 1
    PassKinds <- AllPasses
    NonblockModes = {FALSE}
    MaxOut = 1
    PtyCap = 2
    Grand = FALSE
    MayStop = FALSE
    c1 = c1
    c2 = c2
    NoClient = NoClient
    Clients <- TwoClients
    MaxBacklog = 1
    Cloexit = FALSE
    ZombieIdle <- Off
    OptSet <- DefaultOnly
    ClientTimeouts <- NoTimeout
    EarlyExit = TRUE
    AgeCap <- NoClock
    Commands = {"expect", "eof", "nopattern", "interact", "interact_re", "wait",
                "kill", "close", "get", "expect_out", "mismatch"}
    MayDetach = FALSE
    MayDie = TRUE
SYMMETRY ClientSymmetry
INVARIANTS
    SessTypeOK
    AnswersFit
    NoClientBug
    EndMeansDrained
    PidStillOurs
PROPERTIES
    ImplementsService
CHECK_DEADLOCK FALSE
