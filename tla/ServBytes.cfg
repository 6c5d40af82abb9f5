SPECIFICATION ByteFairSpec
CONSTANTS
    RawBufSize = 5
    MaxOldData = 3
    DropSize = 1
    MaxTotal = 8
    PassKinds <- AllPassKinds
    NonblockModes = {TRUE, FALSE}
    Outputs <- CycleOutputs
    Nul = "nul"
    NL = "nl"
    MaxLines = 3
    Pattern <- AB
INVARIANTS
    TypeOK
    Window
    KeepsOldData
    ExpBufBounded
    RawIsWindow
    ExpIsText
    NothingMissed
    ShowsLines
PROPERTY NonblockMakesRoom
CHECK_DEADLOCK FALSE
