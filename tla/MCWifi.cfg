SPECIFICATION FairSpec
CONSTANTS
    Commands <- PhoneCommands
    Start = 241
    End = 126
    Query = 247
    Answer <- ModuleAnswer
    BufSize = 24
    Top = 255
    Retries = 1
    Resync = 2
    MaxInputs = 4
    MaxLost = 2
CHECK_DEADLOCK FALSE
INVARIANTS
    TypeOK StaysInBuffer ExecutedWasSent
PROPERTIES
    LastCommandWins LineIsGivenBack
