SPECIFICATION FairSpec
CONSTANTS
    WifiCommands <- PhoneCommands
    DispCommands <- KeyCommands
    Unit = 2
    CntMax = 6
    Top = 13
    Rooms = {1, 2}
    Air <- AirSamples
    MaxInputs = 3
INVARIANTS TypeOK SettingsAreSaved ModeIsKnown LevelIsOfWorstOrBest
PROPERTIES TimerRunsOut CommandsFinish
