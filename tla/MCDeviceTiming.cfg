SPECIFICATION Spec
CONSTANTS
    WifiCommands <- TimerCommands
    DispCommands = {}
    Unit = 2
    CntMax = 6
    Top = 255
    Rooms = {1, 2}
    Air <- AirSamples
    MaxInputs = 2
INVARIANTS TimingRange
