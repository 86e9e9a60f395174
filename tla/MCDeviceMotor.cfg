SPECIFICATION FairSpec
CONSTANTS
    WifiCommands = {}
    DispCommands <- OffCommand
    Unit = 2
    CntMax = 6
    Top = 255
    Rooms = {1, 2}
    Air <- AirSamples
    MaxInputs = 1
PROPERTIES PowerOffStopsMotor
