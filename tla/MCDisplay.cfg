SPECIFICATION FairSpec
CONSTANTS
    Order <- Settings
    Pressed = {2, 3}
    Phone <- PhoneCommands
    Faults = {1, 4}
    MotorStates = {FALSE}
    Foreign <- Exchanges
    Cuts = {3, 5}
    Garbage = {0, 1}
    MaxEvents = 2
INVARIANTS
    TypeOK FrameIsWhole KeysActOnce
PROPERTIES
    KeysAreReported PanelSettles FaultsSettle
