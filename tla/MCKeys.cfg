SPECIFICATION FairSpec
CONSTANTS
    LongTimes = 3
    DoubleTimes = 2
    U16 = 31
    Timers = {0, 9, 12}
    MaxInputs = 6
INVARIANTS
    TypeOK TimerDigits OneEffectPerPress CountStops
PROPERTIES
    PressHasEffect
