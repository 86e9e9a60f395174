SPECIFICATION FairSpec
CONSTANTS
    Threads = {wifi, disp}
    Urgent = {wifi}
    PageSize = 4
    Pages = 1
    FlagAddr = 0
    DataAddr = 1
    DataLen = 3
    Unsaved = {3}
    Values = {on, off}
    Valid = Valid
    Junk = Blank
    Blank = Blank
    None = None
    MaxOps = 3
CHECK_DEADLOCK FALSE
INVARIANTS
    TypeOK WritesAreSplit FlashIsCurrent
PROPERTIES
    CutKeepsSettings SavesFinish
