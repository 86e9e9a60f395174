SPECIFICATION FairSpec
CONSTANTS
    Raw = {disp}
    Silent = {}
    Rtu = {}
    Locked = {disp}
    Urgent = {disp}
    Slaves = {s11}
    Late = TRUE
    TxLen = 1
    RxMin = 1
    RxMax = 2
    LineMax = 3
    None = None
CHECK_DEADLOCK FALSE
PROPERTY RequestsFinish
