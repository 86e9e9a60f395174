SPECIFICATION FairSpec
CONSTANTS
    Raw = {disp, dcm}
    Silent = {}
    Rtu = {mon}
    Locked = {disp, mon}
    Urgent = {disp, mon}
    Slaves = {s11}
    Late = FALSE
    TxLen = 1
    RxMin = 2
    RxMax = 3
    LineMax = 4
    None = None
CHECK_DEADLOCK FALSE
PROPERTIES
    ImplementsFairService MutexIsReturned
