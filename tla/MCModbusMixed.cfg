SPECIFICATION Spec
CONSTANTS
    Raw = {disp, dispset, wifi, dcm}
    Silent = {wifi}
    Rtu = {mon}
    Locked = {disp, dispset, mon}
    Urgent = {disp, dispset, wifi, mon}
    Slaves = {s11, s12}
    Late = FALSE
    TxLen = 2
    RxMin = 2
    RxMax = 3
    LineMax = 4
    None = None
SYMMETRY Alike
CHECK_DEADLOCK FALSE
INVARIANTS
    TypeOK BusHasOneUser RequestIsInOneStage CallbackAssertions RegistersFromOwnSlave
    ComposedFrameIsKept LineCarriesOwnFrame
PROPERTY AnswerIsOwn
