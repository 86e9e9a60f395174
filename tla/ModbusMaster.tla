----------------------------- MODULE ModbusMaster -----------------------------
(* The RS-485 bus master of the main board: the FreeModbus master stack        *)
(* (mb_m.c, mbrtu_m.c), its RT-Thread port (portevent_m.c, porttimer_m.c,      *)
(* portserial_m.c) and the threads of application.c that send requests through *)
(* it.                                                                         *)
(*                                                                             *)
(* Two kinds of request share the bus: Modbus reads of the room sensors        *)
(* (eMBMasterReqReadHoldingRegister, thread SysMonitor) and vendor frames to   *)
(* the display board and the DC motor (eMBMasterReqRead_not_rtu_datas, threads *)
(* disp, dispset, dcm and others).  Every request takes the semaphore          *)
(* xMasterRunRes, posts EV_MASTER_FRAME_SENT to the poll thread and waits, with *)
(* no time limit, for a completion event that the poll thread must produce.    *)
EXTENDS Integers

CONSTANTS
    Raw,      \* threads that compose vendor frames
    Silent,   \* those of them that only compose the frame and request nothing
    Rtu,      \* requesters that read Modbus holding registers
    Locked,   \* the requesters that hold modbus_mutex around the request
    Urgent,   \* the requesters whose priority is above the poll thread's
    Slaves,   \* Modbus addresses that are polled
    Late,     \* may an answer arrive after the respond timeout?
    TxLen,    \* bytes of a transmitted frame
    RxMin,    \* MB_SER_PDU_SIZE_MIN
    RxMax,    \* MB_SER_PDU_SIZE_MAX, the size of ucMasterRTURcvBuf
    LineMax,  \* longest run of bytes a slave puts on the line
    None

Requesters == Raw \cup Rtu

ASSUME RequesterAssumption ==
    /\ Raw \cap Rtu = {}
    /\ Requesters \cap Slaves = {}
    /\ Silent \subseteq Raw
    /\ Locked \subseteq Requesters
    /\ Urgent \subseteq Requesters
    /\ None \notin Requesters \cup Slaves
    /\ Slaves # {}

ASSUME BusAssumption ==
    /\ Late \in BOOLEAN
    /\ TxLen \in Nat \ {0}
    /\ RxMin \in Nat \ {0} /\ RxMax \in Nat /\ RxMin <= RxMax
    /\ LineMax \in Nat /\ RxMin <= LineMax

VARIABLES
    pc,        \* where each requester is in its request
    result,    \* eErrStatus of each requester's last request
    mutex,     \* owner of modbus_mutex
    runRes,    \* value of the semaphore xMasterRunRes
    fin,       \* completion bits of xMasterOsEvent that nobody has received
    ev,        \* poll bits of xMasterOsEvent that are pending
    poll,      \* where the poll thread is
    got,       \* the bits rt_event_recv has handed to the poll thread
    errType,   \* eMBMasterCurErrorType
    dest,      \* ucMBMasterDestAddress
    mbFrame,   \* what ucMBFrame of eMBMasterPoll points at: "rcv" or "snd" buffer
    switch,    \* mb_switch_flag
    rawBuf,    \* who filled rs485_send_buf_not_modbus last
    sndBuf,    \* the message in ucMasterRTUSndBuf
    regs,      \* usMRegHoldBuf: the slave each register block was read from
    rcvState,  \* eRcvState
    rcvPos,    \* usMasterRcvBufferPos
    rcvBuf,    \* content of ucMasterRTURcvBuf
    sndState,  \* eSndState
    txRaw,     \* does pucMasterSndBufferCur point into rs485_send_buf_not_modbus?
    txLeft,    \* usMasterSndBufferCount
    trans,     \* EVENT_SERIAL_TRANS_START is set (and the transceiver drives the line)
    timer,     \* the one-shot timer: "off" or the mode it runs in
    wire,      \* the bytes of the frame just put on the line, as <<format, message>>
    owed,      \* messages a slave has got and may still answer
    line       \* the answer bytes that are on the line

reqVars  == <<pc, result, mutex>>
pollVars == <<ev, poll, got>>
bufVars  == <<dest, switch, rawBuf, sndBuf>>
rxVars   == <<rcvState, rcvPos, rcvBuf>>
txVars   == <<sndState, txRaw, txLeft, trans, wire>>
vars == <<reqVars, runRes, fin, pollVars, errType, mbFrame, bufVars, regs,
          rxVars, txVars, timer, owed, line>>

-------------------------------------------------------------------------------
\* Values

PollEvents == {"READY", "FRAME_RECEIVED", "EXECUTE", "FRAME_SENT", "ERROR_PROCESS"}
FinEvents  == {"PROCESS_SUCESS", "RESPOND_TIMEOUT", "RECEIVE_DATA", "EXECUTE_FUNCTION"}
ErrTypes   == {"RESPOND_TIMEOUT", "RECEIVE_DATA", "EXECUTE_FUNCTION"}
Results    == {"NO_ERR", "TIMEDOUT", "REV_DATA", "EXE_FUN"}
Messages   == Raw \cup Slaves
Formats    == {"raw", "rtu"}
Kinds      == {"good", "badcrc", "exception", "raw"}
\* head: the first byte is still the one that was received
Answers    == [msg : Messages \cup {None}, kind : Kinds, head : BOOLEAN]
Lines      == [msg : Messages, kind : Kinds, left : 1..LineMax]

\* eMBMasterWaitRequestFinish: the result for the bits it receives; a combination
\* matches no case and leaves the initial MB_MRE_NO_ERR.
ReqResult(bits) ==
    CASE bits = {"RESPOND_TIMEOUT"}  -> "TIMEDOUT"
      [] bits = {"RECEIVE_DATA"}     -> "REV_DATA"
      [] bits = {"EXECUTE_FUNCTION"} -> "EXE_FUN"
      [] OTHER                       -> "NO_ERR"

\* xMBMasterPortEventGet: the event for the bits it receives.  A combination
\* matches no case and leaves eEvent of eMBMasterPoll uninitialised: whatever the
\* stack holds, a value of the enumeration or none of them.
DecodedEvents(bits) ==
    IF \E e \in PollEvents : bits = {e} THEN bits ELSE PollEvents \cup {"junk"}

-------------------------------------------------------------------------------
\* Scheduling.  The threads of Urgent preempt the poll thread and the other
\* requesters; so does the thread that feeds the transmitter, which busy-waits.

Runnable(r) ==
    \/ pc[r] = "mutex" /\ mutex = None
    \/ pc[r] = "take" /\ runRes > 0
    \/ pc[r] \in {"fill", "post", "woken", "unlock"}

\* assert_failed of startup.c: an endless loop, here with the interrupts disabled.
Halted == poll = "halted"

LowCanRun == ~trans /\ ~Halted /\ \A u \in Urgent : ~Runnable(u)

CanRun(r) == ~Halted /\ (r \in Urgent \/ LowCanRun)

\* xMBMasterPortEventPost by an interrupt or a requester: a poll thread suspended in
\* rt_event_recv is handed the bit at once, otherwise the bit is kept.
EventPost(e) ==
    IF poll = "wait"
    THEN poll' = "handle" /\ got' = {e} /\ UNCHANGED ev
    ELSE ev' = ev \cup {e} /\ UNCHANGED <<poll, got>>

\* The waiter that rt_event_send and rt_sem_release (RT_IPC_FLAG_PRIO) resume first.
FirstWaiters(at) ==
    LET W == {r \in Requesters : pc[r] = at}
    IN  IF W \cap Urgent # {} THEN W \cap Urgent ELSE W

-------------------------------------------------------------------------------
Init ==
    /\ pc = [r \in Requesters |-> "idle"]
    /\ result = [r \in Requesters |-> "NO_ERR"]
    /\ mutex = None
    /\ runRes = 1
    /\ fin = {} /\ ev = {} /\ got = {} /\ poll = "wait"
    /\ errType = "RESPOND_TIMEOUT"
    /\ dest \in Slaves
    /\ mbFrame = "snd"
    /\ switch = FALSE
    /\ rawBuf = None /\ sndBuf = None
    /\ regs = [s \in Slaves |-> None]
    \* eMBMasterRTUStart
    /\ rcvState = "INIT" /\ rcvPos = 0 /\ rcvBuf = [msg |-> None, kind |-> "raw", head |-> FALSE]
    /\ sndState = "IDLE" /\ txRaw = FALSE /\ txLeft = 0 /\ trans = FALSE
    /\ timer = "T35"
    /\ wire = {} /\ owed = {} /\ line = None

\* The first rt_thread_delay of every requester (100 ms or more) outlasts the T35
\* silence of the start-up (4 ms) and the poll that consumes EV_MASTER_READY.
Booted == rcvState # "INIT" /\ "READY" \notin ev \cup got

-------------------------------------------------------------------------------
\* Requesters

\* Where a thread that is done with the bus goes next.
Left(r) == IF r \in Locked THEN "unlock" ELSE "idle"

\* [mutant] The mutex is taken although another thread holds it.
TakeMutex_Ignored(r) ==
    /\ pc[r] = "mutex" /\ CanRun(r)
    /\ mutex' = r
    /\ pc' = [pc EXCEPT ![r] = "fill"]
    /\ UNCHANGED <<result, runRes, fin, pollVars, errType, mbFrame, bufVars, regs,
                   rxVars, txVars, timer, owed, line>>

\* [mutant] The slave address is stored before the bus is taken.
Fill_EarlyAddress(r) ==
    /\ pc[r] = "fill" /\ CanRun(r)
    /\ pc' = [pc EXCEPT ![r] = IF r \notin Silent THEN "take" ELSE Left(r)]
    /\ rawBuf' = IF r \in Raw THEN r ELSE rawBuf
    /\ rcvBuf' = IF r \in Raw \ Silent THEN [rcvBuf EXCEPT !.head = FALSE] ELSE rcvBuf
    /\ dest' \in Slaves
    /\ UNCHANGED <<result, mutex, runRes, fin, pollVars, errType, mbFrame, switch,
                   sndBuf, regs, rcvState, rcvPos, txVars, timer, owed, line>>

\* [mutant] The result of rt_sem_take is ignored.
RunResTake_Ignored(r) ==
    /\ pc[r] = "take" /\ CanRun(r)
    /\ runRes' = IF runRes > 0 THEN runRes - 1 ELSE runRes
    /\ pc' = [pc EXCEPT ![r] = "post"]
    /\ UNCHANGED <<result, mutex, fin, pollVars, errType, mbFrame, bufVars, regs,
                   rxVars, txVars, timer, owed, line>>

\* The thread's rt_thread_delay is over.
Wake(r) ==
    /\ pc[r] = "idle" /\ Booted /\ ~Halted
    /\ pc' = [pc EXCEPT ![r] = IF r \in Locked THEN "mutex" ELSE "fill"]
    /\ UNCHANGED <<result, mutex, runRes, fin, pollVars, errType, mbFrame, bufVars,
                   regs, rxVars, txVars, timer, owed, line>>

\* rt_mutex_take(modbus_mutex, RT_WAITING_FOREVER)
TakeMutex(r) ==
    /\ pc[r] = "mutex" /\ mutex = None /\ CanRun(r)
    /\ mutex' = r
    /\ pc' = [pc EXCEPT ![r] = "fill"]
    /\ UNCHANGED <<result, runRes, fin, pollVars, errType, mbFrame, bufVars, regs,
                   rxVars, txVars, timer, owed, line>>

\* A vendor frame is composed in rs485_send_buf_not_modbus and the first received
\* byte is cleared, before the bus is taken.  A register read composes nothing yet;
\* set_dc_motor_speed alone (airclean_motor_set, set_device_work_mode) sends nothing.
Fill(r) ==
    /\ pc[r] = "fill" /\ CanRun(r)
    /\ pc' = [pc EXCEPT ![r] = IF r \notin Silent THEN "take" ELSE Left(r)]
    /\ rawBuf' = IF r \in Raw THEN r ELSE rawBuf
    /\ rcvBuf' = IF r \in Raw \ Silent THEN [rcvBuf EXCEPT !.head = FALSE] ELSE rcvBuf
    /\ UNCHANGED <<result, mutex, runRes, fin, pollVars, errType, mbFrame, dest, switch,
                   sndBuf, regs, rcvState, rcvPos, txVars, timer, owed, line>>

\* xMBMasterRunResTake
RunResTake(r) ==
    /\ pc[r] = "take" /\ runRes > 0 /\ CanRun(r)
    /\ runRes' = runRes - 1
    /\ pc' = [pc EXCEPT ![r] = "post"]
    /\ UNCHANGED <<result, mutex, fin, pollVars, errType, mbFrame, bufVars, regs,
                   rxVars, txVars, timer, owed, line>>

\* The call of eMBMasterWaitRequestFinish: completion bits that are already pending
\* are received at once.
StartWait(r) ==
    IF fin # {}
    THEN /\ pc' = [pc EXCEPT ![r] = "woken"]
         /\ result' = [result EXCEPT ![r] = ReqResult(fin)]
         /\ fin' = {}
    ELSE /\ pc' = [pc EXCEPT ![r] = "wait"]
         /\ UNCHANGED <<result, fin>>

\* eMBMasterReqReadHoldingRegister once it has the bus.
ReqReadHoldingRegister(r, s) ==
    /\ r \in Rtu /\ pc[r] = "post" /\ CanRun(r)
    /\ dest' = s /\ sndBuf' = s
    /\ EventPost("FRAME_SENT")
    /\ StartWait(r)
    /\ UNCHANGED <<mutex, runRes, errType, mbFrame, switch, rawBuf, regs, rxVars,
                   txVars, timer, owed, line>>

\* eMBMasterReqRead_not_rtu_datas once it has the bus; the frame is copied as it is now.
ReqRead_not_rtu_datas(r) ==
    /\ r \in Raw /\ pc[r] = "post" /\ CanRun(r)
    /\ sndBuf' = rawBuf /\ switch' = TRUE
    /\ EventPost("FRAME_SENT")
    /\ StartWait(r)
    /\ UNCHANGED <<mutex, runRes, errType, mbFrame, dest, rawBuf, regs, rxVars, txVars,
                   timer, owed, line>>

\* The request returns: a vendor request clears mb_switch_flag.
Return(r) ==
    /\ pc[r] = "woken" /\ CanRun(r)
    /\ pc' = [pc EXCEPT ![r] = Left(r)]
    /\ result' = [result EXCEPT ![r] = "NO_ERR"]
    /\ switch' = IF r \in Raw THEN FALSE ELSE switch
    /\ UNCHANGED <<mutex, runRes, fin, pollVars, errType, mbFrame, dest, rawBuf,
                   sndBuf, regs, rxVars, txVars, timer, owed, line>>

\* rt_mutex_release(modbus_mutex)
ReleaseMutex(r) ==
    /\ pc[r] = "unlock" /\ CanRun(r)
    /\ mutex' = None
    /\ pc' = [pc EXCEPT ![r] = "idle"]
    /\ UNCHANGED <<result, runRes, fin, pollVars, errType, mbFrame, bufVars, regs,
                   rxVars, txVars, timer, owed, line>>

\* The steps of a requester that has the bus, up to the return of the request.
HasBus(r) ==
    \/ \E s \in Slaves : ReqReadHoldingRegister(r, s)
    \/ ReqRead_not_rtu_datas(r) \/ Return(r)

Requester(r) ==
    \/ Wake(r) \/ TakeMutex(r) \/ Fill(r) \/ RunResTake(r) \/ HasBus(r) \/ ReleaseMutex(r)

-------------------------------------------------------------------------------
\* The poll thread (thread_entry_ModbusMasterPoll, eMBMasterPoll)

\* The 10 ms delay between two polls is over; rt_event_recv takes every pending bit.
PollGet ==
    /\ poll = "delay" /\ LowCanRun
    /\ poll' = IF ev = {} THEN "wait" ELSE "handle"
    /\ got' = ev /\ ev' = {}
    /\ UNCHANGED <<reqVars, runRes, fin, errType, mbFrame, bufVars, regs, rxVars,
                   txVars, timer, owed, line>>

Handling(e) == poll = "handle" /\ LowCanRun /\ e \in DecodedEvents(got)

\* EV_MASTER_READY, or a value that no case of the switch matches.
PollNothing ==
    /\ Handling("READY") \/ Handling("junk")
    /\ poll' = "delay" /\ got' = {}
    /\ UNCHANGED <<reqVars, runRes, fin, ev, errType, mbFrame, bufVars, regs, rxVars,
                   txVars, timer, owed, line>>

\* The assert_param of eMBMasterRTUReceive, evaluated in a critical section.
ReceiveAssert == rcvPos < RxMax

\* It fails and the board stops.
PollAssertFails ==
    /\ Handling("FRAME_RECEIVED") /\ ~ReceiveAssert
    /\ poll' = "halted"
    /\ UNCHANGED <<reqVars, runRes, fin, ev, got, errType, mbFrame, bufVars, regs, rxVars,
                   txVars, timer, owed, line>>

\* eMBMasterRTUReceive: the length and CRC check.
FrameIsValid == rcvPos >= RxMin /\ rcvBuf.head /\ rcvBuf.kind \in {"good", "exception"}

PollFrameReceived ==
    /\ Handling("FRAME_RECEIVED") /\ ReceiveAssert
    /\ IF FrameIsValid /\ rcvBuf.msg = dest
       THEN ev' = ev \cup {"EXECUTE"} /\ UNCHANGED errType
       ELSE ev' = ev \cup {"ERROR_PROCESS"} /\ errType' = "RECEIVE_DATA"
    /\ mbFrame' = IF FrameIsValid THEN "rcv" ELSE mbFrame
    /\ poll' = "delay" /\ got' = {}
    /\ UNCHANGED <<reqVars, runRes, fin, bufVars, regs, rxVars, txVars, timer, owed, line>>

\* rt_event_send of a completion bit: the first waiter receives it, or it stays.
Complete(bit) ==
    \/ /\ FirstWaiters("wait") = {}
       /\ fin' = fin \cup {bit}
       /\ UNCHANGED <<pc, result>>
    \/ \E r \in FirstWaiters("wait") :
          /\ pc' = [pc EXCEPT ![r] = "woken"]
          /\ result' = [result EXCEPT ![r] = ReqResult({bit})]
          /\ UNCHANGED fin

\* eMBMasterFuncReadHoldingRegister accepts the frame: it has the function code and
\* the byte count that the request in the send buffer asks for.
AnswerFits == mbFrame = "rcv" /\ rcvBuf.kind = "good" /\ sndBuf \in Slaves

PollExecute ==
    /\ Handling("EXECUTE")
    /\ got' = {}
    /\ IF AnswerFits
       THEN /\ regs' = [regs EXCEPT ![dest] = rcvBuf.msg]
            /\ Complete("PROCESS_SUCESS")
            /\ poll' = "release"
            /\ UNCHANGED <<ev, errType>>
       ELSE /\ ev' = ev \cup {"ERROR_PROCESS"} /\ errType' = "EXECUTE_FUNCTION"
            /\ poll' = "delay"
            /\ UNCHANGED <<pc, result, fin, regs>>
    /\ UNCHANGED <<mutex, runRes, mbFrame, bufVars, rxVars, txVars, timer, owed, line>>

\* eMBMasterRTUSend / eMBMaster_Send_not_datas; MB_EIO is ignored by the caller.  The
\* transceiver turns to sending, and bytes of a late answer that are on the line are lost.
PollFrameSent ==
    /\ Handling("FRAME_SENT")
    /\ mbFrame' = "snd"
    /\ IF rcvState = "IDLE"
       THEN /\ sndState' = "XMIT" /\ trans' = TRUE /\ txLeft' = TxLen
            /\ txRaw' = switch /\ wire' = {}
            /\ sndBuf' = IF ~switch /\ sndBuf \in Slaves THEN dest ELSE sndBuf
            /\ line' = None
       ELSE UNCHANGED <<txVars, sndBuf, line>>
    /\ poll' = "delay" /\ got' = {}
    /\ UNCHANGED <<reqVars, runRes, fin, ev, errType, dest, switch, rawBuf, regs, rxVars,
                   timer, owed>>

PollErrorProcess ==
    /\ Handling("ERROR_PROCESS")
    /\ mbFrame' = "snd"
    /\ Complete(errType)
    /\ poll' = "release" /\ got' = {}
    /\ UNCHANGED <<mutex, runRes, ev, errType, bufVars, regs, rxVars, txVars, timer,
                   owed, line>>

\* vMBMasterRunResRelease at the end of a request.
RunResRelease ==
    /\ poll = "release" /\ LowCanRun
    /\ poll' = "delay"
    /\ \/ /\ FirstWaiters("take") = {}
          /\ runRes' = runRes + 1
          /\ UNCHANGED pc
       \/ \E r \in FirstWaiters("take") :
             /\ pc' = [pc EXCEPT ![r] = "post"]
             /\ UNCHANGED runRes
    /\ UNCHANGED <<result, mutex, fin, ev, got, errType, mbFrame, bufVars, regs, rxVars,
                   txVars, timer, owed, line>>

Poll ==
    \/ PollGet \/ PollNothing \/ PollAssertFails \/ PollFrameReceived \/ PollExecute
    \/ PollFrameSent \/ PollErrorProcess \/ RunResRelease

-------------------------------------------------------------------------------
\* The transmitter thread (serial_soft_trans_irq, xMBMasterRTUTransmitFSM).  It never meets
\* an idle send state: CallbackAssertions.

TransmitByte ==
    /\ trans /\ sndState = "XMIT" /\ txLeft > 0
    /\ txLeft' = txLeft - 1
    /\ wire' = wire \cup {IF txRaw THEN <<"raw", rawBuf>> ELSE <<"rtu", sndBuf>>}
    /\ UNCHANGED <<reqVars, runRes, fin, pollVars, errType, mbFrame, bufVars, regs,
                   rxVars, sndState, txRaw, trans, timer, owed, line>>

\* The messages a peer understands in the bytes of the frame.
Understood ==
    {m \in Messages : \/ m \in Raw /\ wire = {<<"raw", m>>}
                      \/ m \in Slaves /\ wire = {<<"rtu", m>>}}

TransmitDone ==
    /\ trans /\ sndState = "XMIT" /\ txLeft = 0
    /\ trans' = FALSE /\ sndState' = "XFWR"
    /\ timer' = "RESPOND"
    /\ owed' = IF Late THEN owed \cup Understood ELSE Understood
    /\ UNCHANGED <<reqVars, runRes, fin, pollVars, errType, mbFrame, bufVars, regs,
                   rxVars, txRaw, txLeft, wire, line>>

Transmitter == TransmitByte \/ TransmitDone

-------------------------------------------------------------------------------
\* Interrupts: received bytes and the one-shot timer

\* [mutant] One byte too many.
RoomLeft_OffByOne == rcvPos <= RxMax

\* Another byte fits into ucMasterRTURcvBuf.
RoomLeft == rcvPos < RxMax

\* [mutant] An overrun of the buffer is not reported.
TimerEvent_NoOverrun ==
    CASE rcvState = "INIT" -> "READY"
      [] rcvState = "RCV"  -> "FRAME_RECEIVED"
      [] rcvState = "IDLE" /\ sndState = "XFWR" -> "ERROR_PROCESS"
      [] OTHER -> "none"

\* The event that the expired timer posts.
TimerEvent ==
    CASE rcvState = "INIT"  -> "READY"
      [] rcvState = "RCV"   -> "FRAME_RECEIVED"
      [] rcvState = "ERROR" -> "ERROR_PROCESS"
      [] rcvState = "IDLE" /\ sndState = "XFWR" -> "ERROR_PROCESS"
      [] OTHER -> "none"

\* [mutant] The respond timeout keeps the error type of the last error.
TimerError_Stale ==
    IF TimerEvent = "ERROR_PROCESS" /\ rcvState = "ERROR" THEN "RECEIVE_DATA" ELSE errType

\* The error type that goes with it.
TimerError ==
    CASE TimerEvent # "ERROR_PROCESS" -> errType
      [] TimerEvent = "ERROR_PROCESS" /\ rcvState = "ERROR" -> "RECEIVE_DATA"
      [] TimerEvent = "ERROR_PROCESS" /\ rcvState # "ERROR" -> "RESPOND_TIMEOUT"

\* xMBMasterRTUReceiveFSM
RTUReceiveFSM ==
    /\ line # None /\ ~trans /\ ~Halted
    /\ line' = IF line.left = 1 THEN None ELSE [line EXCEPT !.left = @ - 1]
    /\ timer' = "T35"
    /\ \/ /\ rcvState \in {"INIT", "ERROR"}
          /\ UNCHANGED <<rxVars, sndState, wire>>
       \/ /\ rcvState = "IDLE"
          /\ sndState' = "IDLE" /\ wire' = {}
          /\ rcvPos' = 1 /\ rcvBuf' = [msg |-> line.msg, kind |-> line.kind, head |-> TRUE]
          /\ rcvState' = "RCV"
       \/ /\ rcvState = "RCV"
          /\ IF RoomLeft
             THEN rcvPos' = rcvPos + 1 /\ UNCHANGED rcvState
             ELSE rcvState' = "ERROR" /\ UNCHANGED rcvPos
          /\ UNCHANGED <<rcvBuf, sndState, wire>>
    /\ UNCHANGED <<reqVars, runRes, fin, pollVars, errType, mbFrame, bufVars, regs,
                   txRaw, txLeft, trans, owed>>

\* xMBMasterRTUTimerExpired.  The bytes of one answer follow each other within T35; the
\* respond timeout (200 ms) outlasts the delay of the poll thread (10 ms).
RTUTimerExpired ==
    /\ timer # "off" /\ ~Halted
    /\ timer = "RESPOND" => poll = "wait"
    /\ line # None => Late /\ timer = "RESPOND"
    /\ IF TimerEvent # "none" THEN EventPost(TimerEvent) ELSE UNCHANGED pollVars
    /\ errType' = TimerError
    /\ rcvState' = "IDLE" /\ sndState' = "IDLE" /\ wire' = {}
    /\ timer' = "off"
    /\ owed' = IF Late THEN owed ELSE {}
    /\ UNCHANGED <<reqVars, runRes, fin, mbFrame, bufVars, regs, rcvPos, rcvBuf,
                   txRaw, txLeft, trans, line>>

-------------------------------------------------------------------------------
\* The slaves (external)

AnswerKinds(m) == IF m \in Slaves THEN {"good", "badcrc", "exception"} ELSE {"raw"}

\* A prompt slave answers while the master waits for it, or not at all; a late one may
\* answer at any later time.  (An answer that meets the driven line is lost: as if not given.)
SlaveAnswer(m) ==
    /\ m \in owed /\ line = None /\ ~trans
    /\ Late \/ timer = "RESPOND"
    /\ owed' = owed \ {m}
    /\ \E k \in AnswerKinds(m), n \in 1..LineMax :
          /\ k # "badcrc" => n = RxMin
          /\ line' = [msg |-> m, kind |-> k, left |-> n]
    /\ UNCHANGED <<reqVars, runRes, fin, pollVars, errType, mbFrame, bufVars, regs,
                   rxVars, txVars, timer>>

Environment == \E m \in Messages : SlaveAnswer(m)

-------------------------------------------------------------------------------
Next ==
    \/ \E r \in Requesters : Requester(r)
    \/ Poll \/ Transmitter \/ RTUReceiveFSM \/ RTUTimerExpired \/ Environment

Spec == Init /\ [][Next]_vars

\* Every thread and interrupt makes progress when it can: RT-Thread runs the highest
\* ready thread, the one-shot timer expires, the bytes on the line arrive.  A slave
\* need not answer and a requester need not start.  A requester below the urgent ones is
\* interrupted by them again and again, but they sleep between two requests and while they
\* wait for one, and then it runs: strong fairness once it has the bus.
Fairness ==
    /\ \A r \in Requesters :
          /\ WF_vars(TakeMutex(r)) /\ WF_vars(Fill(r)) /\ WF_vars(RunResTake(r))
          /\ SF_vars(HasBus(r))
          /\ WF_vars(ReleaseMutex(r))
    /\ SF_vars(Poll)
    /\ WF_vars(Transmitter)
    /\ WF_vars(RTUReceiveFSM) /\ WF_vars(RTUTimerExpired)

FairSpec == Spec /\ Fairness

-------------------------------------------------------------------------------
\* Properties

Stages == {"idle", "mutex", "fill", "take", "post", "wait", "woken", "unlock"}

ReqType ==
    /\ pc \in [Requesters -> Stages]
    /\ result \in [Requesters -> Results]
    /\ mutex \in Requesters \cup {None}
    /\ runRes \in Nat
    /\ fin \in SUBSET FinEvents

PollType ==
    /\ ev \in SUBSET PollEvents
    /\ poll \in {"wait", "delay", "handle", "release", "halted"}
    /\ got \in SUBSET PollEvents
    /\ errType \in ErrTypes
    /\ mbFrame \in {"rcv", "snd"}

BufType ==
    /\ dest \in Slaves
    /\ switch \in BOOLEAN
    /\ rawBuf \in Raw \cup {None}
    /\ sndBuf \in Messages \cup {None}
    /\ regs \in [Slaves -> Messages \cup {None}]

RxType ==
    /\ rcvState \in {"INIT", "IDLE", "RCV", "ERROR"}
    /\ rcvPos \in 0..RxMax
    /\ rcvBuf \in Answers

TxType ==
    /\ sndState \in {"IDLE", "XMIT", "XFWR"}
    /\ txRaw \in BOOLEAN
    /\ txLeft \in 0..TxLen
    /\ trans \in BOOLEAN
    /\ wire \in SUBSET (Formats \X (Messages \cup {None}))

LineType ==
    /\ timer \in {"off", "T35", "RESPOND"}
    /\ owed \in SUBSET Messages
    /\ line \in Lines \cup {None}

\* Type invariant; in particular the receive position stays inside ucMasterRTURcvBuf.
TypeOK == ReqType /\ PollType /\ BufType /\ RxType /\ TxType /\ LineType

InFlight(r) == pc[r] \in {"post", "wait"}
Waiting == \E r \in Requesters : pc[r] = "wait"

\* The bus has one user: the semaphore is free, or one request has taken it and is not
\* complete, or the poll thread is about to release it for the request it completed.
BusHasOneUser ==
    /\ runRes \in {0, 1}
    /\ \A r, q \in Requesters : InFlight(r) /\ InFlight(q) => r = q
    /\ runRes = 1 <=> ~(poll = "release" \/ \E r \in Requesters : InFlight(r))
    /\ poll = "release" => \A r \in Requesters : ~InFlight(r)

Pending == ev \cup got

\* The stages of a transaction after the request.
Transaction == {"to send", "sending", "awaiting", "receiving", "to judge"}

InStage(t) ==
    CASE t = "to send"   -> "FRAME_SENT" \in Pending
      [] t = "sending"   -> sndState = "XMIT" /\ trans
      [] t = "awaiting"  -> sndState = "XFWR" /\ timer = "RESPOND"
      [] t = "receiving" -> rcvState \in {"RCV", "ERROR"} /\ timer = "T35"
      [] t = "to judge"  -> \E e \in Pending : e \in {"FRAME_RECEIVED", "EXECUTE", "ERROR_PROCESS"}

\* A request that waits is in exactly one stage of its transaction, so nothing can drop
\* it; without one the bus is silent; and two bits never reach the poll thread together
\* (xMBMasterPortEventGet would recognise neither).
RequestIsInOneStage ==
    /\ \A e, f \in Pending : e = f
    /\ \A t, u \in Transaction : InStage(t) /\ InStage(u) => t = u
    /\ Waiting <=> \E t \in Transaction : InStage(t)

\* The assert_param conditions of the three callbacks of mbrtu_m.c hold whenever the
\* callback can run: no byte is received while sending, no byte is sent while receiving
\* and the timer never expires while sending.  Nor does the transmitter meet an idle send
\* state (the first case of xMBMasterRTUTransmitFSM).  The fourth assert_param, the one of
\* eMBMasterRTUReceive, is ReceiveAssertion, which does not hold.
CallbackAssertions ==
    /\ line # None /\ ~trans => sndState \in {"IDLE", "XFWR"}
    /\ trans => rcvState = "IDLE" /\ sndState = "XMIT"
    /\ timer # "off" => sndState \in {"XFWR", "IDLE"}

\* The registers kept for a sensor (usMRegHoldBuf) were read from that sensor, though the
\* address they are filed under is the one of the request at hand.
RegistersFromOwnSlave == \A s \in Slaves : regs[s] \in {None, s}

\* Composers that do not hold modbus_mutex: the motor thread (set_dc_motor) and the Wi-Fi
\* thread (set_dc_motor_speed in set_device_work_mode).
Unlocked == Raw \ Locked

\* Who may have composed what is in the frame buffer while r's request is outstanding.
Composers(r) == {r} \cup Unlocked

\* While a vendor request is outstanding that was made under modbus_mutex, no other thread
\* with the mutex composes a frame in the buffer the transmitter reads it from, however late
\* slaves answer.  The threads without the mutex do overwrite it.
ComposedFrameIsKept ==
    \A r \in Raw \cap Locked : pc[r] \in {"take", "post", "wait"} => rawBuf \in Composers(r)

\* The bytes on the line for such a request are its own or those of a thread without the
\* mutex: never a sensor's request and never the frame of another thread with the mutex.
LineCarriesOwnFrame ==
    \A r \in Raw \cap Locked :
        pc[r] = "wait" /\ sndState = "XFWR" => \A b \in wire : b[2] \in Composers(r)

\* A vendor request is sent in vendor format, never wrapped as a Modbus frame.
RawRequestIsSentRaw ==
    \A r \in Raw : pc[r] = "wait" /\ sndState = "XFWR" => \A b \in wire : b[1] = "raw"

\* What a requester with the mutex finds in the receive buffer when its request returns with
\* MB_MRE_REV_DATA is the answer to its own frame, or to one that a thread without the mutex
\* composed over it: never a sensor's answer, never that of an earlier request of another
\* thread with the mutex.
AnswerIsOwn ==
    [][\A r \in Raw \cap Locked :
          pc[r] = "woken" /\ pc'[r] # "woken" /\ result[r] = "REV_DATA"
            => rcvBuf.kind = "raw" /\ rcvBuf.msg \in Composers(r)]_vars

\* The assert_param of eMBMasterRTUReceive (mbrtu_m.c:163) holds whenever a received frame is
\* handled: the receive position is below the size of the buffer.
ReceiveAssertion == Handling("FRAME_RECEIVED") => ReceiveAssert

\* What a requester sees of the bus.
phase == [r \in Requesters |->
             IF InFlight(r) THEN "active" ELSE IF pc[r] = "woken" THEN "done" ELSE "idle"]

Service == INSTANCE BusService WITH Requesters <- Requesters, phase <- phase, stopped <- Halted

\* The master serves requests one at a time and completes each one once (the semaphore
\* xMasterRunRes and the completion events, seen from the requesters).
ImplementsService == Service!Spec

\* The same, and no request that has the bus is forgotten: with the scheduler's fairness
\* every such request completes and its requester leaves eMBMasterReq..., unless the board
\* stops in assert_failed.
ImplementsFairService == Service!FairSpec

\* Every request that waits in eMBMasterWaitRequestFinish for its completion gets it, unless
\* the board stops in assert_failed.
RequestsFinish == \A r \in Requesters : pc[r] = "wait" ~> pc[r] = "woken" \/ Halted

\* modbus_mutex is always given back: no thread keeps the display board and the motor from
\* the others for ever, though eMBMasterWaitRequestFinish waits with no time limit; unless the
\* board stops in assert_failed.
MutexIsReturned == mutex # None ~> mutex = None \/ Halted

===============================================================================
