-------------------------- MODULE ModbusMasterProofs --------------------------
(* Proofs about the bus master, for every set of requesters and slaves and     *)
(* every frame length.                                                         *)
EXTENDS ModbusMaster, TLAPS

-------------------------------------------------------------------------------
\* Typing

\* The waiter that an event or the semaphore resumes first is one of the waiters.
LEMMA FirstWaitersFact ==
    ASSUME NEW at
    PROVE  /\ \A r \in FirstWaiters(at) : r \in Requesters /\ pc[r] = at
           /\ FirstWaiters(at) = {} => \A r \in Requesters : pc[r] # at
BY DEF FirstWaiters

\* A wire with nothing on it has the type of the wire.
LEMMA EmptyWire == {} \in SUBSET (Formats \X (Messages \cup {None}))
OBVIOUS

\* The type invariant holds for every instance, with and without late answers.
THEOREM TypeCorrect == Spec => []TypeOK
<1> USE RequesterAssumption, BusAssumption
<1>1. Init => TypeOK
  <2> SUFFICES ASSUME Init PROVE TypeOK
    OBVIOUS
  <2>1. ReqType  BY DEF Init, ReqType, Requesters, Stages, Results
  <2>2. PollType BY DEF Init, PollType, ErrTypes
  <2>3. BufType  BY DEF Init, BufType
  <2>4. RxType   BY DEF Init, RxType, Answers, Kinds
  <2>5. TxType
    <3>1. txLeft \in 0..TxLen BY DEF Init
    <3>2. sndState = "IDLE" /\ txRaw = FALSE /\ trans = FALSE /\ wire = {} BY DEF Init
    <3> QED BY <3>1, <3>2, EmptyWire DEF TxType
  <2>6. LineType BY DEF Init, LineType
  <2> QED BY <2>1, <2>2, <2>3, <2>4, <2>5, <2>6 DEF TypeOK
<1>2. TypeOK /\ [Next]_vars => TypeOK'
  <2> SUFFICES ASSUME TypeOK, [Next]_vars PROVE TypeOK'
    OBVIOUS
  <2> USE DEF TypeOK
  <2>1. ASSUME NEW r \in Requesters, Wake(r) PROVE TypeOK'
    <3>1. ReqType'
      BY <2>1 DEF Wake, ReqType, Stages
    <3>2. PollType' /\ BufType' /\ RxType' /\ TxType' /\ LineType'
      BY <2>1 DEF Wake, PollType, BufType, RxType, TxType, LineType, pollVars, bufVars, rxVars, txVars
    <3> QED BY <3>1, <3>2
  <2>2. ASSUME NEW r \in Requesters, TakeMutex(r) PROVE TypeOK'
    <3>1. ReqType'
      BY <2>2 DEF TakeMutex, ReqType, Stages
    <3>2. PollType' /\ BufType' /\ RxType' /\ TxType' /\ LineType'
      BY <2>2 DEF TakeMutex, PollType, BufType, RxType, TxType, LineType, pollVars, bufVars, rxVars, txVars
    <3> QED BY <3>1, <3>2
  <2>3. ASSUME NEW r \in Requesters, Fill(r) PROVE TypeOK'
    <3>1. ReqType'
      BY <2>3 DEF Fill, ReqType, Stages, Left
    <3>2. BufType'
      BY <2>3 DEF Fill, BufType
    <3>3. RxType'
      BY <2>3 DEF Fill, RxType, Answers
    <3>4. PollType' /\ TxType' /\ LineType'
      BY <2>3 DEF Fill, PollType, TxType, LineType, pollVars, txVars
    <3> QED BY <3>1, <3>2, <3>3, <3>4
  <2>4. ASSUME NEW r \in Requesters, RunResTake(r) PROVE TypeOK'
    <3>1. ReqType'
      BY <2>4 DEF RunResTake, ReqType, Stages
    <3>2. PollType' /\ BufType' /\ RxType' /\ TxType' /\ LineType'
      BY <2>4 DEF RunResTake, PollType, BufType, RxType, TxType, LineType, pollVars, bufVars, rxVars, txVars
    <3> QED BY <3>1, <3>2
  <2>5. ASSUME NEW r \in Requesters, NEW s \in Slaves, ReqReadHoldingRegister(r, s)
        PROVE  TypeOK'
    <3>1. ReqType'
      BY <2>5 DEF ReqReadHoldingRegister, ReqType, StartWait, ReqResult, Results, Stages
    <3>2. PollType'
      BY <2>5 DEF ReqReadHoldingRegister, PollType, EventPost, PollEvents
    <3>3. BufType'
      BY <2>5 DEF ReqReadHoldingRegister, BufType, Messages
    <3>4. RxType' /\ TxType' /\ LineType'
      BY <2>5 DEF ReqReadHoldingRegister, RxType, TxType, LineType, rxVars, txVars
    <3> QED BY <3>1, <3>2, <3>3, <3>4
  <2>6. ASSUME NEW r \in Requesters, ReqRead_not_rtu_datas(r) PROVE TypeOK'
    <3>1. ReqType'
      BY <2>6 DEF ReqRead_not_rtu_datas, ReqType, StartWait, ReqResult, Results, Stages
    <3>2. PollType'
      BY <2>6 DEF ReqRead_not_rtu_datas, PollType, EventPost, PollEvents
    <3>3. BufType'
      BY <2>6 DEF ReqRead_not_rtu_datas, BufType, Messages
    <3>4. RxType' /\ TxType' /\ LineType'
      BY <2>6 DEF ReqRead_not_rtu_datas, RxType, TxType, LineType, rxVars, txVars
    <3> QED BY <3>1, <3>2, <3>3, <3>4
  <2>7. ASSUME NEW r \in Requesters, Return(r) PROVE TypeOK'
    <3>1. ReqType'
      BY <2>7 DEF Return, ReqType, Stages, Results, Left
    <3>2. BufType'
      BY <2>7 DEF Return, BufType
    <3>3. PollType' /\ RxType' /\ TxType' /\ LineType'
      BY <2>7 DEF Return, PollType, RxType, TxType, LineType, pollVars, rxVars, txVars
    <3> QED BY <3>1, <3>2, <3>3
  <2>8. ASSUME NEW r \in Requesters, ReleaseMutex(r) PROVE TypeOK'
    <3>1. ReqType'
      BY <2>8 DEF ReleaseMutex, ReqType, Stages
    <3>2. PollType' /\ BufType' /\ RxType' /\ TxType' /\ LineType'
      BY <2>8 DEF ReleaseMutex, PollType, BufType, RxType, TxType, LineType, pollVars, bufVars, rxVars, txVars
    <3> QED BY <3>1, <3>2
  <2>9. CASE PollGet
    <3>1. PollType'
      BY <2>9 DEF PollGet, PollType
    <3>2. ReqType' /\ BufType' /\ RxType' /\ TxType' /\ LineType'
      BY <2>9 DEF PollGet, ReqType, BufType, RxType, TxType, LineType, reqVars, bufVars, rxVars, txVars
    <3> QED BY <3>1, <3>2
  <2>10. CASE PollNothing
    <3>1. PollType'
      BY <2>10 DEF PollNothing, PollType
    <3>2. ReqType' /\ BufType' /\ RxType' /\ TxType' /\ LineType'
      BY <2>10 DEF PollNothing, ReqType, BufType, RxType, TxType, LineType, reqVars, bufVars, rxVars, txVars
    <3> QED BY <3>1, <3>2
  <2>11. CASE PollFrameReceived
    <3>1. PollType'
      BY <2>11 DEF PollFrameReceived, PollType, ErrTypes, PollEvents
    <3>2. ReqType' /\ BufType' /\ RxType' /\ TxType' /\ LineType'
      BY <2>11 DEF PollFrameReceived, ReqType, BufType, RxType, TxType, LineType, reqVars, bufVars, rxVars, txVars
    <3> QED BY <3>1, <3>2
  <2>24. CASE PollAssertFails
    <3>1. PollType'
      BY <2>24 DEF PollAssertFails, PollType
    <3>2. ReqType' /\ BufType' /\ RxType' /\ TxType' /\ LineType'
      BY <2>24 DEF PollAssertFails, ReqType, BufType, RxType, TxType, LineType, reqVars, bufVars, rxVars, txVars
    <3> QED BY <3>1, <3>2
  <2>12. ASSUME NEW bit \in FinEvents, Complete(bit)
         PROVE  /\ pc' \in [Requesters -> Stages]
                /\ result' \in [Requesters -> Results]
                /\ fin' \in SUBSET FinEvents
    BY <2>12, FirstWaitersFact DEF ReqType, Complete, ReqResult, Stages, Results
  <2>13. CASE PollExecute
    <3>1. ReqType'
      BY <2>13, <2>12 DEF PollExecute, ReqType, FinEvents
    <3>2. PollType'
      BY <2>13 DEF PollExecute, PollType, ErrTypes, PollEvents
    <3>3. BufType'
      <4>1. rcvBuf.msg \in Messages \cup {None}
        BY DEF RxType, Answers
      <4>2. regs' \in [Slaves -> Messages \cup {None}]
        BY <2>13, <4>1 DEF PollExecute, BufType
      <4> QED
        BY <2>13, <4>2 DEF PollExecute, BufType, bufVars
    <3>4. RxType' /\ TxType' /\ LineType'
      BY <2>13 DEF PollExecute, RxType, TxType, LineType, rxVars, txVars
    <3> QED BY <3>1, <3>2, <3>3, <3>4
  <2>14. CASE PollFrameSent
    <3>1. PollType'
      BY <2>14 DEF PollFrameSent, PollType
    <3>2. BufType'
      BY <2>14 DEF PollFrameSent, BufType, Messages
    <3>3. TxType'
      <4>1. CASE rcvState = "IDLE"
        BY <2>14, <4>1, EmptyWire DEF PollFrameSent, TxType, BufType
      <4>2. CASE rcvState # "IDLE"
        BY <2>14, <4>2 DEF PollFrameSent, TxType, txVars
      <4> QED BY <4>1, <4>2
    <3>4. ReqType' /\ RxType' /\ LineType'
      BY <2>14 DEF PollFrameSent, ReqType, RxType, LineType, reqVars, rxVars
    <3> QED BY <3>1, <3>2, <3>3, <3>4
  <2>15. CASE PollErrorProcess
    <3>1. ReqType'
      BY <2>15, <2>12 DEF PollErrorProcess, ReqType, PollType, ErrTypes, FinEvents
    <3>2. PollType'
      BY <2>15 DEF PollErrorProcess, PollType
    <3>3. BufType' /\ RxType' /\ TxType' /\ LineType'
      BY <2>15 DEF PollErrorProcess, BufType, RxType, TxType, LineType, bufVars, rxVars, txVars
    <3> QED BY <3>1, <3>2, <3>3
  <2>16. CASE RunResRelease
    <3>1. ReqType'
      BY <2>16, FirstWaitersFact DEF RunResRelease, ReqType, Stages
    <3>2. PollType'
      BY <2>16 DEF RunResRelease, PollType
    <3>3. BufType' /\ RxType' /\ TxType' /\ LineType'
      BY <2>16 DEF RunResRelease, BufType, RxType, TxType, LineType, bufVars, rxVars, txVars
    <3> QED BY <3>1, <3>2, <3>3
  <2>17. CASE TransmitByte
    <3>1. TxType'
      BY <2>17 DEF TransmitByte, TxType, BufType, Formats, Messages
    <3>2. ReqType' /\ PollType' /\ BufType' /\ RxType' /\ LineType'
      BY <2>17 DEF TransmitByte, ReqType, PollType, BufType, RxType, LineType, reqVars, pollVars, bufVars, rxVars
    <3> QED BY <3>1, <3>2
  <2>18. CASE TransmitDone
    <3>1. TxType'
      BY <2>18 DEF TransmitDone, TxType
    <3>2. LineType'
      BY <2>18 DEF TransmitDone, LineType, Understood
    <3>3. ReqType' /\ PollType' /\ BufType' /\ RxType'
      BY <2>18 DEF TransmitDone, ReqType, PollType, BufType, RxType, reqVars, pollVars, bufVars, rxVars
    <3> QED BY <3>1, <3>2, <3>3
  <2>19. CASE RTUReceiveFSM
    <3>1. line \in Lines
      BY <2>19 DEF RTUReceiveFSM, LineType
    <3>2. LineType'
      BY <2>19, <3>1 DEF RTUReceiveFSM, LineType, Lines
    <3>3. RxType'
      <4>1. [msg |-> line.msg, kind |-> line.kind, head |-> TRUE] \in Answers
        BY <3>1 DEF Lines, Answers
      <4>2. rcvBuf' \in Answers
        BY <2>19, <4>1 DEF RTUReceiveFSM, RxType, rxVars
      <4>3. rcvState' \in {"INIT", "IDLE", "RCV", "ERROR"} /\ rcvPos' \in 0..RxMax
        BY <2>19 DEF RTUReceiveFSM, RxType, RoomLeft, rxVars
      <4> QED BY <4>2, <4>3 DEF RxType
    <3>4. TxType'
      BY <2>19 DEF RTUReceiveFSM, TxType
    <3>5. ReqType' /\ PollType' /\ BufType'
      BY <2>19 DEF RTUReceiveFSM, ReqType, PollType, BufType, reqVars, pollVars, bufVars
    <3> QED BY <3>2, <3>3, <3>4, <3>5
  <2>20. CASE RTUTimerExpired
    <3>1. PollType'
      BY <2>20 DEF RTUTimerExpired, PollType, TimerEvent, TimerError, EventPost, PollEvents, ErrTypes, pollVars
    <3>2. RxType'
      BY <2>20 DEF RTUTimerExpired, RxType
    <3>3. TxType'
      BY <2>20 DEF RTUTimerExpired, TxType
    <3>4. LineType'
      BY <2>20 DEF RTUTimerExpired, LineType
    <3>5. ReqType' /\ BufType'
      BY <2>20 DEF RTUTimerExpired, ReqType, BufType, reqVars, bufVars
    <3> QED BY <3>1, <3>2, <3>3, <3>4, <3>5
  <2>21. ASSUME NEW m \in Messages, SlaveAnswer(m) PROVE TypeOK'
    <3>1. LineType'
      BY <2>21 DEF SlaveAnswer, LineType, AnswerKinds, Kinds, Lines
    <3>2. ReqType' /\ PollType' /\ BufType' /\ RxType' /\ TxType'
      BY <2>21 DEF SlaveAnswer, ReqType, PollType, BufType, RxType, TxType, reqVars, pollVars, bufVars, rxVars, txVars
    <3> QED BY <3>1, <3>2
  <2>23. CASE UNCHANGED vars
    <3>1. ReqType' /\ PollType' /\ BufType' /\ RxType' /\ TxType' /\ LineType'
      BY <2>23 DEF vars, ReqType, PollType, BufType, RxType, TxType, LineType, reqVars, pollVars, bufVars, rxVars, txVars
    <3> QED BY <3>1
  <2> QED
    BY <2>1, <2>2, <2>3, <2>4, <2>5, <2>6, <2>7, <2>8, <2>9, <2>10, <2>11, <2>13, <2>14,
       <2>15, <2>16, <2>17, <2>18, <2>19, <2>20, <2>21, <2>23, <2>24
       DEF Next, Requester, HasBus, Poll, Transmitter, Environment
<1> QED
  BY <1>1, <1>2, PTL DEF Spec

-------------------------------------------------------------------------------
\* The bus with prompt slaves.  The invariant BusHasOneUser is not inductive: that a
\* completion always finds its requester waiting depends on where the transaction is.
\* The state of the bus is one of eight modes, and somebody waits in exactly five.

\* The bits P are with the poll thread: pending, or handed to it.
Holds(P) ==
    \/ poll \in {"handle", "halted"} /\ got = P /\ P # {} /\ ev = {}
    \/ poll \notin {"handle", "halted"} /\ got = {} /\ ev = P /\ (poll = "wait" => P = {})

\* Neither the receiver nor the transmitter is busy.
Silence ==
    rcvState = "IDLE" /\ sndState = "IDLE" /\ ~trans /\ timer = "off" /\ line = None

Boot ==
    /\ \/ Holds({"READY"}) /\ Silence
       \/ /\ Holds({}) /\ rcvState = "INIT" /\ sndState = "IDLE" /\ ~trans
          /\ timer = "T35" /\ line = None
    /\ \A r \in Requesters : pc[r] = "idle"

Rest  == Holds({}) /\ Silence
Send  == Holds({"FRAME_SENT"}) /\ Silence
Xmit  == /\ Holds({}) /\ rcvState = "IDLE" /\ sndState = "XMIT" /\ trans
         /\ timer = "off" /\ line = None
Await == Holds({}) /\ rcvState = "IDLE" /\ sndState = "XFWR" /\ ~trans /\ timer = "RESPOND"
Recv  == /\ Holds({}) /\ rcvState \in {"RCV", "ERROR"} /\ sndState = "IDLE" /\ ~trans
         /\ timer = "T35"
Judge == /\ Silence
         /\ \/ Holds({"FRAME_RECEIVED"})
            \/ Holds({"EXECUTE"}) /\ rcvBuf.msg = dest
            \/ Holds({"ERROR_PROCESS"})

BusMode ==
    \/ Boot /\ ~Waiting
    \/ Rest /\ ~Waiting
    \/ (Send \/ Xmit \/ Await \/ Recv \/ Judge) /\ Waiting

\* The inductive invariant.
BusInv == fin = {} /\ BusMode /\ BusHasOneUser /\ RegistersFromOwnSlave

\* A posted bit reaches a poll thread that has none.
LEMMA PostFact ==
    ASSUME NEW e, Holds({}), EventPost(e)
    PROVE  Holds({e})'
BY DEF Holds, EventPost

\* The poll thread recognises the only bit there is.
LEMMA HandleFact ==
    ASSUME NEW e, NEW x \in PollEvents, Handling(e)
    PROVE  ~Holds({}) /\ (Holds({x}) => e = x)
BY DEF Holds, Handling, DecodedEvents

\* The mode depends on nothing but the bus, and on whether anybody waits.
LEMMA ModeFrame ==
    ASSUME BusMode, UNCHANGED <<pollVars, rcvState, rcvBuf.msg, sndState, trans, timer, line, dest>>,
           Waiting' <=> Waiting,
           Boot => \A r \in Requesters : pc'[r] = "idle"
    PROVE  BusMode'
<1> USE DEF pollVars, Holds, Silence
<1>1. CASE Boot /\ ~Waiting
  BY <1>1 DEF BusMode, Boot
<1>2. CASE Rest /\ ~Waiting
  BY <1>2 DEF BusMode, Rest
<1>3. CASE Send /\ Waiting
  BY <1>3 DEF BusMode, Send
<1>4. CASE Xmit /\ Waiting
  BY <1>4 DEF BusMode, Xmit
<1>5. CASE Await /\ Waiting
  BY <1>5 DEF BusMode, Await
<1>6. CASE Recv /\ Waiting
  BY <1>6 DEF BusMode, Recv
<1>7. CASE Judge /\ Waiting
  BY <1>7 DEF BusMode, Judge
<1> QED
  BY <1>1, <1>2, <1>3, <1>4, <1>5, <1>6, <1>7 DEF BusMode

\* A completion finds the one requester that waits and leaves nobody on the bus.
LEMMA CompleteFact ==
    ASSUME ReqType, BusHasOneUser, Waiting, fin = {}, NEW bit, Complete(bit)
    PROVE  /\ fin' = {}
           /\ \A r \in Requesters : ~InFlight(r)'
           /\ runRes = 0
<1>1. PICK w \in Requesters : pc[w] = "wait"
  BY DEF Waiting
<1>2. \A q \in Requesters : InFlight(q) => q = w
  BY <1>1 DEF BusHasOneUser, InFlight
<1>3. /\ pc' = [pc EXCEPT ![w] = "woken"]
      /\ fin' = fin
  BY <1>1, <1>2, FirstWaitersFact DEF Complete, InFlight
<1>4. runRes = 0
  BY <1>1 DEF BusHasOneUser, InFlight
<1> QED
  BY <1>1, <1>2, <1>3, <1>4 DEF InFlight, ReqType

\* The inductive invariant holds after eMBMasterInit and eMBMasterEnable.
LEMMA BusInit == Init => BusInv
<1> SUFFICES ASSUME Init PROVE BusInv
  OBVIOUS
<1>1. BusMode
  BY DEF Init, BusMode, Boot, Holds, Waiting
<1>2. BusHasOneUser
  BY DEF Init, BusHasOneUser, InFlight
<1>3. RegistersFromOwnSlave
  BY DEF Init, RegistersFromOwnSlave
<1> QED
  BY <1>1, <1>2, <1>3 DEF Init, BusInv

\* Requesters: the steps that touch neither the poll thread nor the bus.
LEMMA RequesterStep ==
    ASSUME TypeOK, BusInv, NEW r \in Requesters,
           Wake(r) \/ TakeMutex(r) \/ Fill(r) \/ Return(r) \/ ReleaseMutex(r)
    PROVE  BusInv'
<1> USE DEF TypeOK, BusInv
<1>1. /\ UNCHANGED <<pollVars, rcvState, rcvPos, rcvBuf.msg, sndState, trans, timer, line, dest>>
      /\ UNCHANGED <<fin, runRes, regs>>
  <2>1. CASE Fill(r)
    BY <2>1 DEF Fill, txVars, RxType, Answers
  <2> QED
    BY <2>1 DEF Wake, TakeMutex, Return, ReleaseMutex, pollVars, bufVars, rxVars, txVars
<1>2. \A q \in Requesters : /\ pc'[q] = "wait" <=> pc[q] = "wait"
                            /\ InFlight(q)' <=> InFlight(q)
  BY DEF Wake, TakeMutex, Fill, Return, ReleaseMutex, Left, ReqType, InFlight
<1>3. ~Boot
  BY DEF Wake, TakeMutex, Fill, Return, ReleaseMutex, Boot, Booted, Holds, Silence
<1>4. BusMode'
  BY <1>1, <1>2, <1>3, ModeFrame DEF Waiting
<1>5. BusHasOneUser'
  BY <1>1, <1>2 DEF BusHasOneUser, pollVars
<1> QED
  BY <1>1, <1>4, <1>5 DEF RegistersFromOwnSlave

\* Taking the semaphore makes the requester the one user of the bus.
LEMMA RunResTakeStep ==
    ASSUME TypeOK, BusInv, NEW r \in Requesters, RunResTake(r)
    PROVE  BusInv'
<1> USE DEF TypeOK, BusInv
<1>1. \A q \in Requesters : /\ pc'[q] = "wait" <=> pc[q] = "wait"
                            /\ InFlight(q)' <=> (InFlight(q) \/ q = r)
  BY DEF RunResTake, ReqType, InFlight
<1>2. runRes = 1 /\ poll # "release" /\ \A q \in Requesters : ~InFlight(q)
  BY DEF RunResTake, BusHasOneUser
<1>3. BusMode'
  <2>1. ~Boot
    BY DEF RunResTake, Boot
  <2> QED
    BY <1>1, <2>1, ModeFrame DEF RunResTake, Waiting, pollVars, bufVars, rxVars, txVars
<1>4. BusHasOneUser'
  BY <1>1, <1>2 DEF RunResTake, BusHasOneUser, pollVars
<1> QED
  BY <1>3, <1>4 DEF RunResTake, RegistersFromOwnSlave

\* A request that has the bus finds it silent and no completion that is not its own.
LEMMA PostStep ==
    ASSUME TypeOK, BusInv, NEW r \in Requesters, pc[r] = "post",
           EventPost("FRAME_SENT"), StartWait(r),
           UNCHANGED <<runRes, regs, rxVars, txVars, timer, line>>
    PROVE  BusInv'
<1> USE DEF TypeOK, BusInv
<1>1. ~Waiting
  BY DEF BusHasOneUser, InFlight, Waiting
<1>2. Rest
  BY <1>1 DEF BusMode, Boot
<1>3. pc' = [pc EXCEPT ![r] = "wait"] /\ fin' = {}
  BY DEF StartWait
<1>4. BusMode'
  <2>1. Waiting'
    BY <1>3 DEF Waiting, ReqType
  <2>2. Holds({"FRAME_SENT"})'
    BY <1>2, PostFact DEF Rest
  <2>3. Silence'
    BY <1>2 DEF Rest, Silence, rxVars, txVars
  <2> QED
    BY <2>1, <2>2, <2>3 DEF BusMode, Send
<1>5. BusHasOneUser'
  <2>1. \A q \in Requesters : InFlight(q)' <=> InFlight(q)
    BY <1>3 DEF InFlight, ReqType
  <2>2. poll # "release" /\ poll' # "release"
    BY DEF BusHasOneUser, InFlight, EventPost
  <2> QED
    BY <2>1, <2>2 DEF BusHasOneUser
<1> QED
  BY <1>3, <1>4, <1>5 DEF RegistersFromOwnSlave

\* A request that has the bus starts a transaction with EV_MASTER_FRAME_SENT.
LEMMA ReqStep ==
    ASSUME TypeOK, BusInv, NEW r \in Requesters,
           ReqRead_not_rtu_datas(r) \/ \E s \in Slaves : ReqReadHoldingRegister(r, s)
    PROVE  BusInv'
BY PostStep DEF ReqRead_not_rtu_datas, ReqReadHoldingRegister

\* The poll thread fetches the bits there are.
LEMMA PollGetStep ==
    ASSUME TypeOK, BusInv, PollGet
    PROVE  BusInv'
<1> USE DEF TypeOK, BusInv
<1>1. Silence => Silence'
  BY DEF Silence, PollGet, rxVars, txVars
<1>2. BusMode'
  <2> USE DEF PollGet, Holds, reqVars, bufVars, rxVars, txVars
  <2>1. Waiting' <=> Waiting
    BY DEF Waiting
  <2>2. CASE Boot /\ ~Waiting
    BY <1>1, <2>1, <2>2 DEF BusMode, Boot
  <2>3. CASE Rest /\ ~Waiting
    BY <1>1, <2>1, <2>3 DEF BusMode, Rest
  <2>4. CASE Send /\ Waiting
    BY <1>1, <2>1, <2>4 DEF BusMode, Send
  <2>5. CASE (Xmit \/ Await \/ Recv) /\ Waiting
    BY <2>1, <2>5 DEF BusMode, Xmit, Await, Recv
  <2>6. CASE Judge /\ Waiting
    BY <1>1, <2>1, <2>6 DEF BusMode, Judge
  <2> QED BY <2>2, <2>3, <2>4, <2>5, <2>6 DEF BusMode
<1>3. BusHasOneUser'
  BY DEF BusHasOneUser, InFlight, PollGet, reqVars
<1> QED
  BY <1>2, <1>3 DEF PollGet, RegistersFromOwnSlave

\* The steps of the poll thread that complete nothing.
LEMMA PollOnStep ==
    ASSUME TypeOK, BusInv, PollNothing \/ PollFrameReceived \/ PollFrameSent
    PROVE  BusInv'
<1> USE DEF TypeOK, BusInv, PollEvents
<1>1. /\ UNCHANGED <<reqVars, fin, runRes, regs, dest, rcvState, rcvBuf, timer>>
      /\ line' \in {line, None}
      /\ poll # "release" /\ poll' = "delay" /\ got' = {}
  BY DEF PollNothing, PollFrameReceived, PollFrameSent, Handling, bufVars, rxVars
<1>2. (Waiting' <=> Waiting) /\ \A r \in Requesters : pc'[r] = pc[r]
  BY <1>1 DEF Waiting, reqVars
<1>3. BusMode'
  <2>1. CASE PollNothing
    <3>1. Holds({"READY"})
      BY <2>1, HandleFact DEF PollNothing, BusMode, Boot, Rest, Send, Xmit, Await, Recv, Judge
    <3>2. Boot /\ Silence
      BY <2>1, <3>1 DEF BusMode, Boot, Rest, Send, Xmit, Await, Recv, Judge, Holds
    <3>3. Rest'
      BY <1>1, <2>1, <3>1, <3>2 DEF PollNothing, Handling, Rest, Silence, Holds, txVars
    <3> QED
      BY <1>2, <3>2, <3>3 DEF BusMode, Boot, Waiting
  <2>2. CASE PollFrameReceived
    <3>1. Holds({"FRAME_RECEIVED"})
      BY <2>2, HandleFact DEF PollFrameReceived, BusMode, Boot, Rest, Send, Xmit, Await, Recv,
                              Judge
    <3>2. Judge /\ Waiting /\ ev = {}
      BY <2>2, <3>1 DEF PollFrameReceived, Handling, BusMode, Boot, Rest, Send, Xmit, Await,
                        Recv, Judge, Holds
    <3>3. Silence'
      BY <1>1, <2>2, <3>2 DEF PollFrameReceived, Judge, Silence, txVars
    <3>4. \/ Holds({"EXECUTE"})' /\ rcvBuf'.msg = dest'
          \/ Holds({"ERROR_PROCESS"})'
      BY <1>1, <2>2, <3>2 DEF PollFrameReceived, Holds
    <3> QED
      BY <1>2, <3>2, <3>3, <3>4 DEF BusMode, Judge
  <2>3. CASE PollFrameSent
    <3>1. Holds({"FRAME_SENT"})
      BY <2>3, HandleFact DEF PollFrameSent, BusMode, Boot, Rest, Send, Xmit, Await, Recv, Judge
    <3>2. Send /\ Waiting /\ ev = {}
      BY <2>3, <3>1 DEF PollFrameSent, Handling, BusMode, Boot, Rest, Send, Xmit, Await, Recv,
                        Judge, Holds
    <3>3. Xmit'
      BY <1>1, <2>3, <3>2 DEF PollFrameSent, Send, Silence, Xmit, Holds
    <3> QED
      BY <1>2, <3>2, <3>3 DEF BusMode
  <2> QED BY <2>1, <2>2, <2>3
<1>4. BusHasOneUser'
  BY <1>1, <1>2 DEF BusHasOneUser, InFlight
<1> QED
  BY <1>1, <1>3, <1>4 DEF RegistersFromOwnSlave

\* The failing assertion stops the board where it is.
LEMMA PollAssertStep ==
    ASSUME TypeOK, BusInv, PollAssertFails
    PROVE  BusInv'
<1> USE DEF TypeOK, BusInv
<1>1. /\ UNCHANGED <<pc, runRes, fin, ev, got, regs, dest, rcvState, rcvBuf, sndState, trans, timer, line>>
      /\ poll = "handle" /\ poll' = "halted"
  BY DEF PollAssertFails, Handling, reqVars, bufVars, rxVars, txVars
<1>2. (Waiting' <=> Waiting) /\ \A r \in Requesters : InFlight(r)' <=> InFlight(r)
  BY <1>1 DEF Waiting, InFlight
<1>3. \A P \in SUBSET PollEvents : Holds(P) => Holds(P)'
  BY <1>1 DEF Holds
<1>4. Silence => Silence'
  BY <1>1 DEF Silence
<1>5. Judge /\ Waiting
  <2>1. Holds({"FRAME_RECEIVED"})
    BY HandleFact DEF PollAssertFails, BusMode, Boot, Rest, Send, Xmit, Await, Recv, Judge, PollEvents
  <2> QED
    BY <1>1, <2>1 DEF BusMode, Boot, Rest, Send, Xmit, Await, Recv, Judge, Holds
<1>6. BusMode'
  BY <1>1, <1>2, <1>3, <1>4, <1>5 DEF BusMode, Judge, PollEvents
<1>7. BusHasOneUser'
  BY <1>1, <1>2 DEF BusHasOneUser
<1> QED
  BY <1>1, <1>6, <1>7 DEF RegistersFromOwnSlave

\* The poll thread executes an answer or processes an error.
LEMMA PollCompleteStep ==
    ASSUME TypeOK, BusInv, PollExecute \/ PollErrorProcess
    PROVE  BusInv'
<1> USE DEF TypeOK, BusInv, PollEvents
<1>1. /\ UNCHANGED <<runRes, dest, rcvState, rcvBuf, sndState, trans, timer, line>>
      /\ poll = "handle" /\ got' = {}
  BY DEF PollExecute, PollErrorProcess, Handling, bufVars, rxVars, txVars
<1>2. /\ Judge /\ Waiting /\ ev = {}
      /\ PollExecute => rcvBuf.msg = dest
  <2>1. ASSUME PollExecute PROVE Judge /\ Waiting /\ ev = {} /\ rcvBuf.msg = dest
    <3>1. Holds({"EXECUTE"})
      BY <2>1, HandleFact DEF PollExecute, BusMode, Boot, Rest, Send, Xmit, Await, Recv, Judge
    <3> QED
      BY <1>1, <3>1 DEF BusMode, Boot, Rest, Send, Xmit, Await, Recv, Judge, Holds
  <2>2. ASSUME PollErrorProcess PROVE Judge /\ Waiting /\ ev = {}
    <3>1. Holds({"ERROR_PROCESS"})
      BY <2>2, HandleFact DEF PollErrorProcess, BusMode, Boot, Rest, Send, Xmit, Await, Recv,
                              Judge
    <3> QED
      BY <1>1, <3>1 DEF BusMode, Boot, Rest, Send, Xmit, Await, Recv, Judge, Holds
  <2> QED BY <2>1, <2>2
<1>3. Silence'
  BY <1>1, <1>2 DEF Judge, Silence
<1>4. CASE \E bit : Complete(bit) /\ poll' = "release" /\ UNCHANGED ev
  <2>1. fin' = {} /\ runRes = 0 /\ \A r \in Requesters : ~InFlight(r)'
    BY <1>2, <1>4, CompleteFact
  <2>2. ~Waiting'
    BY <2>1 DEF Waiting, InFlight
  <2>3. BusMode'
    BY <1>1, <1>2, <1>3, <1>4, <2>2 DEF BusMode, Rest, Holds
  <2>4. BusHasOneUser'
    BY <1>1, <1>4, <2>1 DEF BusHasOneUser
  <2>5. RegistersFromOwnSlave'
    BY <1>2 DEF RegistersFromOwnSlave, PollExecute, PollErrorProcess, BufType
  <2> QED BY <2>1, <2>3, <2>4, <2>5
<1>5. CASE PollExecute /\ ~AnswerFits
  <2>1. /\ UNCHANGED <<pc, fin, regs>>
        /\ poll' = "delay" /\ ev' = {"ERROR_PROCESS"}
    BY <1>2, <1>5 DEF PollExecute
  <2>2. Judge' /\ Waiting'
    BY <1>1, <1>2, <1>3, <2>1 DEF Judge, Holds, Waiting
  <2>3. BusHasOneUser'
    BY <1>1, <2>1 DEF BusHasOneUser, InFlight
  <2> QED
    BY <2>1, <2>2, <2>3 DEF BusMode, RegistersFromOwnSlave
<1> QED
  BY <1>4, <1>5 DEF PollExecute, PollErrorProcess

\* Releasing the semaphore frees the bus or hands it to the next requester.
LEMMA RunResReleaseStep ==
    ASSUME TypeOK, BusInv, RunResRelease
    PROVE  BusInv'
<1> USE DEF TypeOK, BusInv
<1>1. /\ poll = "release" /\ poll' = "delay" /\ runRes = 0
      /\ \A r \in Requesters : ~InFlight(r)
  BY DEF RunResRelease, BusHasOneUser
<1>2. \/ runRes' = 1 /\ pc' = pc
      \/ /\ runRes' = 0
         /\ \E r \in Requesters : pc[r] = "take" /\ pc' = [pc EXCEPT ![r] = "post"]
  BY <1>1, FirstWaitersFact DEF RunResRelease
<1>3. ~Waiting /\ ~Waiting'
  BY <1>1, <1>2 DEF Waiting, InFlight, ReqType
<1>4. BusMode'
  <2> USE DEF RunResRelease, Holds, Silence, bufVars, rxVars, txVars
  <2>1. CASE Boot
    BY <1>1, <1>2, <1>3, <2>1 DEF BusMode, Boot
  <2>2. CASE Rest
    BY <1>1, <1>3, <2>2 DEF BusMode, Rest
  <2> QED BY <1>3, <2>1, <2>2 DEF BusMode
<1>5. BusHasOneUser'
  BY <1>1, <1>2 DEF BusHasOneUser, InFlight, ReqType
<1> QED
  BY <1>4, <1>5 DEF RunResRelease, RegistersFromOwnSlave

\* Steps of the transmitter, the interrupts and the line: nobody's request changes.
LEMMA DeviceStep ==
    ASSUME TypeOK, BusInv, Late = FALSE,
           Transmitter \/ RTUReceiveFSM \/ RTUTimerExpired \/ Environment
    PROVE  BusInv'
<1> USE DEF TypeOK, BusInv
<1>1. UNCHANGED <<pc, runRes, fin, regs, dest>>
  BY DEF Transmitter, TransmitByte, TransmitDone, RTUReceiveFSM, RTUTimerExpired,
         Environment, SlaveAnswer, reqVars, bufVars
<1>2. (Waiting' <=> Waiting) /\ \A r \in Requesters : InFlight(r)' <=> InFlight(r)
  BY <1>1 DEF Waiting, InFlight
<1>3. BusMode' /\ (poll' = "release" <=> poll = "release")
  <2>1. CASE Transmitter
    <3>1. Xmit /\ Waiting
      BY <2>1 DEF Transmitter, TransmitByte, TransmitDone, BusMode, Boot, Rest,
                  Send, Xmit, Await, Recv, Judge, Silence
    <3>2. Xmit' \/ Await'
      BY <2>1, <3>1 DEF Transmitter, TransmitByte, TransmitDone, Xmit, Await,
                        Holds, pollVars, rxVars
    <3> QED
      BY <1>2, <2>1, <3>1, <3>2
         DEF BusMode, Transmitter, TransmitByte, TransmitDone, pollVars
  <2>2. CASE RTUReceiveFSM
    <3>1. (Await \/ Recv) /\ Waiting
      BY <2>2 DEF RTUReceiveFSM, BusMode, Boot, Rest, Send, Xmit, Await, Recv, Judge, Silence
    <3>2. Recv'
      BY <2>2, <3>1 DEF RTUReceiveFSM, Await, Recv, Holds, pollVars, rxVars
    <3> QED
      BY <1>2, <2>2, <3>1, <3>2 DEF BusMode, RTUReceiveFSM, pollVars
  <2>3. CASE RTUTimerExpired
    <3>1. \/ Boot /\ rcvState = "INIT" /\ sndState = "IDLE" /\ ~trans /\ ~Waiting /\ Holds({})
          \/ (Await \/ Recv) /\ Waiting
      BY <2>3 DEF RTUTimerExpired, BusMode, Boot, Rest, Send, Xmit, Await, Recv, Judge, Silence
    <3>2. Silence'
      BY <2>3, <3>1 DEF RTUTimerExpired, Silence, Await, Recv
    <3>3. CASE rcvState = "INIT"
      <4>1. EventPost("READY")
        BY <2>3, <3>3 DEF RTUTimerExpired, TimerEvent
      <4>2. Boot /\ ~Waiting /\ Holds({"READY"})'
        BY <3>1, <3>3, <4>1, PostFact DEF Await, Recv
      <4> QED
        BY <1>1, <1>2, <3>2, <4>1, <4>2 DEF BusMode, Boot, EventPost
    <3>4. CASE rcvState # "INIT"
      <4>1. \/ EventPost("FRAME_RECEIVED")
            \/ EventPost("ERROR_PROCESS")
        BY <2>3, <3>1, <3>4 DEF RTUTimerExpired, TimerEvent, Await, Recv
      <4>2. Waiting /\ Holds({})
        BY <3>1, <3>4 DEF Await, Recv
      <4>3. Holds({"FRAME_RECEIVED"})' \/ Holds({"ERROR_PROCESS"})'
        BY <4>1, <4>2, PostFact
      <4> QED
        BY <1>2, <3>2, <4>1, <4>2, <4>3 DEF BusMode, Judge, EventPost
    <3> QED BY <3>3, <3>4
  <2>4. CASE Environment
    <3>1. Await /\ Waiting /\ \E m \in Messages : SlaveAnswer(m)
      BY <2>4 DEF Environment, SlaveAnswer, BusMode, Boot, Rest, Send, Xmit, Await,
                  Recv, Judge, Silence
    <3>2. Await' /\ UNCHANGED poll
      BY <3>1 DEF SlaveAnswer, Await, Holds, pollVars, rxVars, txVars
    <3> QED
      BY <1>2, <3>1, <3>2 DEF BusMode
  <2> QED BY <2>1, <2>2, <2>3, <2>4
<1>4. BusHasOneUser'
  BY <1>1, <1>2, <1>3 DEF BusHasOneUser
<1> QED
  BY <1>1, <1>3, <1>4 DEF RegistersFromOwnSlave

\* Every step of the master keeps the inductive invariant.
LEMMA BusStep ==
    ASSUME TypeOK, BusInv, Late = FALSE, [Next]_vars
    PROVE  BusInv'
<1>1. CASE UNCHANGED vars
  <2>1. BusMode'
    BY <1>1, ModeFrame DEF BusInv, BusMode, Boot, Waiting, vars, reqVars, pollVars, bufVars,
                           rxVars, txVars
  <2>2. BusHasOneUser'
    BY <1>1 DEF BusInv, BusHasOneUser, InFlight, vars, reqVars, pollVars
  <2> QED
    BY <1>1, <2>1, <2>2 DEF BusInv, RegistersFromOwnSlave, vars
<1> QED
  BY <1>1, RequesterStep, RunResTakeStep, ReqStep, PollGetStep, PollOnStep, PollAssertStep, PollCompleteStep,
     RunResReleaseStep, DeviceStep
     DEF Next, Requester, HasBus, Poll

\* The properties that the invariant gives.
LEMMA BusInvImplies ==
    ASSUME TypeOK, BusInv
    PROVE  RequestIsInOneStage /\ CallbackAssertions
<1>1. RequestIsInOneStage
  <2>1. ASSUME NEW P \in SUBSET PollEvents, Holds(P) PROVE Pending = P
    BY <2>1 DEF Holds, Pending
  <2> USE DEF BusInv, Transaction, InStage, Silence
  <2>2. CASE Boot /\ ~Waiting
    <3>1. Pending = {} \/ Pending = {"READY"}
      BY <2>1, <2>2 DEF Boot, PollEvents
    <3> QED BY <2>2, <3>1 DEF RequestIsInOneStage, Boot
  <2>3. CASE Rest /\ ~Waiting
    BY <2>1, <2>3 DEF RequestIsInOneStage, Rest
  <2>4. CASE Send /\ Waiting
    <3>1. Pending = {"FRAME_SENT"}
      BY <2>1, <2>4 DEF Send, PollEvents
    <3> QED BY <2>4, <3>1 DEF RequestIsInOneStage, Send
  <2>5. CASE (Xmit \/ Await \/ Recv) /\ Waiting
    <3>1. Pending = {}
      BY <2>1, <2>5 DEF Xmit, Await, Recv
    <3> QED BY <2>5, <3>1 DEF RequestIsInOneStage, Xmit, Await, Recv
  <2>6. CASE Judge /\ Waiting
    <3>1. \E e \in {"FRAME_RECEIVED", "EXECUTE", "ERROR_PROCESS"} : Pending = {e}
      BY <2>1, <2>6 DEF Judge, PollEvents
    <3> QED BY <2>6, <3>1 DEF RequestIsInOneStage, Judge
  <2> QED BY <2>2, <2>3, <2>4, <2>5, <2>6 DEF BusMode
<1>2. CallbackAssertions
  BY DEF BusInv, CallbackAssertions, BusMode, Boot, Rest, Send, Xmit, Await, Recv, Judge, Silence
<1> QED BY <1>1, <1>2

\* With prompt slaves the bus has one user at a time, every waiting request is in exactly
\* one stage, no assert_param of the callbacks fails and registers hold their own sensor's
\* data.
THEOREM BusIsSafe ==
    ASSUME Late = FALSE
    PROVE  Spec => [](BusHasOneUser /\ RequestIsInOneStage /\ CallbackAssertions
                        /\ RegistersFromOwnSlave)
<1>1. TypeOK /\ BusInv /\ [Next]_vars => BusInv'
  BY BusStep
<1>2. TypeOK /\ BusInv => /\ BusHasOneUser /\ RequestIsInOneStage /\ CallbackAssertions
                          /\ RegistersFromOwnSlave
  BY BusInvImplies DEF BusInv
<1> QED
  BY BusInit, TypeCorrect, <1>1, <1>2, PTL DEF Spec

-------------------------------------------------------------------------------
\* The bus master implements its service

PhaseOf(v) ==
    IF v \in {"post", "wait"} THEN "active" ELSE IF v = "woken" THEN "done" ELSE "idle"

\* The phase a requester sees depends on its program counter alone.
LEMMA PhaseFact == \A r \in Requesters : phase[r] = PhaseOf(pc[r])
BY DEF phase, PhaseOf, InFlight

\* A step that moves one requester changes the phase of that requester only.
LEMMA PhaseChange ==
    ASSUME ReqType, NEW r \in Requesters, NEW v, pc' = [pc EXCEPT ![r] = v]
    PROVE  phase' = [phase EXCEPT ![r] = PhaseOf(v)]
BY DEF phase, PhaseOf, InFlight, ReqType

\* A requester that moves within a phase is a stutter of the service.
LEMMA PhaseStutter ==
    ASSUME ReqType, NEW r \in Requesters, NEW v, pc' = [pc EXCEPT ![r] = v],
           PhaseOf(v) = PhaseOf(pc[r])
    PROVE  UNCHANGED phase
BY DEF phase, PhaseOf, InFlight, ReqType

\* Every step of the master is a step of the service or a stutter.
LEMMA ServiceStep ==
    ASSUME TypeOK, BusInv, Late = FALSE, [Next]_vars
    PROVE  [Service!Next]_(Service!vars)
<1> USE DEF TypeOK, BusInv
<1>1. ASSUME UNCHANGED pc PROVE UNCHANGED phase
  BY <1>1 DEF phase, InFlight
<1>0. ASSUME UNCHANGED phase, UNCHANGED Halted PROVE UNCHANGED Service!vars
  BY <1>0 DEF Service!vars
<1>2. ASSUME NEW r \in Requesters, Wake(r) \/ TakeMutex(r) \/ Fill(r) \/ ReleaseMutex(r)
      PROVE  UNCHANGED Service!vars
  <2>1. \E v \in {"mutex", "fill", "take", "unlock", "idle"} : pc' = [pc EXCEPT ![r] = v]
    BY <1>2 DEF Wake, TakeMutex, Fill, ReleaseMutex, Left
  <2>2. PhaseOf(pc[r]) = "idle" /\ UNCHANGED Halted
    BY <1>2 DEF Wake, TakeMutex, Fill, ReleaseMutex, PhaseOf, Halted, pollVars
  <2> QED BY <1>0, <2>1, <2>2, PhaseStutter DEF PhaseOf
<1>3. ASSUME NEW r \in Requesters, pc[r] = "take", pc' = [pc EXCEPT ![r] = "post"],
             \A q \in Requesters : ~InFlight(q), ~Halted, ~Halted'
      PROVE  Service!Accept(r)
  <2>1. phase' = [phase EXCEPT ![r] = "active"]
    BY <1>3, PhaseChange DEF PhaseOf
  <2>2. phase[r] = "idle" /\ \A q \in Requesters : phase[q] # "active"
    BY <1>3 DEF phase, InFlight
  <2> QED BY <1>3, <2>1, <2>2 DEF Service!Accept, Halted
<1>4. ASSUME NEW r \in Requesters, RunResTake(r) PROVE Service!Next
  <2>1. \A q \in Requesters : ~InFlight(q)
    BY <1>4 DEF RunResTake, BusHasOneUser
  <2>2. ~Halted /\ ~Halted'
    BY <1>4 DEF RunResTake, CanRun, LowCanRun, Halted, pollVars
  <2>3. Service!Accept(r)
    BY <1>3, <1>4, <2>1, <2>2 DEF RunResTake
  <2> QED BY <2>3 DEF Service!Next
<1>5. ASSUME NEW r \in Requesters,
             ReqRead_not_rtu_datas(r) \/ \E s \in Slaves : ReqReadHoldingRegister(r, s)
      PROVE  UNCHANGED Service!vars
  <2>1. pc[r] = "post" /\ pc' = [pc EXCEPT ![r] = "wait"]
    BY <1>5 DEF ReqRead_not_rtu_datas, ReqReadHoldingRegister, StartWait
  <2>2. ~Halted /\ ~Halted'
    BY <1>5 DEF ReqRead_not_rtu_datas, ReqReadHoldingRegister, EventPost, CanRun, LowCanRun, Halted
  <2>3. UNCHANGED phase
    BY <2>1, PhaseStutter DEF PhaseOf
  <2> QED BY <1>0, <2>2, <2>3 DEF Halted
<1>6. ASSUME NEW r \in Requesters, Return(r) PROVE Service!Next
  <2>1. phase' = [phase EXCEPT ![r] = "idle"]
    <3>1. PICK v \in {"unlock", "idle"} : pc' = [pc EXCEPT ![r] = v]
      BY <1>6 DEF Return, Left
    <3> QED BY <3>1, PhaseChange DEF PhaseOf
  <2>2. phase[r] = "done" /\ ~Halted /\ ~Halted'
    BY <1>6, PhaseFact DEF Return, PhaseOf, CanRun, LowCanRun, Halted, pollVars
  <2>3. Service!Leave(r)
    BY <2>1, <2>2 DEF Service!Leave, Halted
  <2> QED BY <2>3 DEF Service!Next
<1>7. ASSUME NEW bit, Complete(bit), ~Halted, ~Halted'
      PROVE  Service!Next \/ UNCHANGED Service!vars
  <2>1. CASE UNCHANGED pc
    BY <1>0, <1>1, <1>7, <2>1 DEF Halted
  <2>2. CASE \E r \in Requesters : pc[r] = "wait" /\ pc' = [pc EXCEPT ![r] = "woken"]
    <3>1. PICK r \in Requesters : pc[r] = "wait" /\ pc' = [pc EXCEPT ![r] = "woken"]
      BY <2>2
    <3>2. phase' = [phase EXCEPT ![r] = "done"] /\ phase[r] = "active"
      BY <3>1, PhaseChange, PhaseFact DEF PhaseOf
    <3>3. Service!Finish(r)
      BY <1>7, <3>2 DEF Service!Finish, Halted
    <3> QED BY <3>3 DEF Service!Next
  <2> QED BY <1>7, <2>1, <2>2, FirstWaitersFact DEF Complete
<1>8. CASE Poll
  <2>0. ~Halted /\ (PollAssertFails \/ ~Halted')
    BY <1>8 DEF Poll, PollGet, PollNothing, PollFrameReceived, PollExecute, PollFrameSent,
                PollErrorProcess, RunResRelease, PollAssertFails, Handling, LowCanRun, Halted
  <2>1. CASE PollExecute \/ PollErrorProcess
    <3>1. ~Halted'
      BY <2>1 DEF PollExecute, PollErrorProcess, Halted
    <3> QED BY <1>0, <1>1, <1>7, <2>0, <2>1, <3>1 DEF PollExecute, PollErrorProcess, Halted
  <2>2. CASE RunResRelease
    <3>1. ~Halted'
      BY <2>2 DEF RunResRelease, Halted
    <3>2. \A q \in Requesters : ~InFlight(q)
      BY <2>2 DEF RunResRelease, BusHasOneUser
    <3>3. CASE UNCHANGED pc
      BY <1>0, <1>1, <2>0, <3>1, <3>3 DEF Halted
    <3>4. CASE \E r \in FirstWaiters("take") : pc' = [pc EXCEPT ![r] = "post"]
      BY <1>3, <2>0, <3>1, <3>2, <3>4, FirstWaitersFact DEF Service!Next
    <3> QED BY <2>2, <3>3, <3>4 DEF RunResRelease
  <2>3. CASE PollGet \/ PollNothing \/ PollFrameReceived \/ PollFrameSent
    <3>1. ~Halted' /\ UNCHANGED pc
      BY <2>3 DEF PollGet, PollNothing, PollFrameReceived, PollFrameSent, reqVars, Halted
    <3> QED BY <1>0, <1>1, <2>0, <3>1 DEF Halted
  <2>4. CASE PollAssertFails
    <3>1. Holds({"FRAME_RECEIVED"})
      BY <2>4, HandleFact DEF PollAssertFails, BusMode, Boot, Rest, Send, Xmit, Await, Recv, Judge, PollEvents
    <3>2. Waiting
      BY <2>4, <3>1 DEF PollAssertFails, Handling, BusMode, Boot, Rest, Send, Xmit, Await, Recv,
                        Judge, Holds
    <3>3. \E r \in Requesters : phase[r] = "active"
      BY <3>2, PhaseFact DEF Waiting, PhaseOf
    <3>4. UNCHANGED phase /\ Halted'
      BY <1>1, <2>4 DEF PollAssertFails, reqVars, Halted
    <3> QED BY <2>0, <3>3, <3>4 DEF Service!Stop, Service!Next, Halted
  <2> QED BY <1>8, <2>1, <2>2, <2>3, <2>4 DEF Poll
<1>9. CASE Transmitter \/ RTUReceiveFSM \/ RTUTimerExpired \/ Environment \/ UNCHANGED vars
  <2>1. UNCHANGED pc
    BY <1>9 DEF Transmitter, TransmitByte, TransmitDone, RTUReceiveFSM,
                RTUTimerExpired, Environment, SlaveAnswer, reqVars, vars
  <2>2. UNCHANGED Halted
    BY <1>9 DEF Transmitter, TransmitByte, TransmitDone, RTUReceiveFSM, RTUTimerExpired, EventPost,
                Environment, SlaveAnswer, pollVars, vars, Halted
  <2> QED BY <1>0, <1>1, <2>1, <2>2
<1> QED
  BY <1>2, <1>4, <1>5, <1>6, <1>8, <1>9 DEF Next, Requester, HasBus

\* With prompt slaves every behaviour of the master, its interrupts and its threads is a
\* behaviour of the service: one request at a time, each completed once.
THEOREM BusImplementsService ==
    ASSUME Late = FALSE
    PROVE  Spec => ImplementsService
<1>1. Init => Service!Init
  BY DEF Init, Service!Init, phase, InFlight, Halted
<1>2. TypeOK /\ BusInv /\ [Next]_vars => BusInv'
  BY BusStep
<1>3. TypeOK /\ BusInv /\ [Next]_vars => [Service!Next]_(Service!vars)
  BY ServiceStep
<1> QED
  BY BusInit, TypeCorrect, <1>1, <1>2, <1>3, PTL DEF Spec, ImplementsService, Service!Spec

-------------------------------------------------------------------------------
\* modbus_mutex and the shared frame buffer

MutexInv ==
    /\ \A r \in Locked : pc[r] \in {"fill", "take", "post", "wait", "woken", "unlock"}
                           => mutex = r
    /\ \A r \in Requesters : pc[r] \in {"mutex", "unlock"} => r \in Locked
    /\ ComposedFrameIsKept

\* What the poll thread may do to a requester.
PollMoves(r) ==
    \/ pc'[r] = pc[r]
    \/ pc[r] = "wait" /\ pc'[r] = "woken"
    \/ pc[r] = "take" /\ pc'[r] = "post"

\* Which requesters the poll thread may move, and where to.
LEMMA PollPcFact ==
    ASSUME ReqType, Poll
    PROVE  \A r \in Requesters : PollMoves(r)
<1>1. ASSUME NEW q \in Requesters, NEW v, pc' = [pc EXCEPT ![q] = v],
             \/ pc[q] = "wait" /\ v = "woken"
             \/ pc[q] = "take" /\ v = "post"
      PROVE  \A r \in Requesters : PollMoves(r)
  BY <1>1 DEF ReqType, PollMoves
<1>2. ASSUME UNCHANGED pc PROVE \A r \in Requesters : PollMoves(r)
  BY <1>2 DEF PollMoves
<1>3. ASSUME NEW bit, Complete(bit) PROVE \A r \in Requesters : PollMoves(r)
  BY <1>1, <1>2, <1>3, FirstWaitersFact DEF Complete
<1>4. CASE PollExecute \/ PollErrorProcess
  BY <1>2, <1>3, <1>4 DEF PollExecute, PollErrorProcess
<1>5. CASE RunResRelease
  BY <1>1, <1>2, <1>5, FirstWaitersFact DEF RunResRelease
<1>6. CASE PollGet \/ PollNothing \/ PollAssertFails \/ PollFrameReceived \/ PollFrameSent
  BY <1>2, <1>6 DEF PollGet, PollNothing, PollAssertFails, PollFrameReceived, PollFrameSent, reqVars
<1> QED BY <1>4, <1>5, <1>6 DEF Poll

\* Initially nobody holds the mutex.
LEMMA MutexInit == Init => MutexInv
BY RequesterAssumption DEF Init, MutexInv, ComposedFrameIsKept, Requesters

\* Who composes vendor frames with the mutex keeps the others with the mutex from composing.
LEMMA MutexStep ==
    ASSUME TypeOK, MutexInv, [Next]_vars
    PROVE  MutexInv'
<1> USE RequesterAssumption
<1> USE DEF TypeOK, ReqType, MutexInv, ComposedFrameIsKept
<1>1. ASSUME NEW r \in Requesters, Requester(r) PROVE MutexInv'
  <2>1. CASE Wake(r)
    BY <2>1 DEF Wake, bufVars
  <2>2. CASE TakeMutex(r)
    BY <2>2 DEF TakeMutex, bufVars, Requesters
  <2>3. CASE Fill(r)
    BY <2>3 DEF Fill, Left, Requesters, Composers, Unlocked
  <2>4. CASE RunResTake(r)
    BY <2>4 DEF RunResTake, bufVars
  <2>5. CASE ReqRead_not_rtu_datas(r) \/ \E s \in Slaves : ReqReadHoldingRegister(r, s)
    BY <2>5 DEF ReqRead_not_rtu_datas, ReqReadHoldingRegister, StartWait
  <2>6. CASE Return(r)
    <3>1. /\ pc[r] = "woken"
          /\ \E v \in {"unlock", "idle"} : /\ pc' = [pc EXCEPT ![r] = v]
                                           /\ v = "unlock" => r \in Locked
      BY <2>6 DEF Return, Left
    <3>2. UNCHANGED <<mutex, rawBuf>>
      BY <2>6 DEF Return
    <3> QED BY <3>1, <3>2
  <2>7. CASE ReleaseMutex(r)
    BY <2>7 DEF ReleaseMutex, bufVars
  <2> QED BY <1>1, <2>1, <2>2, <2>3, <2>4, <2>5, <2>6, <2>7 DEF Requester, HasBus
<1>2. CASE Poll
  <2>1. UNCHANGED <<mutex, rawBuf>>
    BY <1>2 DEF Poll, PollGet, PollNothing, PollAssertFails, PollFrameReceived, PollExecute,
                PollFrameSent, PollErrorProcess, RunResRelease, reqVars, bufVars
  <2>2. \A r \in Requesters : PollMoves(r)
    BY <1>2, PollPcFact
  <2> QED BY <2>1, <2>2 DEF PollMoves, Requesters
<1>3. CASE Transmitter \/ RTUReceiveFSM \/ RTUTimerExpired \/ Environment \/ UNCHANGED vars
  BY <1>3 DEF Transmitter, TransmitByte, TransmitDone, RTUReceiveFSM,
              RTUTimerExpired, Environment, SlaveAnswer, reqVars, bufVars, vars
<1> QED BY <1>1, <1>2, <1>3 DEF Next

\* For any mix of threads with and without modbus_mutex, and however late slaves answer: the
\* frame of a request made under the mutex is composed over by no other thread with the mutex
\* until the request is over.
THEOREM FrameIsKept == Spec => []ComposedFrameIsKept
<1>1. TypeOK /\ MutexInv /\ [Next]_vars => MutexInv'
  BY MutexStep
<1>2. MutexInv => ComposedFrameIsKept
  BY DEF MutexInv
<1> QED
  BY TypeCorrect, MutexInit, <1>1, <1>2, PTL DEF Spec

-------------------------------------------------------------------------------
\* The frame on the line

\* While a vendor request with the mutex waits, the send buffer and what was put on the line
\* so far come from its composers.
Untouched(r) ==
    /\ sndBuf \in Composers(r)
    /\ sndState \in {"XMIT", "XFWR"} => \A b \in wire : b[2] \in Composers(r)

WireInv == \A r \in Raw \cap Locked : pc[r] = "wait" => Untouched(r)

\* Every step keeps them so: nobody else with the mutex can fill the buffer meanwhile, and
\* nobody at all can start a second request.
LEMMA WireStep ==
    ASSUME TypeOK, BusInv, MutexInv, WireInv, [Next]_vars
    PROVE  WireInv'
<1> USE RequesterAssumption, BusAssumption
<1> SUFFICES ASSUME NEW r \in Raw \cap Locked, pc'[r] = "wait" PROVE Untouched(r)'
  BY DEF WireInv
<1>r. r \in Requesters /\ r \in Locked /\ r \in Raw
  BY DEF Requesters
<1>c. /\ UNCHANGED Composers(r)
      /\ \A m \in Composers(r) : m \notin Slaves
  BY DEF Composers, Unlocked, Requesters
<1>0. pc \in [Requesters -> Stages]
  BY DEF TypeOK, ReqType
<1>1. ASSUME pc[r] = "wait", UNCHANGED <<sndBuf, txVars>> PROVE Untouched(r)'
  BY <1>1, <1>c DEF WireInv, Untouched, txVars
<1>2. ASSUME NEW q \in Requesters, Requester(q) PROVE Untouched(r)'
  <2>1. CASE Wake(q) \/ TakeMutex(q) \/ Fill(q) \/ RunResTake(q) \/ Return(q) \/ ReleaseMutex(q)
    BY <1>0, <1>1, <1>2, <1>r, <2>1
       DEF Wake, TakeMutex, Fill, Left, RunResTake, Return, ReleaseMutex, bufVars
  <2>2. CASE ReqRead_not_rtu_datas(q) \/ \E s \in Slaves : ReqReadHoldingRegister(q, s)
    <3>1. pc[q] = "post" /\ UNCHANGED txVars /\ \A x \in Requesters : x # q => pc'[x] = pc[x]
      BY <1>0, <2>2 DEF ReqRead_not_rtu_datas, ReqReadHoldingRegister, StartWait
    <3>2. q = r
      BY <1>r, <3>1 DEF BusInv, BusHasOneUser, InFlight
    <3>3. sndBuf' = rawBuf
      BY <1>r, <2>2, <3>2 DEF ReqRead_not_rtu_datas, ReqReadHoldingRegister
    <3>4. rawBuf \in Composers(r)
      BY <3>1, <3>2 DEF MutexInv, ComposedFrameIsKept
    <3>5. sndState = "IDLE"
      BY <1>r, <3>1, <3>2 DEF BusInv, BusMode, BusHasOneUser, InFlight, Waiting, Boot, Rest, Silence
    <3> QED BY <1>c, <3>1, <3>3, <3>4, <3>5 DEF Untouched, txVars
  <2> QED BY <1>2, <2>1, <2>2 DEF Requester, HasBus
<1>3. CASE Poll
  <2>1. pc[r] = "wait"
    BY <1>3, <1>r, PollPcFact DEF TypeOK, PollMoves
  <2>2. CASE PollFrameSent
    <3>1. Untouched(r) /\ UNCHANGED sndBuf
      BY <1>c, <2>1, <2>2 DEF PollFrameSent, WireInv, Untouched
    <3>2. UNCHANGED txVars \/ wire' = {}
      BY <2>2 DEF PollFrameSent
    <3> QED BY <1>c, <3>1, <3>2 DEF Untouched, txVars
  <2>3. CASE PollGet \/ PollNothing \/ PollAssertFails \/ PollFrameReceived \/ PollExecute
             \/ PollErrorProcess \/ RunResRelease
    BY <1>1, <2>1, <2>3 DEF PollGet, PollNothing, PollAssertFails, PollFrameReceived, PollExecute,
                            PollErrorProcess, RunResRelease, bufVars
  <2> QED BY <1>3, <2>2, <2>3 DEF Poll
<1>4. CASE Transmitter
  <2>1. pc[r] = "wait" /\ UNCHANGED sndBuf
    BY <1>4 DEF Transmitter, TransmitByte, TransmitDone, reqVars, bufVars
  <2>2. rawBuf \in Composers(r) /\ Untouched(r)
    BY <2>1 DEF MutexInv, ComposedFrameIsKept, WireInv
  <2>3. CASE TransmitByte
    <3>1. PICK m \in Composers(r) : \E f \in Formats : wire' = wire \cup {<<f, m>>}
      BY <2>2, <2>3 DEF TransmitByte, Untouched, Formats
    <3>2. sndState = "XMIT"
      BY <2>3 DEF TransmitByte
    <3>3. \A b \in wire' : b[2] \in Composers(r)
      BY <2>2, <3>1, <3>2 DEF Untouched
    <3> QED BY <1>c, <2>1, <2>2, <3>3 DEF Untouched
  <2>4. CASE TransmitDone
    BY <1>c, <2>1, <2>2, <2>4 DEF TransmitDone, Untouched
  <2> QED BY <1>4, <2>3, <2>4 DEF Transmitter
<1>5. CASE RTUReceiveFSM \/ RTUTimerExpired
  <2>1. pc[r] = "wait" /\ UNCHANGED sndBuf
    BY <1>5 DEF RTUReceiveFSM, RTUTimerExpired, reqVars, bufVars
  <2>2. UNCHANGED <<sndState, wire>> \/ sndState' = "IDLE"
    BY <1>5 DEF RTUReceiveFSM, RTUTimerExpired
  <2> QED BY <1>c, <2>1, <2>2 DEF WireInv, Untouched
<1>6. CASE Environment \/ UNCHANGED vars
  BY <1>1, <1>6 DEF Environment, SlaveAnswer, vars, reqVars, bufVars
<1> QED BY <1>2, <1>3, <1>4, <1>5, <1>6 DEF Next

\* With prompt slaves, and for any mix of threads with and without modbus_mutex: what is on
\* the line for a request made under the mutex was composed by its requester or by a thread
\* without the mutex.
THEOREM FrameOnLineIsOwn ==
    ASSUME Late = FALSE
    PROVE  Spec => []LineCarriesOwnFrame
<1>1. Init => WireInv
  BY RequesterAssumption DEF Init, WireInv, Requesters
<1>2. TypeOK /\ BusInv /\ [Next]_vars => BusInv'
  BY BusStep
<1>3. TypeOK /\ MutexInv /\ [Next]_vars => MutexInv'
  BY MutexStep
<1>4. TypeOK /\ BusInv /\ MutexInv /\ WireInv /\ [Next]_vars => WireInv'
  BY WireStep
<1>5. WireInv => LineCarriesOwnFrame
  BY DEF WireInv, Untouched, LineCarriesOwnFrame
<1> QED
  BY TypeCorrect, BusInit, MutexInit, <1>1, <1>2, <1>3, <1>4, <1>5, PTL DEF Spec

-------------------------------------------------------------------------------
\* The answer in the receive buffer

\* The receive buffer holds the answer to a frame of r's composers.
Own(r) == rcvBuf.kind = "raw" /\ rcvBuf.msg \in Composers(r)

\* While r waits, nothing but the answer to such a frame can be on its way.
Answered(r) ==
    /\ sndState = "XFWR" => owed \subseteq Composers(r)
    /\ line # None => line.msg \in Composers(r) /\ line.kind = "raw"
    /\ rcvState \in {"RCV", "ERROR"} => Own(r)
    /\ "FRAME_RECEIVED" \in Pending => Own(r)
    /\ "ERROR_PROCESS" \in Pending /\ errType = "RECEIVE_DATA" => Own(r)

OwnInv ==
    \A r \in Raw \cap Locked :
        /\ pc[r] = "wait" => Answered(r)
        /\ pc[r] = "woken" /\ result[r] = "REV_DATA" => Own(r)

\* The two cases of the invariant after a step.
OwnAfter(r) ==
    /\ pc'[r] = "wait" => Answered(r)'
    /\ pc'[r] = "woken" /\ result'[r] = "REV_DATA" => Own(r)'

\* An urgent requester that has been resumed returns before the poll thread goes on.
WokenInv == \A r \in Requesters \cap Urgent : pc[r] = "woken" => poll = "release"

\* Initially nobody has been resumed.
LEMMA WokenInit == Init => WokenInv
BY DEF Init, WokenInv

\* While an urgent requester is ready the poll thread does not run, and nothing else moves it
\* out of the release.
LEMMA WokenStep ==
    ASSUME TypeOK, BusInv, WokenInv, [Next]_vars
    PROVE  WokenInv'
<1> USE RequesterAssumption
<1> SUFFICES ASSUME NEW r \in Requesters \cap Urgent, pc'[r] = "woken" PROVE poll' = "release"
  BY DEF WokenInv
<1>0. pc \in [Requesters -> Stages] /\ fin = {} /\ (pc[r] = "woken" => poll = "release")
  BY DEF TypeOK, ReqType, BusInv, WokenInv
<1>1. ASSUME NEW q \in Requesters, Requester(q) PROVE poll' = "release"
  <2>1. pc[r] = "woken"
    BY <1>0, <1>1 DEF Requester, HasBus, Wake, TakeMutex, Fill, Left, RunResTake,
                      ReqReadHoldingRegister, ReqRead_not_rtu_datas, StartWait, Return, ReleaseMutex
  <2> QED
    BY <1>0, <1>1, <2>1 DEF Requester, HasBus, Wake, TakeMutex, Fill, RunResTake,
                      ReqReadHoldingRegister, ReqRead_not_rtu_datas, EventPost, Return,
                      ReleaseMutex, pollVars
<1>2. CASE Poll
  <2>1. pc[r] # "woken"
    BY <1>2 DEF Poll, PollGet, PollNothing, PollAssertFails, PollFrameReceived, PollExecute,
                PollFrameSent, PollErrorProcess, RunResRelease, Handling, LowCanRun, Runnable
  <2>2. CASE PollExecute
    BY <1>0, <2>1, <2>2 DEF PollExecute
  <2>3. CASE PollErrorProcess
    BY <2>3 DEF PollErrorProcess
  <2>4. CASE RunResRelease
    BY <1>0, <2>1, <2>4 DEF RunResRelease
  <2>5. CASE PollGet \/ PollNothing \/ PollAssertFails \/ PollFrameReceived \/ PollFrameSent
    BY <2>1, <2>5 DEF PollGet, PollNothing, PollAssertFails, PollFrameReceived, PollFrameSent, reqVars
  <2> QED BY <1>2, <2>2, <2>3, <2>4, <2>5 DEF Poll
<1>3. CASE Transmitter \/ RTUReceiveFSM \/ RTUTimerExpired \/ Environment \/ UNCHANGED vars
  BY <1>0, <1>3 DEF Transmitter, TransmitByte, TransmitDone, RTUReceiveFSM, RTUTimerExpired,
                    EventPost, Environment, SlaveAnswer, reqVars, pollVars, vars
<1> QED BY <1>1, <1>2, <1>3 DEF Next

\* What the poll thread handles was pending.
LEMMA HandledIsPending ==
    ASSUME TypeOK, BusInv, NEW e \in PollEvents, Handling(e)
    PROVE  e \in Pending /\ ev = {}
<1>1. /\ ~Holds({})
      /\ \A x \in PollEvents : Holds({x}) => e = x
  BY HandleFact
<1>2. \E x \in PollEvents : Holds({x})
  BY <1>1 DEF BusInv, BusMode, Boot, Rest, Send, Xmit, Await, Recv, Judge, PollEvents
<1>3. Holds({e}) /\ poll = "handle"
  BY <1>1, <1>2 DEF Handling
<1> QED BY <1>3 DEF Holds, Pending

\* Steps of the requesters.
LEMMA RequesterOwn ==
    ASSUME TypeOK, BusInv, OwnInv, NEW q \in Requesters, Requester(q), NEW r \in Raw \cap Locked
    PROVE  OwnAfter(r)
<1> USE RequesterAssumption
<1>r. r \in Requesters
  BY DEF Requesters
<1>0. /\ pc \in [Requesters -> Stages] /\ result \in [Requesters -> Results]
      /\ UNCHANGED Composers(r)
  BY DEF TypeOK, ReqType, Composers, Unlocked
<1>1. ASSUME UNCHANGED <<pc[r], result[r], sndState, owed, line, rcvState, rcvBuf.msg, rcvBuf.kind,
                         ev, got, errType>>
      PROVE  OwnAfter(r)
  BY <1>0, <1>1 DEF OwnInv, OwnAfter, Answered, Own, Pending
<1>2. CASE Wake(q) \/ TakeMutex(q) \/ Fill(q) \/ RunResTake(q) \/ Return(q) \/ ReleaseMutex(q)
  <2>1. /\ UNCHANGED <<sndState, owed, line, rcvState, ev, got, errType>>
        /\ \E v \in {"mutex", "fill", "take", "post", "unlock", "idle"} : pc' = [pc EXCEPT ![q] = v]
        /\ q # r => UNCHANGED result[r]
    BY <1>0, <1>2, <1>r DEF Wake, TakeMutex, Fill, RunResTake, Return, ReleaseMutex, Left, pollVars,
                            rxVars, txVars
  <2>2. UNCHANGED <<rcvBuf.msg, rcvBuf.kind>>
    BY <1>2 DEF Wake, TakeMutex, Fill, RunResTake, Return, ReleaseMutex, rxVars, TypeOK, RxType, Answers
  <2>3. CASE q = r
    BY <1>0, <1>r, <2>1, <2>3 DEF OwnAfter
  <2>4. CASE q # r
    BY <1>0, <1>1, <1>r, <2>1, <2>2, <2>4
  <2> QED BY <2>3, <2>4
<1>5. ASSUME pc[q] = "post", EventPost("FRAME_SENT"), StartWait(q),
             UNCHANGED <<rxVars, txVars, line>>
      PROVE  OwnAfter(r)
  <2>1. pc' = [pc EXCEPT ![q] = "wait"] /\ result' = result
    BY <1>5 DEF StartWait, BusInv
  <2>2. CASE q = r
    <3>1. ~Waiting
      BY <1>5, <1>0 DEF BusInv, BusHasOneUser, InFlight, Waiting
    <3>2. Rest
      BY <1>5, <3>1 DEF BusInv, BusMode, Boot
    <3>3. Pending' = {"FRAME_SENT"}
      BY <1>5, <3>2, PostFact DEF Rest, Holds, Pending
    <3>4. Answered(r)'
      BY <1>5, <3>2, <3>3 DEF Answered, Rest, Silence, rxVars, txVars
    <3> QED BY <1>0, <1>r, <2>1, <2>2, <3>4 DEF OwnAfter
  <2>3. CASE q # r
    <3>1. pc[r] # "wait"
      BY <1>5, <1>r, <2>3 DEF BusInv, BusHasOneUser, InFlight
    <3> QED BY <1>0, <1>5, <1>r, <2>1, <2>3, <3>1 DEF OwnAfter, OwnInv, Own, rxVars
  <2> QED BY <2>2, <2>3
<1>6. CASE ReqRead_not_rtu_datas(q) \/ \E s \in Slaves : ReqReadHoldingRegister(q, s)
  BY <1>5, <1>6 DEF ReqRead_not_rtu_datas, ReqReadHoldingRegister
<1> QED BY <1>2, <1>6 DEF Requester, HasBus

\* Steps of the poll thread.
LEMMA PollOwn ==
    ASSUME TypeOK, BusInv, OwnInv, Poll, NEW r \in Raw \cap Locked
    PROVE  OwnAfter(r)
<1>r. r \in Requesters
  BY DEF Requesters
<1>0. /\ pc \in [Requesters -> Stages] /\ result \in [Requesters -> Results]
      /\ ev \in SUBSET PollEvents /\ got \in SUBSET PollEvents
      /\ UNCHANGED Composers(r)
  BY DEF TypeOK, ReqType, PollType, Composers, Unlocked
<1>1. UNCHANGED <<rcvBuf, rcvState, owed>> /\ line' \in {line, None}
  BY DEF Poll, PollGet, PollNothing, PollAssertFails, PollFrameReceived, PollExecute, PollFrameSent,
         PollErrorProcess, RunResRelease, rxVars
<1>2. ASSUME UNCHANGED <<pc, result, errType>>, sndState' = "XFWR" => sndState = "XFWR",
             Pending' \subseteq Pending
      PROVE  OwnAfter(r)
  BY <1>0, <1>1, <1>2 DEF OwnInv, OwnAfter, Answered, Own
<1>3. CASE PollGet
  <2>1. Pending' \subseteq Pending
    BY <1>3 DEF PollGet, Pending
  <2> QED BY <1>2, <1>3, <2>1 DEF PollGet, reqVars, txVars
<1>4. CASE PollNothing
  <2>1. Pending' \subseteq Pending
    BY <1>4 DEF PollNothing, Pending
  <2> QED BY <1>2, <1>4, <2>1 DEF PollNothing, reqVars, txVars
<1>11. CASE PollAssertFails
  <2>1. Pending' \subseteq Pending
    BY <1>11 DEF PollAssertFails, Pending
  <2> QED BY <1>2, <1>11, <2>1 DEF PollAssertFails, reqVars, txVars
<1>5. CASE PollFrameSent
  <2>1. Pending' \subseteq Pending
    BY <1>5 DEF PollFrameSent, Pending
  <2>2. sndState' = "XFWR" => sndState = "XFWR"
    BY <1>5 DEF PollFrameSent, txVars
  <2> QED BY <1>2, <1>5, <2>1, <2>2 DEF PollFrameSent, reqVars
<1>6. CASE RunResRelease
  <2>1. UNCHANGED <<result, errType, ev, got, sndState>>
    BY <1>6 DEF RunResRelease, txVars
  <2>2. pc'[r] \in {"wait", "woken"} => pc'[r] = pc[r]
    BY <1>0, <1>6, <1>r, FirstWaitersFact DEF RunResRelease
  <2> QED BY <1>0, <1>1, <2>1, <2>2 DEF OwnInv, OwnAfter, Answered, Own, Pending
<1>7. CASE PollFrameReceived
  <2>1. "FRAME_RECEIVED" \in Pending
    BY <1>7, HandledIsPending DEF PollFrameReceived, PollEvents
  <2>2. UNCHANGED <<pc, result, sndState>>
    BY <1>7 DEF PollFrameReceived, reqVars, txVars
  <2>3. pc[r] = "wait" => Own(r)
    BY <2>1 DEF OwnInv, Answered
  <2> QED BY <1>0, <1>1, <2>2, <2>3 DEF OwnInv, OwnAfter, Answered, Own
<1>8. ASSUME NEW bit, Complete(bit), bit = "RECEIVE_DATA" /\ pc[r] = "wait" => Own(r),
             UNCHANGED <<ev, errType, sndState>>, got' = {}
      PROVE  OwnAfter(r)
  <2>1. CASE pc'[r] = pc[r] /\ result'[r] = result[r]
    <3>1. Pending' \subseteq Pending
      BY <1>8 DEF Pending
    <3> QED BY <1>0, <1>1, <1>8, <2>1, <3>1 DEF OwnInv, OwnAfter, Answered, Own
  <2>2. CASE pc[r] = "wait" /\ pc'[r] = "woken" /\ result'[r] = ReqResult({bit})
    <3>1. ReqResult({bit}) = "REV_DATA" => bit = "RECEIVE_DATA"
      BY DEF ReqResult
    <3> QED BY <1>0, <1>1, <1>8, <2>2, <3>1 DEF OwnAfter, Own
  <2> QED BY <1>0, <1>8, <1>r, <2>1, <2>2, FirstWaitersFact DEF Complete
<1>9. CASE PollExecute
  <2>1. got' = {} /\ UNCHANGED sndState
    BY <1>9 DEF PollExecute, txVars
  <2>2. CASE AnswerFits
    <3>1. Complete("PROCESS_SUCESS") /\ UNCHANGED <<ev, errType>>
      BY <1>9, <2>2 DEF PollExecute
    <3> QED BY <1>8, <2>1, <3>1
  <2>3. CASE ~AnswerFits
    <3>1. /\ ev' = ev \cup {"ERROR_PROCESS"} /\ errType' = "EXECUTE_FUNCTION" /\ UNCHANGED <<pc, result>>
      BY <1>9, <2>3 DEF PollExecute
    <3>2. "FRAME_RECEIVED" \in Pending' => "FRAME_RECEIVED" \in Pending
      BY <2>1, <3>1 DEF Pending
    <3> QED BY <1>0, <1>1, <2>1, <3>1, <3>2 DEF OwnInv, OwnAfter, Answered, Own
  <2> QED BY <2>2, <2>3
<1>10. CASE PollErrorProcess
  <2>1. "ERROR_PROCESS" \in Pending
    BY <1>10, HandledIsPending DEF PollErrorProcess, PollEvents
  <2>2. Complete(errType) /\ got' = {} /\ UNCHANGED <<ev, errType, sndState>>
    BY <1>10 DEF PollErrorProcess, txVars
  <2>3. errType = "RECEIVE_DATA" /\ pc[r] = "wait" => Own(r)
    BY <2>1 DEF OwnInv, Answered
  <2> QED BY <1>8, <2>2, <2>3
<1> QED BY <1>3, <1>4, <1>5, <1>6, <1>7, <1>9, <1>10, <1>11 DEF Poll

\* Steps of the transmitter, the interrupts and the slaves.
LEMMA LineOwn ==
    ASSUME Raw \cap Locked \subseteq Urgent, Late = FALSE, TypeOK, BusInv, WireInv, WokenInv, OwnInv,
           Transmitter \/ RTUReceiveFSM \/ RTUTimerExpired \/ Environment, NEW r \in Raw \cap Locked
    PROVE  OwnAfter(r)
<1> USE RequesterAssumption, BusAssumption
<1>r. r \in Requesters /\ r \in Urgent
  BY DEF Requesters
<1>c. /\ UNCHANGED Composers(r)
      /\ \A m \in Composers(r) : m \notin Slaves
  BY DEF Composers, Unlocked, Requesters
<1>0. UNCHANGED <<pc, result>>
  BY DEF Transmitter, TransmitByte, TransmitDone, RTUReceiveFSM, RTUTimerExpired, Environment,
         SlaveAnswer, reqVars
<1>1. CASE TransmitByte
  BY <1>0, <1>1, <1>c DEF TransmitByte, OwnInv, OwnAfter, Answered, Own, Pending, pollVars, rxVars
<1>2. CASE TransmitDone
  <2>1. UNCHANGED <<line, rcvState, rcvBuf, ev, got, errType>>
    BY <1>2 DEF TransmitDone, pollVars, rxVars
  <2>2. ASSUME pc[r] = "wait" PROVE owed' \subseteq Composers(r)
    <3>1. sndState = "XMIT" /\ owed' = Understood
      BY <1>2 DEF TransmitDone
    <3>2. \A b \in wire : b[2] \in Composers(r)
      BY <2>2, <3>1 DEF WireInv, Untouched
    <3>3. Understood \subseteq Composers(r)
      <4>1. SUFFICES ASSUME NEW m \in Understood PROVE m \in Composers(r)
        OBVIOUS
      <4>2. <<"raw", m>> \in wire \/ <<"rtu", m>> \in wire
        BY DEF Understood
      <4> QED BY <3>2, <4>2
    <3> QED BY <3>1, <3>3
  <2> QED BY <1>0, <1>c, <2>1, <2>2 DEF OwnInv, OwnAfter, Answered, Own, Pending
<1>3. CASE RTUReceiveFSM
  <2>1. line # None /\ UNCHANGED <<ev, got, errType, owed>>
    BY <1>3 DEF RTUReceiveFSM, pollVars
  <2>2. Waiting
    BY <2>1 DEF BusInv, BusMode, Boot, Rest, Silence
  <2>3. pc[r] # "woken"
    <3>1. poll # "release"
      BY <2>2 DEF Waiting, BusInv, BusHasOneUser, InFlight
    <3> QED BY <1>r, <3>1 DEF WokenInv
  <2>4. ASSUME pc[r] = "wait" PROVE Answered(r)'
    <3>1. Answered(r) /\ line.msg \in Composers(r) /\ line.kind = "raw"
      BY <2>1, <2>4 DEF OwnInv, Answered
    <3>2. line' # None => line'.msg \in Composers(r) /\ line'.kind = "raw"
      BY <1>3, <2>1, <3>1 DEF RTUReceiveFSM, TypeOK, LineType, Lines
    <3>3. sndState' = "XFWR" => sndState = "XFWR"
      BY <1>3 DEF RTUReceiveFSM
    <3>4. CASE rcvState = "IDLE"
      <4>1. rcvBuf' = [msg |-> line.msg, kind |-> line.kind, head |-> TRUE]
        BY <1>3, <3>4 DEF RTUReceiveFSM
      <4> QED BY <1>c, <2>1, <3>1, <3>2, <3>3, <4>1 DEF Answered, Own, Pending
    <3>5. CASE rcvState # "IDLE"
      <4>1. rcvBuf' = rcvBuf /\ (rcvState' \in {"RCV", "ERROR"} => rcvState \in {"RCV", "ERROR"})
        BY <1>3, <3>5 DEF RTUReceiveFSM, rxVars
      <4> QED BY <1>c, <2>1, <3>1, <3>2, <3>3, <4>1 DEF Answered, Own, Pending
    <3> QED BY <3>4, <3>5
  <2> QED BY <1>0, <2>3, <2>4 DEF OwnAfter
<1>4. CASE RTUTimerExpired
  <2>1. UNCHANGED <<rcvBuf, line>> /\ sndState' = "IDLE" /\ rcvState' = "IDLE" /\ errType' = TimerError
    BY <1>4 DEF RTUTimerExpired
  <2>2. \A e \in Pending' : e \in Pending \/ e = TimerEvent
    BY <1>4 DEF RTUTimerExpired, EventPost, Pending, pollVars
  <2>3. ASSUME pc[r] = "wait" PROVE Answered(r)'
    <3>1. Answered(r)
      BY <2>3 DEF OwnInv
    <3>2. "FRAME_RECEIVED" \in Pending' => Own(r)
      BY <2>2, <3>1 DEF Answered, TimerEvent
    <3>3. "ERROR_PROCESS" \in Pending' /\ TimerError = "RECEIVE_DATA" => Own(r)
      BY <2>2, <3>1 DEF Answered, TimerEvent, TimerError
    <3> QED BY <1>c, <2>1, <3>1, <3>2, <3>3 DEF Answered, Own
  <2> QED BY <1>0, <1>c, <2>1, <2>3 DEF OwnInv, OwnAfter, Own
<1>5. ASSUME NEW m \in Messages, SlaveAnswer(m) PROVE OwnAfter(r)
  <2>1. /\ m \in owed /\ timer = "RESPOND" /\ owed' = owed \ {m}
        /\ UNCHANGED <<sndState, rcvState, rcvBuf, ev, got, errType>>
    BY <1>5 DEF SlaveAnswer, pollVars, rxVars, txVars
  <2>2. sndState = "XFWR"
    BY <2>1 DEF BusInv, BusMode, Boot, Rest, Send, Xmit, Await, Recv, Judge, Silence
  <2>3. ASSUME pc[r] = "wait" PROVE Answered(r)'
    <3>1. Answered(r) /\ m \in Composers(r) /\ m \notin Slaves
      BY <1>c, <2>1, <2>2, <2>3 DEF OwnInv, Answered
    <3>2. \E k \in {"raw"}, n \in 1..LineMax : line' = [msg |-> m, kind |-> k, left |-> n]
      BY <1>5, <3>1 DEF SlaveAnswer, AnswerKinds
    <3>3. line'.msg = m /\ line'.kind = "raw"
      BY <3>2
    <3> QED BY <1>c, <2>1, <3>1, <3>3 DEF Answered, Own, Pending
  <2> QED BY <1>0, <1>c, <2>1, <2>3 DEF OwnInv, OwnAfter, Own
<1> QED BY <1>1, <1>2, <1>3, <1>4, <1>5 DEF Transmitter, Environment

\* Every step keeps the answers apart.
LEMMA OwnStep ==
    ASSUME Raw \cap Locked \subseteq Urgent, Late = FALSE, TypeOK, BusInv, WireInv, WokenInv, OwnInv,
           [Next]_vars
    PROVE  OwnInv'
<1> SUFFICES ASSUME NEW r \in Raw \cap Locked PROVE OwnAfter(r)
  BY DEF OwnInv, OwnAfter
<1>1. CASE UNCHANGED vars
  BY <1>1 DEF vars, OwnInv, OwnAfter, Answered, Own, Composers, Unlocked, Pending, reqVars, pollVars,
              rxVars, txVars
<1> QED BY <1>1, RequesterOwn, PollOwn, LineOwn DEF Next

\* With prompt slaves, and when the threads that make vendor requests under modbus_mutex run
\* before the poll thread (as the display threads do), whatever other threads do with or
\* without the mutex: such a request that returns with MB_MRE_REV_DATA finds the answer to its
\* own frame in the receive buffer, or to the frame of a thread without the mutex.
THEOREM AnswersAreOwn ==
    ASSUME Raw \cap Locked \subseteq Urgent, Late = FALSE
    PROVE  Spec => AnswerIsOwn
<1>1. Init => WireInv /\ OwnInv
  BY RequesterAssumption DEF Init, WireInv, OwnInv, Requesters
<1>2. TypeOK /\ BusInv /\ [Next]_vars => BusInv'
  BY BusStep
<1>3. TypeOK /\ MutexInv /\ [Next]_vars => MutexInv'
  BY MutexStep
<1>4. TypeOK /\ BusInv /\ MutexInv /\ WireInv /\ [Next]_vars => WireInv'
  BY WireStep
<1>5. TypeOK /\ BusInv /\ WokenInv /\ [Next]_vars => WokenInv'
  BY WokenStep
<1>6. TypeOK /\ BusInv /\ WireInv /\ WokenInv /\ OwnInv /\ [Next]_vars => OwnInv'
  BY OwnStep
<1>7. OwnInv => [\A r \in Raw \cap Locked :
                    pc[r] = "woken" /\ pc'[r] # "woken" /\ result[r] = "REV_DATA"
                      => rcvBuf.kind = "raw" /\ rcvBuf.msg \in Composers(r)]_vars
  BY DEF OwnInv, Own
<1> QED
  BY TypeCorrect, BusInit, MutexInit, WokenInit, <1>1, <1>2, <1>3, <1>4, <1>5, <1>6, <1>7, PTL
     DEF Spec, AnswerIsOwn

===============================================================================
