--------------------------- MODULE DisplayLinkProofs ---------------------------
(* Proofs about the link to the display board, for every set of settings, keys, *)
(* commands and faults and any number of events.                                *)
EXTENDS DisplayLink, TLAPS

USE DEF Power, Mode, Esd, Pht, Speed, Fault, Nothing, F1, F2, MotorBit, PhtBit

--------------------------------------------------------------------------------
\* The operators

\* The settings of a frame are those with a type; there are at least two of them.
LEMMA OrderFacts ==
  /\ Len(Order) \in Nat /\ DOMAIN Order = 1..Len(Order)
  /\ \A i \in 1..Len(Order) : Order[i] \in Types
  /\ Types \subseteq {2, 3, 4, 5, 7} /\ Power \in Types /\ Mode \in Types
  /\ FrameLen \in Nat /\ FrameLen >= 5 /\ FrameLen = Len(Order) + 3
  <1>1. Order \in Seq({2, 3, 4, 5, 7}) /\ Power \in Types /\ Mode \in Types
    BY DisplayAssumption
  <1>2. Len(Order) \in Nat /\ DOMAIN Order = 1..Len(Order)
    BY <1>1
  <1>3. \A i \in 1..Len(Order) : Order[i] \in {2, 3, 4, 5, 7} /\ Order[i] \in Types
    BY <1>1, <1>2 DEF Types
  <1>4. Types \subseteq {2, 3, 4, 5, 7}
    BY <1>2, <1>3 DEF Types
  <1>5. PICK i \in 1..Len(Order) : Order[i] = 2
    BY <1>1, <1>2 DEF Types
  <1>6. PICK j \in 1..Len(Order) : Order[j] = 3
    BY <1>1, <1>2 DEF Types
  <1>7. i # j
    BY <1>5, <1>6
  <1>8. Len(Order) >= 2
    BY <1>2, <1>7
  <1> QED BY <1>1, <1>2, <1>3, <1>4, <1>8 DEF FrameLen

\* The fault byte is the sum of five bits.
LEMMA FaultByteType == FaultByte \in Byte
  BY DEF FaultByte, Bit, Byte

\* Small numbers and start codes are bytes.
LEMMA Bytes ==
  F1 \in Byte /\ F2 \in Byte /\ (\A v \in 0..3 : v \in Byte) /\ (\A g \in Garbage : g \in Byte)
  BY DisplayAssumption DEF Byte

\* A function on an initial segment of the numbers is a sequence.
LEMMA FunctionSeq ==
  ASSUME NEW S, NEW n \in Nat, NEW f \in [1..n -> S] PROVE f \in Seq(S) /\ Len(f) = n
  OBVIOUS

\* Two sequences in a row.
LEMMA ConcatSeq ==
  ASSUME NEW S, NEW s \in Seq(S), NEW t \in Seq(S)
  PROVE  /\ s \o t \in Seq(S) /\ Len(s \o t) = Len(s) + Len(t)
         /\ \A i \in 1..Len(s) : (s \o t)[i] = s[i]
  OBVIOUS

\* The two kinds of frames, and the one with an undefined byte, have the shape that the
\* receiver goes by: two equal start codes, and the length that the start code tells.
Frame(f) ==
    /\ f \in Seq(Byte)
    /\ Len(f) = IF f[1] = F1 THEN 4 ELSE FrameLen
    /\ f[1] = f[2] /\ f[1] \in {F1, F2}

LEMMA ShortFrame ==
  ASSUME NEW a \in Byte, NEW b \in Byte PROVE Frame(<<F1, F1, a, b>>)
  BY Bytes DEF Frame

LEMMA StateFrame == ASSUME TypeOK PROVE Frame(State)
  <1> DEFINE s == [i \in DOMAIN Order |-> main[Order[i]]]
             h == <<F2, F2>>
             e == <<FaultByte>>
  <1>1. s \in Seq(Byte) /\ Len(s) = Len(Order)
    <2>1. main \in [Types -> 0..3]
      BY DEF TypeOK
    <2>2. \A i \in 1..Len(Order) : main[Order[i]] \in Byte
      BY <2>1, OrderFacts, Bytes
    <2>3. s \in [1..Len(Order) -> Byte]
      BY <2>2, OrderFacts
    <2> HIDE DEF s
    <2> QED BY <2>3, FunctionSeq, OrderFacts
  <1>2. h \in Seq(Byte) /\ e \in Seq(Byte)
    BY Bytes, FaultByteType
  <1>3. Len(h) = 2 /\ Len(e) = 1 /\ h[1] = F2 /\ h[2] = F2
    OBVIOUS
  <1>4. State = h \o s \o e
    BY DEF State
  <1> HIDE DEF s, h, e
  <1>5. /\ h \o s \in Seq(Byte) /\ Len(h \o s) = Len(h) + Len(s)
        /\ \A i \in 1..Len(h) : (h \o s)[i] = h[i]
    BY <1>1, <1>2, ConcatSeq
  <1> DEFINE u == h \o s
  <1>6. u \in Seq(Byte)
    BY <1>5
  <1>7. Len(u) = Len(Order) + 2 /\ u[1] = F2 /\ u[2] = F2
    BY <1>1, <1>3, <1>5, OrderFacts
  <1> HIDE DEF u
  <1>8. /\ u \o e \in Seq(Byte) /\ Len(u \o e) = Len(u) + Len(e)
        /\ \A i \in 1..Len(u) : (u \o e)[i] = u[i]
    BY <1>2, <1>6, ConcatSeq
  <1>9. Len(u \o e) = Len(Order) + 3 /\ (u \o e)[1] = F2 /\ (u \o e)[2] = F2
    BY <1>3, <1>7, <1>8, OrderFacts
  <1> QED BY <1>4, <1>8, <1>9, OrderFacts DEF Frame, u

\* set_device_work_mode leaves settings in range and faults as they are or none.
LEMMA SettledType ==
  ASSUME TypeOK, NEW type, NEW data, set_device_work_mode(type, data)
  PROVE  main' \in [Types -> 0..3] /\ fault' \subseteq 0..4
  <1>1. main \in [Types -> 0..3]
    BY DEF TypeOK
  <1>2. \A v \in 0..3 : [main EXCEPT ![type] = v] \in [Types -> 0..3]
    BY <1>1
  <1>3. (IF data # 0 THEN 1 ELSE 0) \in 0..3
    OBVIOUS
  <1>4. Settled(type, data) \in [Types -> 0..3]
    <2>1. CASE Refused(type)
      BY <1>1, <2>1 DEF Settled
    <2>2. CASE ~Refused(type) /\ type \in {Power, Esd, Pht}
      BY <1>2, <1>3, <2>2 DEF Settled
    <2>3. CASE /\ ~Refused(type) /\ type \notin {Power, Esd, Pht}
               /\ (type = Mode /\ data \in 1..2) \/ (type = Speed /\ data \in 0..3)
      BY <1>2, <2>3 DEF Settled
    <2>4. CASE /\ ~Refused(type) /\ type \notin {Power, Esd, Pht}
               /\ ~((type = Mode /\ data \in 1..2) \/ (type = Speed /\ data \in 0..3))
      BY <1>1, <2>4 DEF Settled
    <2> QED BY <2>1, <2>2, <2>3, <2>4
  <1> QED BY <1>4 DEF set_device_work_mode, TypeOK

\* A key asks for a value of its setting, or for what it asked for before.
LEMMA KeyValueType ==
  ASSUME TypeOK, NEW k \in Types PROVE KeyValue(k) \in 0..3 \cup {Nothing}
  <1>1. panel \in [Types \cup {Fault} -> Byte] /\ pending \in [Types -> 0..3 \cup {Nothing}]
    BY DEF TypeOK
  <1>2. Mode \in Types
    BY OrderFacts
  <1>3. CASE k = Power
    BY <1>3 DEF KeyValue
  <1>4. CASE k = Mode
    BY <1>1, <1>2, <1>4 DEF KeyValue
  <1>5. CASE k = Speed
    BY <1>1, <1>5 DEF KeyValue, Byte
  <1>6. CASE k \notin {Power, Mode, Speed}
    BY <1>1, <1>6 DEF KeyValue
  <1> QED BY <1>3, <1>4, <1>5, <1>6

\* A key that waits is one of the five, and one of them is the first.
LEMMA FirstKey ==
  ASSUME NEW k \in Types, Reportable(k)
  PROVE  \E i \in DOMAIN Priority :
            Reportable(Priority[i]) /\ \A j \in 1..(i - 1) : ~Reportable(Priority[j])
  <1> DEFINE R(i) == Reportable(Priority[i])
  <1>1. DOMAIN Priority = 1..5
    BY DEF Priority
  <1>2. \E i \in 1..5 : R(i)
    <2>1. k \in {2, 3, 5, 7, 4}
      BY OrderFacts
    <2>2. /\ Priority[1] = 2 /\ Priority[2] = 3 /\ Priority[3] = 5 /\ Priority[4] = 7
          /\ Priority[5] = 4
      BY DEF Priority
    <2> QED BY <2>1, <2>2
  <1> HIDE DEF R
  <1>3. \E i \in 1..5 : R(i) /\ \A j \in 1..(i - 1) : ~R(j)
    <2>1. CASE R(1)
      BY <2>1
    <2>2. CASE ~R(1) /\ R(2)
      BY <2>2
    <2>3. CASE ~R(1) /\ ~R(2) /\ R(3)
      BY <2>3
    <2>4. CASE ~R(1) /\ ~R(2) /\ ~R(3) /\ R(4)
      BY <2>4
    <2>5. CASE ~R(1) /\ ~R(2) /\ ~R(3) /\ ~R(4)
      BY <1>2, <2>5
    <2> QED BY <2>1, <2>2, <2>3, <2>4, <2>5
  <1> QED BY <1>1, <1>3 DEF R

\* An answer carries a key that waits, which then waits no more, or nothing, or is not sent.
LEMMA AnswerStep ==
  ASSUME NEW type, Answer(type)
  PROVE  \/ \E k \in Types : /\ pending[k] # Nothing
                             /\ back' = <<k, pending[k]>>
                             /\ pending' = [pending EXCEPT ![k] = Nothing]
                             /\ flag' = FALSE
         \/ pending' = pending /\ back' = <<1, 0>> /\ flag' = FALSE
         \/ pending' = pending /\ back' = back /\ flag' = flag
  <1>1. CASE Reports(type)
    <2> DEFINE i == CHOOSE i \in DOMAIN Priority :
                      Reportable(Priority[i]) /\ \A j \in 1..(i - 1) : ~Reportable(Priority[j])
    <2>1. \E k \in Types : Reportable(k)
      BY <1>1 DEF Reports
    <2>2. \E n \in DOMAIN Priority :
             Reportable(Priority[n]) /\ \A j \in 1..(n - 1) : ~Reportable(Priority[j])
      BY <2>1, FirstKey
    <2>3. Reportable(Priority[i])
      BY <2>2
    <2>4. back' = <<Priority[i], pending[Priority[i]]>> /\ pending' = Sent(Priority[i]) /\ flag' = FALSE
      BY <1>1 DEF Answer
    <2> HIDE DEF i
    <2> QED BY <2>3, <2>4 DEF Reportable, Sent
  <1>2. CASE ~Reports(type)
    BY <1>2 DEF Answer
  <1> QED BY <1>1, <1>2

Panels == [Types \cup {Fault} -> Byte]

\* What a frame leaves on the panel.
LEMMA CheckedType ==
  ASSUME NEW p \in Panels PROVE device_work_mode_check(p) \in Panels
  BY Bytes DEF device_work_mode_check, Panels

LEMMA AppliedType ==
  ASSUME TypeOK, NEW type, NEW data PROVE Applied(type, data) \in Panels
  <1>1. panel \in Panels
    BY DEF TypeOK, Panels
  <1>2. \A v \in 0..3 : [panel EXCEPT ![type] = v] \in Panels
    BY <1>1, Bytes DEF Panels
  <1>3. (IF data # 0 THEN 1 ELSE 0) \in 0..3
    OBVIOUS
  <1>4. CASE type \in {Power, Esd, Pht}
    BY <1>2, <1>3, <1>4 DEF Applied
  <1>5. CASE /\ type \notin {Power, Esd, Pht}
             /\ (type = Mode /\ data \in 1..2) \/ (type = Speed /\ data \in 0..3)
    <2>1. data \in 0..3
      BY <1>5
    <2> QED BY <1>2, <1>5, <2>1 DEF Applied
  <1>6. CASE /\ type \notin {Power, Esd, Pht}
             /\ ~((type = Mode /\ data \in 1..2) \/ (type = Speed /\ data \in 0..3))
    BY <1>1, <1>6 DEF Applied
  <1> QED BY <1>4, <1>5, <1>6

LEMMA ShownType == ASSUME NEW t \in Buffer PROVE Shown(t) \in Panels
  <1>1. \A k \in Types : \E i \in DOMAIN Order : Order[i] = k
    BY DEF Types
  <1>2. ASSUME NEW k \in Types PROVE (CHOOSE i \in DOMAIN Order : Order[i] = k) \in 1..Len(Order)
    BY <1>1, OrderFacts
  <1>3. ASSUME NEW k \in Types PROVE t[2 + CHOOSE i \in DOMAIN Order : Order[i] = k] \in Byte
    <2> DEFINE i == CHOOSE i \in DOMAIN Order : Order[i] = k
    <2>1. i \in 1..Len(Order)
      BY <1>2
    <2> HIDE DEF i
    <2>2. 2 + i \in 1..FrameLen
      BY <2>1, OrderFacts
    <2>3. t[2 + i] \in Byte
      BY <2>2 DEF Buffer
    <2> QED BY <2>3 DEF i
  <1>4. t[FrameLen] \in Byte
    BY OrderFacts DEF Buffer
  <1>5. Fault \notin Types
    BY OrderFacts
  <1> QED BY <1>3, <1>4, <1>5 DEF Shown, Panels

--------------------------------------------------------------------------------
\* Type correctness

Budgets == [{"input", "trouble"} -> Nat]

\* An event is counted once, and a count is never taken back.
LEMMA SpendStep ==
  ASSUME TypeOK, NEW kind \in {"input", "trouble"}, Spend(kind)
  PROVE  budget' \in Budgets /\ budget'["trouble"] >= budget["trouble"]
  BY DEF Spend, TypeOK, Budgets

LEMMA TypeInit == Init => TypeOK
  <1> SUFFICES ASSUME Init PROVE TypeOK
    OBVIOUS
  <1>1. 0 \in Byte /\ 1 \in Byte
    BY DEF Byte
  <1>2. Blank \in Buffer
    BY <1>1 DEF Blank, Buffer
  <1>3. main \in [Types -> 0..3] /\ pending \in [Types -> 0..3 \cup {Nothing}]
    BY DEF Init
  <1>4. panel \in [Types \cup {Fault} -> Byte]
    BY <1>1 DEF Init
  <1>5. loop \in [pc : {"scan", "copy", "apply"}, tmp : Buffer, n : 0..FrameLen]
    BY <1>2, OrderFacts DEF Init
  <1>6. Len(isr) < FrameLen /\ isr \in Seq(Byte)
    BY OrderFacts DEF Init
  <1>7. work \in [pc : {"sleep", "send"}, pre : SUBSET (0..4 \cup {Nothing})]
    BY DEF Init
  <1>8. dcm \in [pc : {"no", "set"}, new : SUBSET (0..4)]
    BY DEF Init
  <1>9. asked \in [Types -> Nat] /\ done \in [Types -> Nat] /\ budget \in [{"input", "trouble"} -> Nat]
    BY DEF Init
  <1> QED BY <1>2, <1>3, <1>4, <1>5, <1>6, <1>7, <1>8, <1>9 DEF Init, TypeOK

\* The settings, the faults and the threads of the main board.
LEMMA MainType ==
  ASSUME TypeOK,
         \/ \E c \in Phone : PhoneCommand(c)
         \/ \E b \in Faults : FaultChanges(b)
         \/ \E bad \in MotorStates : MotorRead(bad)
         \/ MonitorPass \/ MotorWrite
  PROVE  TypeOK'
  <1>1. ASSUME NEW c \in Phone, PhoneCommand(c) PROVE TypeOK'
    <2>1. c[2] \in 0..3
      BY DisplayAssumption
    <2>2. main' \in [Types -> 0..3] /\ fault' \subseteq 0..4
      BY <1>1, SettledType DEF PhoneCommand
    <2>3. budget' \in [{"input", "trouble"} -> Nat]
      BY <1>1, SpendStep DEF PhoneCommand, Budgets
    <2>4. phone' \in 0..3 \cup {Nothing}
      BY <1>1, <2>1 DEF PhoneCommand
    <2> QED BY <1>1, <2>2, <2>3, <2>4 DEF PhoneCommand, TypeOK, dispVars, hist
  <1>2. ASSUME NEW b \in Faults, FaultChanges(b) PROVE TypeOK'
    <2>1. b \in 0..4
      BY DisplayAssumption
    <2>2. budget' \in [{"input", "trouble"} -> Nat]
      BY <1>2, SpendStep DEF FaultChanges, Budgets
    <2>3. inFault' \subseteq 0..4
      BY <1>2, <2>1 DEF FaultChanges, TypeOK
    <2> QED BY <1>2, <2>2, <2>3 DEF FaultChanges, TypeOK, dispVars, hist
  <1>3. ASSUME NEW bad \in MotorStates, MotorRead(bad) PROVE TypeOK'
    <2>2. dcm' \in [pc : {"no", "set"}, new : SUBSET (0..4)]
      <3>1. fault \cup {MotorBit} \in SUBSET (0..4) /\ fault \ {MotorBit} \in SUBSET (0..4)
        BY DEF TypeOK
      <3> QED BY <1>3, <3>1 DEF MotorRead
    <2> QED BY <1>3, <2>2 DEF MotorRead, TypeOK, dispVars, hist
  <1>4. CASE MonitorPass
    <2>1. fault' \subseteq 0..4
      <3>1. Monitored \subseteq 0..4
        BY DEF Monitored, TypeOK
      <3> QED BY <1>4, <3>1 DEF MonitorPass
    <2>2. work' \in [pc : {"sleep", "send"}, pre : SUBSET (0..4 \cup {Nothing})]
      BY <1>4 DEF MonitorPass, TypeOK
    <2>3. budget' \in [{"input", "trouble"} -> Nat]
      BY <1>4, SpendStep DEF MonitorPass, Budgets, TypeOK
    <2> QED BY <1>4, <2>1, <2>2, <2>3 DEF MonitorPass, TypeOK, dispVars, hist
  <1>5. CASE MotorWrite
    <2>1. dcm' \in [pc : {"no", "set"}, new : SUBSET (0..4)] /\ fault' \subseteq 0..4
      BY <1>5 DEF MotorWrite, TypeOK
    <2> QED BY <1>5, <2>1 DEF MotorWrite, TypeOK, dispVars, hist
  <1> QED BY <1>1, <1>2, <1>3, <1>4, <1>5

\* What the four requests do: one frame of the right shape is on the way.
Requests ==
    \/ get_display_board_data \/ set_display_board_data
    \/ MonitorSend \/ set_dispboard_function_mode

FrameSent ==
    /\ req = "no" /\ air = << >> /\ req' \in {"query", "state", "fault", "function"}
    /\ Frame(air') /\ last' = air' /\ phone' \in 0..3 \cup {Nothing}
    /\ UNCHANGED <<main, inFault, fault, work, dcm, back, dispVars, budget, asked, done>>

LEMMA RequestStep == ASSUME TypeOK, Requests PROVE FrameSent
  <1>1. phone \in 0..3 \cup {Nothing}
    BY DEF TypeOK
  <1>2. ASSUME NEW kind \in {"query", "state", "fault", "function"}, NEW f, Request(kind, f),
               Frame(f), phone' \in 0..3 \cup {Nothing}
        PROVE  FrameSent
    BY <1>2 DEF Request, FrameSent
  <1>3. CASE get_display_board_data
    <2>1. Frame(Query)
      <3>1. 1 \in Byte /\ 0 \in Byte
        BY DEF Byte
      <3> QED BY <3>1, ShortFrame DEF Query
    <2> QED BY <1>1, <1>2, <1>3, <2>1 DEF get_display_board_data
  <1>4. CASE set_display_board_data
    BY <1>1, <1>2, <1>4, StateFrame DEF set_display_board_data
  <1>5. CASE MonitorSend
    BY <1>1, <1>2, <1>5, StateFrame DEF MonitorSend
  <1>6. CASE set_dispboard_function_mode
    <2>1. PICK g \in Garbage : Request("function", <<F1, F1, phone, g>>)
      BY <1>6 DEF set_dispboard_function_mode
    <2>2. phone \in Byte /\ g \in Byte
      BY <1>1, <1>6, Bytes DEF set_dispboard_function_mode
    <2>3. Frame(<<F1, F1, phone, g>>)
      BY <2>2, ShortFrame
    <2>4. phone' = Nothing
      BY <1>6 DEF set_dispboard_function_mode
    <2> QED BY <1>2, <2>1, <2>3, <2>4
  <1> QED BY <1>3, <1>4, <1>5, <1>6 DEF Requests

LEMMA RequestType == ASSUME TypeOK, Requests PROVE TypeOK'
  <1>1. /\ req' \in {"query", "state", "fault", "function"}
        /\ Frame(air') /\ last' = air' /\ phone' \in 0..3 \cup {Nothing}
        /\ UNCHANGED <<main, inFault, fault, work, dcm, back, dispVars, budget, asked, done>>
    BY RequestStep DEF FrameSent
  <1>2. air' \in Seq(Byte) /\ last' \in Seq(Byte)
    BY <1>1 DEF Frame
  <1> QED BY <1>1, <1>2 DEF TypeOK, dispVars

\* The end of a request.
LEMMA FinishType ==
  ASSUME TypeOK, Finish
  PROVE  /\ req' \in {"no", "query", "state", "fault", "function", "other"}
         /\ work' \in [pc : {"sleep", "send"}, pre : SUBSET (0..4 \cup {Nothing})]
  BY DEF Finish, TypeOK

\* The command of an answer is a key of the panel, or none.
LEMMA BackKey ==
  ASSUME TypeOK, back # << >>
  PROVE  back[1] \in Types \cup {1} /\ (back[1] \in 2..7 <=> back[1] \in Types)
  <1>1. back = <<1, 0>> \/ back \in Types \X (0..3)
    BY DEF TypeOK
  <1>2. CASE back = <<1, 0>>
    BY <1>2, OrderFacts
  <1>3. CASE back \in Types \X (0..3)
    <2>1. back[1] \in Types
      BY <1>3
    <2>2. back[1] \in {2, 3, 4, 5, 7}
      BY <2>1, OrderFacts
    <2> QED BY <2>1, <2>2
  <1> QED BY <1>1, <1>2, <1>3

\* An exchange with a sensor or the motor puts bytes on the line.
LEMMA ForeignType ==
  ASSUME TypeOK, NEW f \in Foreign, ForeignExchange(f) PROVE TypeOK'
  <1>1. budget' \in [{"input", "trouble"} -> Nat]
    BY SpendStep DEF ForeignExchange, Budgets, TypeOK
  <1>2. air' \in Seq(Byte)
    BY DisplayAssumption DEF ForeignExchange, Byte
  <1> QED BY <1>1, <1>2 DEF ForeignExchange, TypeOK, mainVars, dispVars, hist

LEMMA BusType == ASSUME TypeOK, Timeout \/ Answered \/ Lose PROVE TypeOK'
  <1>1. CASE Timeout
    <2>1. budget' \in [{"input", "trouble"} -> Nat]
      BY <1>1, SpendStep DEF Timeout, Budgets, TypeOK
    <2> QED BY <1>1, <2>1, FinishType DEF Timeout, TypeOK, dispVars, hist
  <1>2. CASE Answered
    <2>1. main' \in [Types -> 0..3] /\ fault' \subseteq 0..4 /\ done' \in [Types -> Nat]
      <3>1. CASE req = "query" /\ back[1] \in 2..7
        <4>1. set_device_work_mode(back[1], back[2]) /\ done' = [done EXCEPT ![back[1]] = @ + 1]
          BY <1>2, <3>1 DEF Answered
        <4>2. back[1] \in Types
          BY <1>2, <3>1, BackKey DEF Answered
        <4>3. done' \in [Types -> Nat]
          BY <4>1, <4>2 DEF TypeOK
        <4> QED BY <4>1, <4>3, SettledType
      <3>2. CASE ~(req = "query" /\ back[1] \in 2..7)
        <4>1. UNCHANGED <<main, fault, done>>
          BY <1>2, <3>2 DEF Answered
        <4> QED BY <4>1 DEF TypeOK
      <3> QED BY <3>1, <3>2
    <2>2. /\ req' \in {"no", "query", "state", "fault", "function", "other"}
          /\ work' \in [pc : {"sleep", "send"}, pre : SUBSET (0..4 \cup {Nothing})]
      <3>1. CASE req = "no"
        BY <1>2, <3>1 DEF Answered, TypeOK
      <3>2. CASE req # "no"
        BY <1>2, <3>2, FinishType DEF Answered
      <3> QED BY <3>1, <3>2
    <2> QED BY <1>2, <2>1, <2>2 DEF Answered, TypeOK, dispVars
  <1>3. CASE Lose
    <2>1. budget' \in [{"input", "trouble"} -> Nat]
      BY <1>3, SpendStep DEF Lose, Budgets
    <2>2. air' \in Seq(Byte) /\ back' \in {<< >>, <<1, 0>>} \cup (Types \X (0..3))
      <3>1. air \in Seq(Byte) /\ back \in {<< >>, <<1, 0>>} \cup (Types \X (0..3))
        BY DEF TypeOK
      <3>2. CASE air # << >> /\ air' = Tail(air) /\ UNCHANGED back
        BY <3>1, <3>2
      <3>3. CASE back' = << >> /\ UNCHANGED air
        BY <3>1, <3>3
      <3> QED BY <1>3, <3>2, <3>3 DEF Lose
    <2> QED BY <1>3, <2>1, <2>2 DEF Lose, TypeOK, mainVars, dispVars, hist
  <1> QED BY <1>1, <1>2, <1>3

\* The receive interrupt takes one byte and forgets what it has, fills the buffer or adds the
\* byte to what it has.
LEMMA ReceiveStep ==
  ASSUME TypeOK, serial_int1_receive
  PROVE  /\ air # << >> /\ Head(air) \in Byte /\ air' = Tail(air)
         /\ air' \in Seq(Byte) /\ Append(isr, Head(air)) \in Seq(Byte)
         /\ \/ isr' = << >> /\ UNCHANGED <<inbuf, flag>>
            \/ /\ isr' = << >> /\ flag' = TRUE
               /\ inbuf' = [i \in 1..FrameLen |->
                              IF i <= Len(isr) + 1 THEN Append(isr, Head(air))[i] ELSE inbuf[i]]
            \/ isr' = Append(isr, Head(air)) /\ Len(isr) + 1 < FrameLen /\ UNCHANGED <<inbuf, flag>>
  <1> DEFINE b == Head(air)
             buf == Append(isr, b)
             forget == (isr = << >> /\ b \notin {F1, F2}) \/ (Len(isr) = 1 /\ b # isr[1])
  <1>1. air \in Seq(Byte) /\ isr \in Seq(Byte) /\ air # << >> /\ air' = Tail(air)
    BY DEF TypeOK, serial_int1_receive
  <1>2. b \in Byte /\ air' \in Seq(Byte)
    BY <1>1
  <1>3. buf \in Seq(Byte) /\ Len(buf) = Len(isr) + 1 /\ Len(isr) \in Nat
    <2> HIDE DEF b
    <2> QED BY <1>1, <1>2
  <1>4. IF forget THEN isr' = << >> /\ UNCHANGED <<inbuf, flag>>
        ELSE IF Len(buf) > 1 /\ Complete(buf)
        THEN /\ isr' = << >> /\ flag' = TRUE
             /\ inbuf' = [i \in 1..FrameLen |-> IF i <= Len(buf) THEN buf[i] ELSE inbuf[i]]
        ELSE isr' = buf /\ UNCHANGED <<inbuf, flag>>
    BY DEF serial_int1_receive
  <1> HIDE DEF b, buf, forget
  <1>5. CASE forget
    BY <1>1, <1>2, <1>3, <1>4, <1>5 DEF b, buf
  <1>6. CASE ~forget /\ Len(buf) > 1 /\ Complete(buf)
    <2>1. inbuf' = [i \in 1..FrameLen |-> IF i <= Len(isr) + 1 THEN buf[i] ELSE inbuf[i]]
      BY <1>3, <1>4, <1>6
    <2> QED BY <1>1, <1>2, <1>3, <1>4, <1>6, <2>1 DEF b, buf
  <1>7. CASE ~forget /\ ~(Len(buf) > 1 /\ Complete(buf))
    <2>1. Len(isr) + 1 < FrameLen
      BY <1>3, <1>7, OrderFacts DEF Complete
    <2> QED BY <1>1, <1>2, <1>3, <1>4, <1>7, <2>1 DEF b, buf
  <1> QED BY <1>5, <1>6, <1>7

LEMMA ReceiveType == ASSUME TypeOK, serial_int1_receive PROVE TypeOK'
  <1> DEFINE buf == Append(isr, Head(air))
  <1>1. air' \in Seq(Byte) /\ buf \in Seq(Byte) /\ Len(buf) = Len(isr) + 1 /\ Len(isr) \in Nat
    <2>1. Head(air) \in Byte /\ isr \in Seq(Byte)
      BY ReceiveStep DEF TypeOK
    <2>2. \A x \in Byte : Len(Append(isr, x)) = Len(isr) + 1
      BY <2>1
    <2> QED BY <2>1, <2>2, ReceiveStep
  <1>2. isr' \in Seq(Byte) /\ Len(isr') < FrameLen /\ flag' \in BOOLEAN /\ inbuf' \in Buffer
    <2>1. isr \in Seq(Byte) /\ flag \in BOOLEAN /\ inbuf \in Buffer
      BY DEF TypeOK
    <2>2. CASE isr' = << >> /\ UNCHANGED <<inbuf, flag>>
      BY <2>1, <2>2, OrderFacts
    <2>3. CASE /\ isr' = << >> /\ flag' = TRUE
               /\ inbuf' = [i \in 1..FrameLen |-> IF i <= Len(isr) + 1 THEN buf[i] ELSE inbuf[i]]
      <3> HIDE DEF buf
      <3>1. \A i \in 1..FrameLen : i <= Len(isr) + 1 => buf[i] \in Byte
        BY <1>1, OrderFacts
      <3>2. inbuf' \in Buffer
        BY <2>1, <2>3, <3>1 DEF Buffer
      <3> QED BY <2>3, <3>2, OrderFacts
    <2>4. CASE isr' = buf /\ Len(isr) + 1 < FrameLen /\ UNCHANGED <<inbuf, flag>>
      <3> HIDE DEF buf
      <3> QED BY <1>1, <2>1, <2>4
    <2> QED BY <2>2, <2>3, <2>4, ReceiveStep
  <1> QED BY <1>1, <1>2 DEF serial_int1_receive, TypeOK, mainVars, hist

\* The keys and the main loop of the display.
LEMMA PanelType ==
  ASSUME TypeOK, (\E k \in Pressed : Press(k)) \/ cmd_uart_check
  PROVE  TypeOK'
  <1>0. 0 \in Byte /\ Blank \in Buffer /\ 0 \in 0..FrameLen
    BY OrderFacts DEF Byte, Blank, Buffer
  <1>1. ASSUME NEW k \in Pressed, Press(k) PROVE TypeOK'
    <2>1. k \in Types
      BY DisplayAssumption
    <2>2. budget' \in [{"input", "trouble"} -> Nat]
      BY <1>1, SpendStep DEF Press, Budgets
    <2>3. pending' \in [Types -> 0..3 \cup {Nothing}] /\ asked' \in [Types -> Nat]
      <3>1. KeyValue(k) \in 0..3 \cup {Nothing}
        BY <2>1, KeyValueType
      <3>2. pending' = [pending EXCEPT ![k] = KeyValue(k)] /\ asked' = [asked EXCEPT ![k] = @ + 1]
        BY <1>1 DEF Press
      <3> QED BY <2>1, <3>1, <3>2 DEF TypeOK
    <2> QED BY <1>1, <2>2, <2>3 DEF Press, TypeOK, mainVars
  <1>2. ASSUME NEW n \in 0..FrameLen, CheckBegin(n) PROVE TypeOK'
    <2>1. [i \in 1..FrameLen |-> IF i <= n THEN inbuf[i] ELSE 0] \in Buffer
      BY <1>0 DEF Buffer, TypeOK
    <2>2. loop' \in [pc : {"scan", "copy", "apply"}, tmp : Buffer, n : 0..FrameLen]
      BY <1>2, <2>1 DEF CheckBegin
    <2> QED BY <1>2, <2>2 DEF CheckBegin, TypeOK, mainVars, hist
  <1>3. ASSUME NEW n \in 0..FrameLen, CheckCopy(n) PROVE TypeOK'
    <2>1. [i \in 1..FrameLen |-> IF i <= loop.n THEN loop.tmp[i] ELSE inbuf[i]] \in Buffer
      <3>1. loop.tmp \in Buffer /\ inbuf \in Buffer
        BY DEF TypeOK
      <3> QED BY <3>1 DEF Buffer
    <2>2. [i \in 1..FrameLen |-> IF i <= n THEN 0 ELSE inbuf[i]] \in Buffer
      BY <1>0 DEF Buffer, TypeOK
    <2>3. loop' \in [pc : {"scan", "copy", "apply"}, tmp : Buffer, n : 0..FrameLen]
      BY <1>3, <2>1 DEF CheckCopy
    <2> QED BY <1>3, <2>2, <2>3 DEF CheckCopy, TypeOK, mainVars, hist
  <1>4. CASE CheckApply
    <2>0. loop.tmp \in Buffer
      BY DEF TypeOK
    <2>1. loop' \in [pc : {"scan", "copy", "apply"}, tmp : Buffer, n : 0..FrameLen]
      BY <1>0, <1>4 DEF CheckApply
    <2>2. inbuf' \in Buffer
      BY <1>0, <1>4 DEF CheckApply, Buffer, TypeOK
    <2>3. /\ panel' \in Panels
          /\ pending' \in [Types -> 0..3 \cup {Nothing}] /\ flag' \in BOOLEAN
          /\ back' \in {<< >>, <<1, 0>>} \cup (Types \X (0..3))
      <3>0. /\ panel \in Panels /\ pending \in [Types -> 0..3 \cup {Nothing}] /\ flag \in BOOLEAN
            /\ back \in {<< >>, <<1, 0>>} \cup (Types \X (0..3))
        BY DEF TypeOK, Panels
      <3>1. CASE /\ panel' = device_work_mode_check(Applied(loop.tmp[3], loop.tmp[4]))
                 /\ Answer(loop.tmp[3])
        <4>1. panel' \in Panels
          BY <3>1, AppliedType, CheckedType
        <4>2. ASSUME NEW k \in Types, pending[k] # Nothing, back' = <<k, pending[k]>>,
                     pending' = [pending EXCEPT ![k] = Nothing], flag' = FALSE
              PROVE  /\ pending' \in [Types -> 0..3 \cup {Nothing}] /\ flag' \in BOOLEAN
                     /\ back' \in Types \X (0..3)
          <5>1. pending[k] \in 0..3
            BY <3>0, <4>2
          <5>2. back' \in Types \X (0..3)
            BY <4>2, <5>1
          <5>3. pending' \in [Types -> 0..3 \cup {Nothing}]
            BY <3>0, <4>2
          <5> QED BY <4>2, <5>2, <5>3
        <4>3. \/ \E k \in Types : /\ pending[k] # Nothing
                                  /\ back' = <<k, pending[k]>>
                                  /\ pending' = [pending EXCEPT ![k] = Nothing]
                                  /\ flag' = FALSE
              \/ pending' = pending /\ back' = <<1, 0>> /\ flag' = FALSE
              \/ pending' = pending /\ back' = back /\ flag' = flag
          BY <3>1, AnswerStep
        <4> QED BY <3>0, <4>1, <4>2, <4>3
      <3>2. CASE panel' = device_work_mode_check(Shown(loop.tmp)) /\ UNCHANGED <<back, pending, flag>>
        BY <2>0, <3>0, <3>2, ShownType, CheckedType
      <3>3. CASE UNCHANGED <<panel, back, pending, flag>>
        BY <3>0, <3>3
      <3> QED BY <1>4, <3>1, <3>2, <3>3 DEF CheckApply
    <2> QED BY <1>4, <2>1, <2>2, <2>3 DEF CheckApply, TypeOK, Panels, mainVars, hist
  <1> QED BY <1>1, <1>2, <1>3, <1>4 DEF cmd_uart_check

LEMMA TypeStep == TypeOK /\ [Next]_vars => TypeOK'
  <1>1. TypeOK /\ UNCHANGED vars => TypeOK'
    BY DEF TypeOK, vars, mainVars, dispVars, hist
  <1> QED BY <1>1, MainType, RequestType, ForeignType, BusType, ReceiveType, PanelType DEF Next, Requests

\* The settings and keys of both boards stay in range and the receive buffer is never
\* overrun, whatever is lost, pressed, sent and received in whatever order.
THEOREM DisplayTypeCorrect == Spec => []TypeOK
  BY TypeInit, TypeStep, PTL DEF Spec

--------------------------------------------------------------------------------
\* A key acts at most once

\* Where the presses of a key are: executed, waiting in the display, in an answer on its way.
Waiting(k) == IF pending[k] # Nothing THEN 1 ELSE 0
OnWay(k)   == IF back # << >> /\ back[1] = k THEN 1 ELSE 0

\* They are never more than the presses: a press replaces the one that waits, a report takes it
\* out of pending, an answer is read once, and its key counts only for a query.
KeyInv == \A k \in Types : done[k] + Waiting(k) + OnWay(k) <= asked[k]

LEMMA CountTypes ==
  ASSUME TypeOK, NEW k \in Types
  PROVE  done[k] \in Nat /\ asked[k] \in Nat /\ Waiting(k) \in 0..1 /\ OnWay(k) \in 0..1
  BY DEF TypeOK, Waiting, OnWay

LEMMA KeyInit == Init => KeyInv
  BY DEF Init, KeyInv, Waiting, OnWay

LEMMA KeyStep == TypeOK /\ KeyInv /\ [Next]_vars => KeyInv'
  <1> SUFFICES ASSUME TypeOK, KeyInv, [Next]_vars PROVE KeyInv'
    OBVIOUS
  <1>0. TypeOK'
    BY TypeStep
  <1>1. ASSUME UNCHANGED <<done, asked, pending, back>> PROVE KeyInv'
    BY <1>1 DEF KeyInv, Waiting, OnWay
  <1>2. ASSUME UNCHANGED <<done, asked, pending>>, back' = << >> PROVE KeyInv'
    <2> SUFFICES ASSUME NEW k \in Types PROVE done[k] + Waiting(k) + 0 <= asked[k]
      BY <1>2 DEF KeyInv, Waiting, OnWay
    <2> QED BY CountTypes DEF KeyInv
  <1>3. ASSUME NEW k \in Pressed, Press(k) PROVE KeyInv'
    <2>1. asked' = [asked EXCEPT ![k] = @ + 1] /\ UNCHANGED <<done, back>>
      BY <1>3 DEF Press
    <2>2. pending' = [pending EXCEPT ![k] = KeyValue(k)]
      BY <1>3 DEF Press
    <2> SUFFICES ASSUME NEW t \in Types PROVE (done[t] + Waiting(t) + OnWay(t) <= asked[t])'
      BY DEF KeyInv
    <2>3. done[t] + Waiting(t) + OnWay(t) <= asked[t]
      BY DEF KeyInv
    <2>4. OnWay(t)' = OnWay(t) /\ done'[t] = done[t]
      BY <2>1 DEF OnWay
    <2>5. CASE t = k
      <3>1. asked'[t] = asked[t] + 1
        BY <2>1, <2>5 DEF TypeOK
      <3>2. Waiting(t)' \in 0..1
        BY DEF Waiting
      <3> QED BY <2>3, <2>4, <3>1, <3>2, CountTypes
    <2>6. CASE t # k
      <3>1. asked'[t] = asked[t] /\ Waiting(t)' = Waiting(t)
        BY <2>1, <2>2, <2>6 DEF TypeOK, Waiting
      <3> QED BY <2>3, <2>4, <3>1
    <2> QED BY <2>5, <2>6
  <1>4. CASE Answered
    <2>1. back # << >> /\ back' = << >> /\ UNCHANGED <<asked, pending>>
      BY <1>4 DEF Answered, dispVars
    <2>2. CASE req = "query" /\ back[1] \in 2..7
      <3>1. done' = [done EXCEPT ![back[1]] = @ + 1]
        BY <1>4, <2>2 DEF Answered
      <3> SUFFICES ASSUME NEW t \in Types PROVE (done[t] + Waiting(t) + OnWay(t) <= asked[t])'
        BY DEF KeyInv
      <3>2. done[t] + Waiting(t) + OnWay(t) <= asked[t]
        BY DEF KeyInv
      <3>3. OnWay(t)' = 0 /\ Waiting(t)' = Waiting(t) /\ asked'[t] = asked[t]
        BY <2>1 DEF OnWay, Waiting
      <3>4. done'[t] = done[t] + OnWay(t)
        BY <2>1, <3>1 DEF TypeOK, OnWay
      <3> QED BY <3>2, <3>3, <3>4, CountTypes
    <2>3. CASE ~(req = "query" /\ back[1] \in 2..7)
      <3>1. UNCHANGED done
        BY <1>4, <2>3 DEF Answered
      <3> QED BY <1>2, <2>1, <3>1
    <2> QED BY <2>2, <2>3
  <1>5. CASE CheckApply
    <2>1. UNCHANGED <<done, asked>>
      BY <1>5 DEF CheckApply, hist
    <2>2. CASE Answer(loop.tmp[3])
      <3>1. ASSUME NEW k \in Types, pending[k] # Nothing, back' = <<k, pending[k]>>,
                   pending' = [pending EXCEPT ![k] = Nothing]
            PROVE  KeyInv'
        <4> SUFFICES ASSUME NEW t \in Types PROVE (done[t] + Waiting(t) + OnWay(t) <= asked[t])'
          BY DEF KeyInv
        <4>1. done[t] + Waiting(t) + OnWay(t) <= asked[t]
          BY DEF KeyInv
        <4>2. back'[1] = k /\ back' # << >>
          BY <3>1
        <4>3. CASE t = k
          <5>1. Waiting(t) = 1 /\ Waiting(t)' = 0 /\ OnWay(t)' = 1
            BY <3>1, <4>2, <4>3 DEF Waiting, OnWay, TypeOK
          <5> QED BY <2>1, <4>1, <5>1, CountTypes
        <4>4. CASE t # k
          <5>1. Waiting(t)' = Waiting(t) /\ OnWay(t)' = 0
            BY <3>1, <4>2, <4>4 DEF Waiting, OnWay, TypeOK
          <5> QED BY <2>1, <4>1, <5>1, CountTypes
        <4> QED BY <4>3, <4>4
      <3>2. ASSUME pending' = pending, back' = <<1, 0>> PROVE KeyInv'
        <4> SUFFICES ASSUME NEW t \in Types PROVE (done[t] + Waiting(t) + OnWay(t) <= asked[t])'
          BY DEF KeyInv
        <4>1. done[t] + Waiting(t) + OnWay(t) <= asked[t]
          BY DEF KeyInv
        <4>2. t # 1
          BY OrderFacts
        <4>3. Waiting(t)' = Waiting(t) /\ OnWay(t)' = 0
          BY <3>2, <4>2 DEF Waiting, OnWay
        <4> QED BY <2>1, <4>1, <4>3, CountTypes
      <3>3. ASSUME pending' = pending, back' = back PROVE KeyInv'
        BY <1>1, <2>1, <3>3
      <3> QED BY <2>2, <3>1, <3>2, <3>3, AnswerStep
    <2>3. CASE UNCHANGED <<pending, back>>
      BY <1>1, <2>1, <2>3
    <2> QED BY <1>5, <2>2, <2>3 DEF CheckApply
  <1>6. CASE Lose
    <2>1. UNCHANGED <<done, asked, pending>> /\ (back' = back \/ back' = << >>)
      BY <1>6 DEF Lose, dispVars, hist
    <2> QED BY <1>1, <1>2, <2>1
  <1>7. ASSUME NEW c, PhoneCommand(c) PROVE KeyInv'
    BY <1>1, <1>7 DEF PhoneCommand, dispVars, hist
  <1>8. ASSUME NEW b, FaultChanges(b) PROVE KeyInv'
    BY <1>1, <1>8 DEF FaultChanges, dispVars, hist
  <1>9. ASSUME NEW bad, MotorRead(bad) PROVE KeyInv'
    BY <1>1, <1>9 DEF MotorRead, dispVars, hist
  <1>10. CASE MonitorPass \/ MotorWrite
    BY <1>1, <1>10 DEF MonitorPass, MotorWrite, dispVars, hist
  <1>11. CASE Requests
    BY <1>1, <1>11, RequestStep DEF FrameSent, dispVars
  <1>12. CASE Timeout
    BY <1>1, <1>12 DEF Timeout, dispVars, hist
  <1>13. CASE serial_int1_receive
    BY <1>1, <1>13 DEF serial_int1_receive, hist
  <1>14. ASSUME NEW n, CheckBegin(n) \/ CheckCopy(n) PROVE KeyInv'
    BY <1>1, <1>14 DEF CheckBegin, CheckCopy, hist
  <1>15. CASE UNCHANGED vars
    BY <1>1, <1>15 DEF vars, dispVars, hist
  <1>16. ASSUME NEW f, ForeignExchange(f) PROVE KeyInv'
    BY <1>1, <1>16 DEF ForeignExchange, dispVars, hist
  <1> QED BY <1>3, <1>4, <1>5, <1>6, <1>7, <1>8, <1>9, <1>10, <1>11, <1>12, <1>13, <1>14, <1>15, <1>16
          DEF Next, Requests, cmd_uart_check

\* However late answers come and whichever request reads them, the main board never executes
\* a key more often than it was pressed.
THEOREM KeysActAtMostOnce == Spec => []KeysActOnce
  <1>1. TypeOK /\ KeyInv => KeysActOnce
    <2> SUFFICES ASSUME TypeOK, KeyInv, NEW k \in Types PROVE done[k] <= asked[k]
      BY DEF KeysActOnce
    <2> QED BY CountTypes DEF KeyInv
  <1> QED BY <1>1, TypeInit, TypeStep, KeyInit, KeyStep, PTL DEF Spec

--------------------------------------------------------------------------------
\* The receiver stays in step

Untroubled == budget["trouble"] = 0

\* The buffer begins with the frame sent last.
Holds(buf) == \A i \in 1..Len(last) : buf[i] = last[i]

\* The display has nothing to do and has answered nothing.
Quiet == ~flag /\ loop.pc = "scan" /\ back = << >>

\* What the interrupt has taken and what is on the way are the frame, and the display rests.
Sending ==
    /\ air # << >> /\ Quiet
    /\ Len(isr) + Len(air) = Len(last)
    /\ \A i \in 1..Len(isr) : isr[i] = last[i]
    /\ \A i \in 1..Len(air) : air[i] = last[Len(isr) + i]

\* All of it has come: it waits in the buffer, is copied as a whole, is applied, or is done.
Arrived ==
    /\ air = << >> /\ isr = << >>
    /\ \/ flag /\ loop.pc = "scan" /\ back = << >> /\ Holds(inbuf)
       \/ ~flag /\ loop.pc = "copy" /\ back = << >> /\ loop.n = FrameLen /\ Holds(loop.tmp)
       \/ ~flag /\ loop.pc = "apply" /\ back = << >> /\ Holds(loop.tmp)
       \/ ~flag /\ loop.pc = "scan"

\* Bytes of a sensor or the motor go by: the receiver hunts, or has taken one for a start and
\* the next one tells it otherwise.
Passing ==
    /\ Quiet /\ ~Misleads(air)
    /\ isr = << >> \/ (Len(isr) = 1 /\ air # << >> /\ air[1] # isr[1])

\* Between requests nothing is under way; during one to the display there is one frame, in one
\* place; during another the receiver keeps hunting.
StepInv ==
    Untroubled => IF req = "no" THEN air = << >> /\ isr = << >> /\ Quiet
                  ELSE IF req = "other" THEN Passing
                  ELSE Frame(last) /\ (Sending \/ Arrived)

\* A trouble is never forgotten.
LEMMA TroubleStays ==
  ASSUME TypeOK, NEW kind \in {"input", "trouble"}, Spend(kind), Untroubled'
  PROVE  Untroubled /\ kind # "trouble"
  BY DEF Spend, TypeOK, Untroubled

\* A receiver in step takes the next byte of the frame, or the last one and passes it on.
LEMMA ReceiveInStep ==
  ASSUME TypeOK, Frame(last), Sending, serial_int1_receive
  PROVE  Sending' \/ Arrived'
  <1> DEFINE b == Head(air)
             buf == Append(isr, b)
             m == Len(isr)
             L == Len(last)
             A == Len(air)
  <1>1. /\ air \in Seq(Byte) /\ isr \in Seq(Byte) /\ last \in Seq(Byte)
        /\ air # << >> /\ air' = Tail(air)
        /\ UNCHANGED <<loop, back, last>>
    BY DEF TypeOK, serial_int1_receive, Sending, hist
  <1>2. m \in Nat /\ A \in Nat /\ L \in Nat /\ A >= 1 /\ m + A = L
    BY <1>1 DEF Sending
  <1>3. b = last[m + 1]
    BY <1>1, <1>2 DEF Sending
  <1>4. b \in Byte
    BY <1>1
  <1>5. Len(air') = A - 1 /\ \A i \in 1..(A - 1) : air'[i] = air[i + 1]
    BY <1>1
  <1>6. buf \in Seq(Byte) /\ Len(buf) = m + 1 /\ buf[m + 1] = b /\ \A i \in 1..m : buf[i] = isr[i]
    <2> HIDE DEF b
    <2> QED BY <1>1, <1>4
  <1>7. /\ IF (isr = << >> /\ b \notin {F1, F2}) \/ (m = 1 /\ b # isr[1])
           THEN isr' = << >> /\ UNCHANGED <<inbuf, flag>>
           ELSE IF Len(buf) > 1 /\ Complete(buf)
           THEN /\ isr' = << >> /\ flag' = TRUE
                /\ inbuf' = [i \in 1..FrameLen |-> IF i <= Len(buf) THEN buf[i] ELSE inbuf[i]]
           ELSE isr' = buf /\ UNCHANGED <<inbuf, flag>>
    BY DEF serial_int1_receive
  <1>a. A = 1 => Tail(air) = << >>
    BY <1>1
  <1> HIDE DEF b, buf, m, L, A
  <1>b. Len(buf) = m + 1
    BY <1>6
  <1>c. L = Len(last) /\ A = Len(air)
    BY DEF L, A
  <1>8. m = Len(isr)
    BY DEF m
  <1>9. \A i \in 1..m : isr[i] = last[i]
    BY <1>8 DEF Sending
  <1>10. \A i \in 1..(m + 1) : buf[i] = last[i]
    BY <1>2, <1>3, <1>6, <1>9
  <1>11. ~((isr = << >> /\ b \notin {F1, F2}) \/ (m = 1 /\ b # isr[1]))
    <2>1. isr = << >> => m = 0
      BY <1>8
    <2>2. isr = << >> => b \in {F1, F2}
      BY <1>3, <2>1 DEF Frame
    <2>3. m = 1 => b = isr[1]
      BY <1>2, <1>3, <1>9 DEF Frame
    <2> QED BY <2>2, <2>3
  <1>12. Len(buf) > 1 /\ Complete(buf) <=> m + 1 = L
    <2>1. buf[1] = last[1]
      BY <1>2, <1>10
    <2>2. L >= 4 /\ L = IF last[1] = F1 THEN 4 ELSE FrameLen
      BY OrderFacts DEF Frame, L
    <2>3. Complete(buf) <=> Len(buf) >= L
      BY <2>1, <2>2 DEF Complete
    <2>4. Complete(buf) <=> m + 1 >= L
      BY <1>b, <2>3
    <2>5. Len(buf) > 1 <=> m + 1 > 1
      BY <1>b
    <2>6. m + 1 <= L /\ L >= 4
      <3>1. m + 1 <= L
        BY <1>2
      <3>2. L >= 4
        BY <2>2
      <3> QED BY <3>1, <3>2
    <2>7. m + 1 >= L <=> m + 1 = L
      BY <1>2, <2>6
    <2> QED BY <1>2, <2>4, <2>5, <2>6, <2>7
  <1>13. CASE m + 1 = L
    <2>1. /\ isr' = << >> /\ flag' = TRUE
          /\ inbuf' = [i \in 1..FrameLen |-> IF i <= Len(buf) THEN buf[i] ELSE inbuf[i]]
      BY <1>7, <1>11, <1>12, <1>13
    <2>2. air' = << >>
      <3>1. A = 1
        BY <1>2, <1>13
      <3> QED BY <1>1, <1>a, <3>1
    <2>3. L <= FrameLen
      BY OrderFacts DEF Frame, L
    <2>4. \A i \in 1..L : inbuf'[i] = last[i]
      BY <1>2, <1>b, <1>10, <1>13, <2>1, <2>3, OrderFacts
    <2>5. loop'.pc = "scan" /\ back' = << >> /\ last' = last
      BY <1>1 DEF Sending, Quiet
    <2> QED BY <2>1, <2>2, <2>4, <2>5 DEF Arrived, Holds, L
  <1>14. CASE m + 1 # L
    <2>1. isr' = buf /\ UNCHANGED <<inbuf, flag>>
      BY <1>7, <1>11, <1>12, <1>14
    <2>2. A - 1 > 0
      BY <1>2, <1>14
    <2>3. Len(isr') = m + 1 /\ Len(isr') + Len(air') = Len(last)
      <3>1. Len(isr') = m + 1
        BY <1>b, <2>1
      <3>2. (m + 1) + (A - 1) = L
        BY <1>2
      <3> QED BY <1>5, <1>c, <3>1, <3>2
    <2>4. air' # << >>
      BY <1>5, <2>2
    <2>5. Quiet' /\ last' = last
      BY <1>1, <2>1 DEF Sending, Quiet
    <2>6. \A i \in 1..Len(isr') : isr'[i] = last[i]
      BY <1>10, <2>1, <2>3
    <2>7. \A i \in 1..Len(air') : air'[i] = last[Len(isr') + i]
      <3>1. \A i \in 1..A : air[i] = last[m + i]
        BY <1>8, <1>c DEF Sending
      <3> SUFFICES ASSUME NEW i \in 1..Len(air') PROVE air'[i] = last[Len(isr') + i]
        OBVIOUS
      <3>2. i \in 1..(A - 1) /\ i + 1 \in 1..A
        BY <1>2, <1>5
      <3>3. air'[i] = air[i + 1]
        BY <1>5, <3>2
      <3>4. air[i + 1] = last[m + (i + 1)]
        BY <3>1, <3>2
      <3>5. m + (i + 1) = Len(isr') + i
        BY <1>2, <2>3, <3>2
      <3> QED BY <3>3, <3>4, <3>5
    <2> QED BY <2>3, <2>4, <2>5, <2>6, <2>7 DEF Sending
  <1> QED BY <1>13, <1>14

\* A foreign byte does not begin a frame.
LEMMA ReceivePassing ==
  ASSUME TypeOK, Passing, serial_int1_receive PROVE Passing'
  <1> DEFINE b == Head(air)
             buf == Append(isr, b)
  <1>1. /\ air \in Seq(Byte) /\ isr \in Seq(Byte) /\ air # << >> /\ air' = Tail(air)
        /\ UNCHANGED <<loop, back>>
    BY DEF TypeOK, serial_int1_receive
  <1>2. Len(air) \in Nat /\ Len(air) >= 1 /\ b = air[1]
    BY <1>1
  <1>3. /\ Len(air') = Len(air) - 1 /\ DOMAIN air' = 1..(Len(air) - 1)
        /\ \A i \in 1..(Len(air) - 1) : air'[i] = air[i + 1]
    BY <1>1
  <1>4. DOMAIN air = 1..Len(air)
    BY <1>1
  <1>5. ~Misleads(air')
    <2> SUFFICES ASSUME NEW i \in 1..(Len(air) - 1), air'[i] \in {F1, F2},
                        i < Len(air') => air'[i + 1] = air'[i]
                 PROVE  FALSE
      BY <1>3 DEF Misleads
    <2>1. i + 1 \in 1..Len(air) /\ air[i + 1] = air'[i]
      BY <1>2, <1>3
    <2>2. i + 1 < Len(air) => air[(i + 1) + 1] = air[i + 1]
      BY <1>2, <1>3, <2>1
    <2> QED BY <1>4, <2>1, <2>2 DEF Passing, Misleads
  <1>6. /\ IF (isr = << >> /\ b \notin {F1, F2}) \/ (Len(isr) = 1 /\ b # isr[1])
           THEN isr' = << >> /\ UNCHANGED <<inbuf, flag>>
           ELSE IF Len(buf) > 1 /\ Complete(buf)
           THEN /\ isr' = << >> /\ flag' = TRUE
                /\ inbuf' = [i \in 1..FrameLen |-> IF i <= Len(buf) THEN buf[i] ELSE inbuf[i]]
           ELSE isr' = buf /\ UNCHANGED <<inbuf, flag>>
    BY DEF serial_int1_receive
  <1>7. CASE (isr = << >> /\ b \notin {F1, F2}) \/ (Len(isr) = 1 /\ b # isr[1])
    BY <1>1, <1>5, <1>6, <1>7 DEF Passing, Quiet
  <1>8. CASE isr = << >> /\ b \in {F1, F2}
    <2>1. buf = <<b>>
      BY <1>8
    <2>2. Len(buf) = 1 /\ buf[1] = b
      BY <2>1
    <2>3. isr' = buf /\ UNCHANGED <<inbuf, flag>>
      <3> HIDE DEF b, buf
      <3>1. ~(Len(buf) > 1) /\ Len(isr) = 0
        BY <1>8, <2>2
      <3> QED BY <1>6, <1>8, <3>1
    <2>4. 1 < Len(air) /\ air[1 + 1] # air[1]
      BY <1>2, <1>4, <1>8 DEF Passing, Misleads
    <2>5. air' # << >> /\ air'[1] = air[1 + 1]
      BY <1>2, <1>3, <2>4
    <2>6. Quiet'
      BY <1>1, <2>3 DEF Passing, Quiet
    <2> HIDE DEF b, buf
    <2>7. Len(isr') = 1 /\ air'[1] # isr'[1]
      BY <1>2, <2>2, <2>3, <2>4, <2>5
    <2> QED BY <1>5, <2>5, <2>6, <2>7 DEF Passing
  <1>9. isr = << >> \/ (Len(isr) = 1 /\ b # isr[1])
    BY <1>2 DEF Passing
  <1> QED BY <1>7, <1>8, <1>9

LEMMA StepInit == Init => StepInv
  BY DEF Init, StepInv, Quiet

\* A request that begins puts a whole frame on the line; one that ends leaves nothing behind.
LEMMA StepStep == TypeOK /\ StepInv /\ [Next]_vars => StepInv'
  <1> SUFFICES ASSUME TypeOK, StepInv, [Next]_vars, Untroubled'
               PROVE  (IF req = "no" THEN air = << >> /\ isr = << >> /\ Quiet
                       ELSE IF req = "other" THEN Passing
                       ELSE Frame(last) /\ (Sending \/ Arrived))'
    BY DEF StepInv
  <1> DEFINE Idle == req = "no" /\ air = << >> /\ isr = << >> /\ Quiet
             Away == req = "other" /\ Passing
             Busy == req \notin {"no", "other"} /\ Frame(last) /\ (Sending \/ Arrived)
  <1>0. Untroubled => Idle \/ Away \/ Busy
    BY DEF StepInv
  <1>1. ASSUME Untroubled, UNCHANGED <<req, air, back, isr, inbuf, flag, loop, last>>
        PROVE  Idle' \/ Away' \/ Busy'
    BY <1>0, <1>1 DEF Quiet, Passing, Misleads, Sending, Arrived, Holds, Frame
  <1>2. ASSUME NEW c, PhoneCommand(c) PROVE Idle' \/ Away' \/ Busy'
    BY <1>1, <1>2, TroubleStays DEF PhoneCommand, dispVars, hist
  <1>3. ASSUME NEW b, FaultChanges(b) PROVE Idle' \/ Away' \/ Busy'
    BY <1>1, <1>3, TroubleStays DEF FaultChanges, dispVars, hist
  <1>4. ASSUME NEW bad, MotorRead(bad) PROVE Idle' \/ Away' \/ Busy'
    BY <1>1, <1>4 DEF MotorRead, dispVars, hist, Untroubled
  <1>5. ASSUME NEW k, Press(k) PROVE Idle' \/ Away' \/ Busy'
    BY <1>1, <1>5, TroubleStays DEF Press
  <1>6. CASE MonitorPass \/ MotorWrite
    <2>1. Untroubled
      BY <1>6, TroubleStays DEF MonitorPass, MotorWrite, Untroubled
    <2> QED BY <1>1, <1>6, <2>1 DEF MonitorPass, MotorWrite, dispVars, hist
  <1>7. CASE Requests
    <2>1. FrameSent
      BY <1>7, RequestStep
    <2>2. /\ req = "no" /\ req' \notin {"no", "other"} /\ Frame(air') /\ last' = air'
          /\ UNCHANGED <<back, isr, inbuf, flag, loop>> /\ Untroubled
      BY <2>1 DEF FrameSent, dispVars, Untroubled
    <2>3. isr' = << >> /\ Quiet'
      BY <1>0, <2>2 DEF Quiet
    <2>4. air' \in Seq(Byte) /\ Len(air') >= 4
      BY <2>2, OrderFacts DEF Frame
    <2>5. Sending'
      BY <2>2, <2>3, <2>4 DEF Sending
    <2> QED BY <2>2, <2>5
  <1>8. CASE Timeout
    <2>1. InTime /\ Untroubled
      BY <1>8, TroubleStays DEF Timeout, Untroubled
    <2>2. req # "no" /\ air = << >> /\ (Away \/ Busy)
      BY <1>0, <1>8, <2>1 DEF Timeout
    <2>3. isr = << >> /\ Quiet
      BY <2>1, <2>2 DEF Passing, Sending, Arrived, InTime, Quiet
    <2>4. req' = "no" /\ UNCHANGED <<air, back, isr, flag, loop>>
      BY <1>8 DEF Timeout, Finish, dispVars
    <2> QED BY <2>2, <2>3, <2>4 DEF Quiet
  <1>9. CASE Answered
    <2>1. Untroubled /\ back # << >> /\ back' = << >> /\ UNCHANGED <<air, isr, flag, loop>>
      BY <1>9 DEF Answered, Untroubled, dispVars
    <2>2. Busy
      BY <1>0, <2>1 DEF Passing, Quiet
    <2>3. req' = "no"
      BY <1>9, <2>2 DEF Answered, Finish
    <2>4. air = << >> /\ isr = << >> /\ ~flag /\ loop.pc = "scan"
      BY <2>1, <2>2 DEF Sending, Arrived, Quiet
    <2> QED BY <2>1, <2>3, <2>4 DEF Quiet
  <1>10. CASE Lose
    BY <1>10, TroubleStays DEF Lose
  <1>11. CASE serial_int1_receive
    <2>1. Untroubled /\ air # << >> /\ UNCHANGED <<req, last>>
      BY <1>11 DEF serial_int1_receive, Untroubled, hist
    <2>2. CASE Away
      BY <1>11, <2>1, <2>2, ReceivePassing
    <2>3. CASE Busy
      <3>1. Sending
        BY <2>1, <2>3 DEF Arrived
      <3>2. Sending' \/ Arrived'
        BY <1>11, <2>3, <3>1, ReceiveInStep
      <3> QED BY <2>1, <2>3, <3>2 DEF Frame
    <2> QED BY <1>0, <2>1, <2>2, <2>3
  <1>12. ASSUME NEW n \in 0..FrameLen, Interrupted(n), CheckBegin(n) PROVE Idle' \/ Away' \/ Busy'
    <2>1. Untroubled /\ flag /\ loop.pc = "scan" /\ UNCHANGED <<req, air, back, isr, inbuf, last>>
      BY <1>12 DEF CheckBegin, Untroubled, hist
    <2>2. Busy /\ air = << >> /\ isr = << >> /\ back = << >> /\ Holds(inbuf)
      BY <1>0, <2>1 DEF Passing, Sending, Arrived, Quiet
    <2>3. n = FrameLen
      BY <1>12, <2>2 DEF Interrupted
    <2>4. /\ flag' = FALSE /\ loop'.pc = "copy" /\ loop'.n = FrameLen
          /\ loop'.tmp = [i \in 1..FrameLen |-> IF i <= n THEN inbuf[i] ELSE 0]
      BY <1>12, <2>3 DEF CheckBegin
    <2>5. Len(last) \in Nat /\ Len(last) <= FrameLen
      BY <2>2, OrderFacts DEF Frame
    <2>6. \A i \in 1..Len(last) : loop'.tmp[i] = last[i]
      BY <2>2, <2>3, <2>4, <2>5, OrderFacts DEF Holds
    <2> QED BY <2>1, <2>2, <2>4, <2>6 DEF Arrived, Holds, Frame
  <1>13. ASSUME NEW n \in 0..FrameLen, CheckCopy(n) PROVE Idle' \/ Away' \/ Busy'
    <2>1. Untroubled /\ loop.pc = "copy" /\ UNCHANGED <<req, air, back, isr, flag, last>>
      BY <1>13 DEF CheckCopy, Untroubled, hist
    <2>2. /\ Busy /\ air = << >> /\ isr = << >> /\ back = << >> /\ ~flag
          /\ loop.n = FrameLen /\ Holds(loop.tmp)
      BY <1>0, <2>1 DEF Passing, Sending, Arrived, Quiet
    <2>3. /\ loop'.pc = "apply"
          /\ loop'.tmp = [i \in 1..FrameLen |-> IF i <= loop.n THEN loop.tmp[i] ELSE inbuf[i]]
      BY <1>13 DEF CheckCopy
    <2>4. Len(last) \in Nat /\ Len(last) <= FrameLen
      BY <2>2, OrderFacts DEF Frame
    <2>5. \A i \in 1..Len(last) : loop'.tmp[i] = last[i]
      BY <2>2, <2>3, <2>4, OrderFacts DEF Holds
    <2> QED BY <2>1, <2>2, <2>3, <2>5 DEF Arrived, Holds, Frame
  <1>14. CASE CheckApply
    <2>1. /\ Untroubled /\ loop.pc = "apply" /\ loop'.pc = "scan"
          /\ UNCHANGED <<req, air, isr, last>>
      BY <1>14 DEF CheckApply, Untroubled, hist
    <2>2. Busy /\ air = << >> /\ isr = << >> /\ ~flag
      BY <1>0, <2>1 DEF Passing, Sending, Arrived, Quiet
    <2>3. ~flag'
      <3>1. CASE Answer(loop.tmp[3])
        BY <2>2, <3>1, AnswerStep
      <3>2. CASE UNCHANGED flag
        BY <2>2, <3>2
      <3> QED BY <1>14, <3>1, <3>2 DEF CheckApply
    <2> QED BY <2>1, <2>2, <2>3 DEF Arrived, Frame
  <1>15. CASE UNCHANGED vars
    BY <1>1, <1>15 DEF vars, dispVars, hist, Untroubled
  <1>17. ASSUME NEW f, ForeignExchange(f) PROVE Idle' \/ Away' \/ Busy'
    <2>1. Untroubled /\ ~Misleads(f)
      BY <1>17, TroubleStays DEF ForeignExchange, Untroubled
    <2>2. Idle /\ air' = f /\ req' = "other" /\ UNCHANGED <<isr, flag, loop, back>>
      BY <1>0, <1>17, <2>1 DEF ForeignExchange, dispVars
    <2>3. ~Misleads(air')
      BY <2>1, <2>2
    <2> QED BY <2>2, <2>3 DEF Passing, Quiet
  <1>16. Idle' \/ Away' \/ Busy'
    BY <1>2, <1>3, <1>4, <1>5, <1>6, <1>7, <1>8, <1>9, <1>10, <1>11, <1>12, <1>13, <1>14, <1>15,
        <1>17
       DEF Next, Requests, cmd_uart_check
  <1> QED BY <1>16

\* As long as no byte is lost, the display keeps up with the requests and no exchange with a
\* sensor or the motor ends in a start code or has one twice in a row, every frame that the
\* display applies is, byte for byte, the one that was sent to it last: frames of both lengths,
\* sent by four threads, and the other traffic of the line never get the receiver out of step.
THEOREM FramesAreWhole == Spec => []FrameIsWhole
  <1>1. TypeOK /\ StepInv => FrameIsWhole
    <2> SUFFICES ASSUME TypeOK, StepInv, loop.pc = "apply", Untroubled
                 PROVE  SubSeq(loop.tmp, 1, Len(last)) = last
      BY DEF FrameIsWhole, Untroubled
    <2>1. Frame(last) /\ Holds(loop.tmp)
      BY DEF StepInv, Passing, Sending, Arrived, Quiet
    <2>2. last \in Seq(Byte) /\ Len(last) \in Nat /\ Len(last) <= FrameLen
      BY <2>1, OrderFacts DEF Frame
    <2>3. loop.tmp \in Seq(Byte) /\ Len(loop.tmp) = FrameLen
      <3>1. loop.tmp \in [1..FrameLen -> Byte]
        BY DEF TypeOK, Buffer
      <3> QED BY <3>1, FunctionSeq, OrderFacts
    <2>4. ASSUME NEW s \in Seq(Byte), NEW t \in Seq(Byte), Len(t) <= Len(s),
                 \A i \in 1..Len(t) : s[i] = t[i]
          PROVE  SubSeq(s, 1, Len(t)) = t
      <3>1. SubSeq(s, 1, Len(t)) \in Seq(Byte) /\ Len(SubSeq(s, 1, Len(t))) = Len(t)
        BY <2>4
      <3>2. \A i \in 1..Len(t) : SubSeq(s, 1, Len(t))[i] = t[i]
        BY <2>4
      <3> QED BY <3>1, <3>2
    <2> QED BY <2>1, <2>2, <2>3, <2>4 DEF Holds
  <1> QED BY <1>1, TypeInit, TypeStep, StepInit, StepStep, PTL DEF Spec

================================================================================
