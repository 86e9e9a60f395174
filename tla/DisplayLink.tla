------------------------------ MODULE DisplayLink ------------------------------
(* The link between the main board (application.c) and the display board       *)
(* (main.c of ht1621_dispboard_code), with the fault monitor of the main board. *)
(*                                                                              *)
(* Threads of the main board send frames to the display, one at a time under    *)
(* modbus_mutex: a query for keys (F1), the state of the device (F2), and, after*)
(* a command of the phone, a function frame (F1).  The display assembles bytes  *)
(* in its receive interrupt, without check sum or time limit, and its main loop *)
(* copies a complete frame, applies it to the panel and answers queries.  A     *)
(* frame here has the bytes the display looks at.  The line is shared: the      *)
(* display also hears what the sensors and the motor are asked and answer.      *)
EXTENDS Integers, Sequences

CONSTANTS
    Order,       \* the settings in an F2 frame, by command type, in their order
    Pressed,     \* the keys that are pressed, by command type
    Phone,       \* the <<type, data>> commands of the phone
    Faults,      \* the fault inputs that change, by bit
    MotorStates, \* what the motor answers: whether it has a fault
    Foreign,     \* exchanges with sensors and motor, as the bytes the display hears
    Cuts,        \* the places of a copy in which a receive interrupt may fall
    Garbage,     \* what an uninitialised byte may hold
    MaxEvents    \* bound on inputs (key presses, commands and faults) and troubles (lost bytes
                 \* and answers, foreign bytes taken for a start, passes of the display that
                 \* outlast the time limit of a request, passes of the fault monitor within
                 \* fault_set_bit), together

\* Command types: power, mode, electrostatic unit, photohydrogen unit, speed; the panel
\* also has the faults.
Types   == {Order[i] : i \in DOMAIN Order}
Power   == 2
Mode    == 3
Esd     == 4
Pht     == 5
Speed   == 7
Fault   == 8
Nothing == 255
F1 == 241
F2 == 242

\* Fault bits of the main board.
MotorBit == 1
PhtBit   == 2

ASSUME DisplayAssumption ==
    /\ Order \in Seq({2, 3, 4, 5, 7}) /\ {Power, Mode} \subseteq Types
    /\ Pressed \subseteq Types /\ Phone \subseteq Types \X (0..3)
    /\ Faults \subseteq 0..4 /\ Garbage \subseteq 0..255 /\ Cuts \subseteq Nat
    /\ Foreign \subseteq Seq(0..255) /\ MotorStates \subseteq BOOLEAN
    /\ MaxEvents \in Nat

VARIABLES
    main,      \* device_work_data of the main board, by command type
    inFault,   \* the inputs that signal a fault
    fault,     \* fault_state, as a set of bits
    work,      \* the fault monitor: its place and fault_state_pre
    dcm,       \* the motor thread: in fault_set_bit or not, and what it read there
    phone,     \* the data of the command whose function frame is to be sent
    req,       \* the request that holds the bus
    air,       \* bytes on the way to the display
    back,      \* an answer on the way to the main board
    isr,       \* rxd1_buffer up to Isr_com
    inbuf,     \* in_com_buff
    flag,      \* rxd1_buff_cFlag
    loop,      \* where the main loop of the display is, and rx_buff_tmp
    panel,     \* device_work_data of the display
    pending,   \* power_key_state, mode_key_state and so on
    budget,    \* inputs and troubles so far
    last,      \* history: the frame sent last
    asked,     \* history: presses of each key
    done       \* history: commands executed for each key

mainVars == <<main, inFault, fault, work, dcm, phone>>
dispVars == <<isr, inbuf, flag, loop, panel, pending>>
hist     == <<last, asked, done>>
vars     == <<mainVars, req, air, back, dispVars, budget, hist>>

Spend(kind) ==
    /\ budget["input"] + budget["trouble"] < MaxEvents
    /\ budget' = [budget EXCEPT ![kind] = @ + 1]

--------------------------------------------------------------------------------
\* Frames

Bit(b, v) == IF b \in fault THEN v ELSE 0
FaultByte == Bit(0, 1) + Bit(1, 2) + Bit(2, 4) + Bit(3, 8) + Bit(4, 16)
Query     == <<F1, F1, 1, 0>>
State     == <<F2, F2>> \o [i \in DOMAIN Order |-> main[Order[i]]] \o <<FaultByte>>
FrameLen  == Len(Order) + 3

\* [mutant] The receiver waits for one byte more.
Complete_OffByOne(buf) == Len(buf) > (IF buf[1] = F1 THEN 4 ELSE FrameLen)

\* [mutant] rec_data_num is that of an F1 frame for both.
Complete_Short(buf) == Len(buf) >= 4

\* rec_data_num bytes have come.
Complete(buf) == Len(buf) >= (IF buf[1] = F1 THEN 4 ELSE FrameLen)

Blank == [i \in 1..FrameLen |-> 0]

--------------------------------------------------------------------------------
\* The main board: settings

\* Only power and mode are set while the device is off or in automatic mode.
Refused(type) == type \notin {Power, Mode} /\ (main[Mode] = 1 \/ main[Power] = 0)

\* What a command leaves in the settings.  (DeviceControl has the rest: the outputs, and that
\* the settings loaded at power on are those in use.)
Settled(type, data) ==
    IF Refused(type) THEN main
    ELSE IF type \in {Power, Esd, Pht} THEN [main EXCEPT ![type] = IF data # 0 THEN 1 ELSE 0]
    ELSE IF (type = Mode /\ data \in 1..2) \/ (type = Speed /\ data \in 0..3)
    THEN [main EXCEPT ![type] = data]
    ELSE main

\* set_device_work_mode; device_sys_para_get, which a power-on command calls, also clears the
\* faults.
set_device_work_mode(type, data) ==
    /\ main' = Settled(type, data)
    /\ fault' = IF type = Power /\ data # 0 THEN {} ELSE fault

\* A command of the phone is executed; its function frame is to follow.
PhoneCommand(c) ==
    /\ phone = Nothing /\ Spend("input")
    /\ set_device_work_mode(c[1], c[2])
    /\ phone' = IF Refused(c[1]) THEN Nothing ELSE c[2]
    /\ UNCHANGED <<inFault, work, dcm, req, air, back, dispVars, hist>>

--------------------------------------------------------------------------------
\* The main board: fault monitor and motor thread

FaultChanges(b) ==
    /\ Spend("input")
    /\ inFault' = IF b \in inFault THEN inFault \ {b} ELSE inFault \cup {b}
    /\ UNCHANGED <<main, fault, work, dcm, phone, req, air, back, dispVars, hist>>

\* [mutant] fault_set_bit only sets.
Monitored_OnlySets == fault \cup inFault

\* The fault bits after the calls of fault_set_bit in one pass; the bit of the photohydrogen
\* unit is only looked at while that unit is on.
Monitored ==
    LET seen == IF Pht \notin Types \/ main[Pht] # 0 THEN 0..4 ELSE (0..4) \ {PhtBit}
    IN  (fault \ seen) \cup (inFault \cap seen)

\* rt_check_ex_device_thread_entry, up to the state frame it sends when the faults changed.
MonitorPass ==
    /\ work.pc = "sleep"
    /\ IF dcm.pc = "set" THEN Spend("trouble") ELSE UNCHANGED budget
    /\ IF main[Power] # 1
       THEN fault' = {} /\ UNCHANGED work
       ELSE /\ fault' = Monitored
            /\ work' = IF fault' = work.pre THEN work
                       ELSE IF fault' = {} THEN [work EXCEPT !.pre = {}]
                       ELSE [work EXCEPT !.pc = "send"]
    /\ UNCHANGED <<main, inFault, dcm, phone, req, air, back, dispVars, hist>>

\* The motor has answered, as it does every half second; the monitor writes the same bit from
\* a pin.  The thread has the lowest priority, and fault_set_bit reads and writes fault_state
\* in two steps.
MotorRead(bad) ==
    /\ dcm.pc = "no"
    /\ dcm' = [pc |-> "set", new |-> IF bad THEN fault \cup {MotorBit} ELSE fault \ {MotorBit}]
    /\ UNCHANGED <<main, inFault, fault, work, phone, req, air, back, dispVars, budget, hist>>

MotorWrite ==
    /\ dcm.pc = "set"
    /\ fault' = dcm.new
    /\ dcm' = [pc |-> "no", new |-> {}]
    /\ UNCHANGED <<main, inFault, work, phone, req, air, back, dispVars, budget, hist>>

--------------------------------------------------------------------------------
\* The main board: requests, one at a time

Request(kind, frame) ==
    /\ req = "no" /\ air = << >>
    /\ req' = kind
    /\ air' = frame /\ last' = frame
    /\ UNCHANGED <<main, inFault, fault, work, dcm, back, dispVars, budget, asked, done>>

get_display_board_data == Request("query", Query) /\ UNCHANGED phone
set_display_board_data == Request("state", State) /\ UNCHANGED phone

\* The send of the fault monitor.
MonitorSend == work.pc = "send" /\ Request("fault", State) /\ UNCHANGED phone

\* set_dispboard_function_mode stores type, 1 and data in the same byte: the frame has the
\* data in the place of the type, and in the place of the data a byte that was never set.
set_dispboard_function_mode ==
    /\ phone # Nothing
    /\ \E g \in Garbage : Request("function", <<F1, F1, phone, g>>)
    /\ phone' = Nothing

\* The display's receiver takes a byte of these for the start of a frame: the last one, or one
\* that comes twice.
Misleads(f) == \E i \in DOMAIN f : f[i] \in {F1, F2} /\ (i < Len(f) => f[i + 1] = f[i])

\* A request to a sensor or the motor, and its answer.
ForeignExchange(f) ==
    /\ req = "no" /\ air = << >>
    /\ IF Misleads(f) THEN Spend("trouble") ELSE UNCHANGED budget
    /\ req' = "other" /\ air' = f
    /\ UNCHANGED <<mainVars, back, dispVars, hist>>

\* The request is over; the fault monitor notes the faults of this moment.
Finish ==
    /\ req' = "no"
    /\ work' = IF req = "fault" THEN [pc |-> "sleep", pre |-> fault] ELSE work

\* The display has finished with the frame within the time limit, or is late.
InTime == ~flag /\ loop.pc = "scan" /\ back = << >>

Timeout ==
    /\ req # "no" /\ air = << >>
    /\ IF InTime THEN UNCHANGED budget ELSE Spend("trouble")
    /\ Finish
    /\ UNCHANGED <<main, inFault, fault, dcm, phone, air, back, dispVars, hist>>

\* An answer is read by the request that is under way; only a query looks at it.
Answered ==
    /\ back # << >>
    /\ back' = << >>
    /\ IF req = "query" /\ back[1] \in 2..7
       THEN /\ set_device_work_mode(back[1], back[2])
            /\ done' = [done EXCEPT ![back[1]] = @ + 1]
       ELSE UNCHANGED <<main, fault, done>>
    /\ IF req = "no" THEN UNCHANGED <<req, work>> ELSE Finish
    /\ UNCHANGED <<inFault, dcm, phone, air, dispVars, budget, last, asked>>

\* A lost byte, or a lost byte of an answer, which the check of its end code rejects.
Lose ==
    /\ Spend("trouble")
    /\ \/ air # << >> /\ air' = Tail(air) /\ UNCHANGED back
       \/ back # << >> /\ back' = << >> /\ UNCHANGED air
    /\ UNCHANGED <<mainVars, req, dispVars, hist>>

--------------------------------------------------------------------------------
\* The display board

\* serial_int1_receive: hunt for two equal start codes, then fill the frame.
serial_int1_receive ==
    LET b   == Head(air)
        buf == Append(isr, b)
    IN  /\ air # << >>
        /\ air' = Tail(air)
        /\ IF (isr = << >> /\ b \notin {F1, F2}) \/ (Len(isr) = 1 /\ b # isr[1])
           THEN isr' = << >> /\ UNCHANGED <<inbuf, flag>>
           ELSE IF Len(buf) > 1 /\ Complete(buf)
           THEN /\ isr' = << >> /\ flag' = TRUE
                /\ inbuf' = [i \in 1..FrameLen |-> IF i <= Len(buf) THEN buf[i] ELSE inbuf[i]]
           ELSE isr' = buf /\ UNCHANGED <<inbuf, flag>>
        /\ UNCHANGED <<mainVars, req, back, loop, panel, pending, budget, hist>>

\* What a key asks for, from what the panel shows.
KeyValue(k) ==
    CASE k = Power -> IF panel[Power] = 0 THEN 1 ELSE 0
      [] k = Mode  -> IF panel[Mode] \in 1..2 THEN 3 - panel[Mode] ELSE pending[Mode]
      [] k = Speed -> IF panel[Speed] \in 0..3 THEN (panel[Speed] % 3) + 1 ELSE 0
      [] OTHER     -> IF panel[Mode] = 2 THEN (IF panel[k] = 0 THEN 1 ELSE 0) ELSE pending[k]

\* Key_Scan (PanelKeys tells how the scanners come to a press).
Press(k) ==
    /\ loop.pc = "scan" /\ (k = Power \/ panel[Power] = 1) /\ Spend("input")
    /\ pending' = [pending EXCEPT ![k] = KeyValue(k)]
    /\ asked' = [asked EXCEPT ![k] = @ + 1]
    /\ UNCHANGED <<mainVars, req, air, back, isr, inbuf, flag, loop, panel, last, done>>

\* cmd_uart_check: the first n bytes are copied ...
CheckBegin(n) ==
    /\ loop.pc = "scan" /\ flag
    /\ flag' = FALSE
    /\ loop' = [pc |-> "copy", tmp |-> [i \in 1..FrameLen |-> IF i <= n THEN inbuf[i] ELSE 0],
                n |-> n]
    /\ UNCHANGED <<mainVars, req, air, back, isr, inbuf, panel, pending, budget, hist>>

\* ... then the others, while the interrupt may have replaced the frame, and n bytes are
\* set to zero again ...
CheckCopy(n) ==
    /\ loop.pc = "copy"
    /\ loop' = [pc |-> "apply", n |-> n,
                tmp |-> [i \in 1..FrameLen |-> IF i <= loop.n THEN loop.tmp[i] ELSE inbuf[i]]]
    /\ inbuf' = [i \in 1..FrameLen |-> IF i <= n THEN 0 ELSE inbuf[i]]
    /\ UNCHANGED <<mainVars, req, air, back, isr, flag, panel, pending, budget, hist>>

\* device_work_mode_check: switching off clears the settings, and those with a known value
\* are then set again.
device_work_mode_check(p) ==
    [t \in DOMAIN p |->
        IF p[Power] = 0 /\ t \in {Esd, Pht, Speed} /\ p[t] \notin (IF t = Speed THEN 0..3 ELSE 0..1)
        THEN 0 ELSE p[t]]

\* The panel after an F1 frame.
Applied(type, data) ==
    IF type \in {Power, Esd, Pht} THEN [panel EXCEPT ![type] = IF data # 0 THEN 1 ELSE 0]
    ELSE IF (type = Mode /\ data \in 1..2) \/ (type = Speed /\ data \in 0..3)
    THEN [panel EXCEPT ![type] = data]
    ELSE panel

\* [mutant] The settings in an F2 frame are not looked at.
Shown_FaultsOnly(t) == [panel EXCEPT ![Fault] = t[FrameLen]]

\* The panel after an F2 frame: whatever the bytes are.
Shown(t) ==
    [k \in Types \cup {Fault} |->
        IF k = Fault THEN t[FrameLen] ELSE t[2 + CHOOSE i \in DOMAIN Order : Order[i] = k]]

\* A key that is waiting to be reported (a speed of 0 never is).
Reportable(k) == k \in Types /\ pending[k] # Nothing /\ (k = Speed => pending[k] # 0)
Priority == <<Power, Mode, Pht, Speed, Esd>>

\* [mutant] An unknown type ends the handling of the frame.
Reports_KnownType(type) == type \in 2..7 /\ \E k \in Types : Reportable(k)

\* The frame is answered with a key.
Reports(type) == \E k \in Types : Reportable(k)

\* [mutant] The key state is not reset when it is sent.
Sent_Kept(k) == pending

Sent(k) == [pending EXCEPT ![k] = Nothing]

\* The answer to an F1 frame: the first waiting key, else, once in 700 ticks, an empty one.
\* txd1_buffer_send also clears the flag of a frame that has come meanwhile.
Answer(type) ==
    IF Reports(type)
    THEN LET i == CHOOSE i \in DOMAIN Priority :
                    Reportable(Priority[i]) /\ \A j \in 1..(i - 1) : ~Reportable(Priority[j])
         IN  /\ back' = <<Priority[i], pending[Priority[i]]>>
             /\ pending' = Sent(Priority[i])
             /\ flag' = FALSE
    ELSE /\ UNCHANGED pending
         /\ (back' = <<1, 0>> /\ flag' = FALSE) \/ UNCHANGED <<back, flag>>

\* ... and the frame is applied; the rest of the buffer is set to zero before that.
CheckApply ==
    LET t == loop.tmp
    IN  /\ loop.pc = "apply"
        /\ loop' = [pc |-> "scan", tmp |-> Blank, n |-> 0]
        /\ inbuf' = [i \in 1..FrameLen |-> IF i > loop.n THEN 0 ELSE inbuf[i]]
        /\ \/ /\ t[1] = F1 /\ t[2] = F1
              /\ panel' = device_work_mode_check(Applied(t[3], t[4])) /\ Answer(t[3])
           \/ /\ t[1] = F2 /\ t[2] = F2
              /\ panel' = device_work_mode_check(Shown(t)) /\ UNCHANGED <<back, pending, flag>>
           \/ /\ <<t[1], t[2]>> \notin {<<F1, F1>>, <<F2, F2>>}
              /\ UNCHANGED <<panel, back, pending, flag>>
        /\ UNCHANGED <<mainVars, req, air, isr, budget, hist>>

\* The loops that copy and clear the buffer are much shorter than a byte on the line: an
\* interrupt that completes a frame falls into them only when the next frame is on its way.
Interrupted(n) == n \in (IF air = << >> THEN {FrameLen} ELSE Cuts)

cmd_uart_check ==
    \/ CheckApply
    \/ \E n \in 0..FrameLen : Interrupted(n) /\ (CheckBegin(n) \/ CheckCopy(n))

--------------------------------------------------------------------------------
Init ==
    /\ main = [t \in Types |-> IF t = Mode THEN 2 ELSE IF t = Speed THEN 0 ELSE 1]
    /\ inFault = {} /\ fault = {} /\ work = [pc |-> "sleep", pre |-> {Nothing}]
    /\ dcm = [pc |-> "no", new |-> {}] /\ phone = Nothing
    /\ req = "no" /\ air = << >> /\ back = << >>
    /\ isr = << >> /\ inbuf = Blank /\ flag = FALSE
    /\ loop = [pc |-> "scan", tmp |-> Blank, n |-> 0]
    /\ panel = [t \in Types \cup {Fault} |-> IF t = Power THEN 1 ELSE 0]
    /\ pending = [t \in Types |-> Nothing]
    /\ budget = [b \in {"input", "trouble"} |-> 0]
    /\ last = << >> /\ asked = [t \in Types |-> 0] /\ done = [t \in Types |-> 0]

Next ==
    \/ \E c \in Phone : PhoneCommand(c)
    \/ \E b \in Faults : FaultChanges(b)
    \/ \E bad \in MotorStates : MotorRead(bad)
    \/ \E k \in Pressed : Press(k)
    \/ MonitorPass \/ MotorWrite
    \/ get_display_board_data \/ set_display_board_data
    \/ MonitorSend \/ set_dispboard_function_mode
    \/ \E f \in Foreign : ForeignExchange(f)
    \/ Timeout \/ Answered \/ Lose
    \/ serial_int1_receive \/ cmd_uart_check

Spec == Init /\ [][Next]_vars

\* The threads of the main board ask again and again, and those that wait for modbus_mutex
\* get it in turn; bytes arrive, waits have a time limit, and the display loops for ever.
FairSpec ==
    /\ Spec
    /\ SF_vars(get_display_board_data) /\ SF_vars(set_display_board_data)
    /\ SF_vars(MonitorSend) /\ SF_vars(set_dispboard_function_mode)
    /\ WF_vars(Timeout) /\ WF_vars(Answered)
    /\ SF_vars(MonitorPass) /\ WF_vars(MotorWrite)
    /\ WF_vars(serial_int1_receive) /\ WF_vars(cmd_uart_check)

--------------------------------------------------------------------------------
\* Properties

Byte   == 0..255
Buffer == [1..FrameLen -> Byte]

\* Type invariant; in particular the bytes that the receive interrupt collects stay within its
\* buffer, and a key asks for a value that the main board knows.
TypeOK ==
    /\ main \in [Types -> 0..3]
    /\ inFault \subseteq 0..4 /\ fault \subseteq 0..4
    /\ work \in [pc : {"sleep", "send"}, pre : SUBSET (0..4 \cup {Nothing})]
    /\ dcm \in [pc : {"no", "set"}, new : SUBSET (0..4)]
    /\ phone \in 0..3 \cup {Nothing}
    /\ req \in {"no", "query", "state", "fault", "function", "other"}
    /\ air \in Seq(Byte) /\ last \in Seq(Byte)
    /\ back \in {<< >>, <<1, 0>>} \cup (Types \X (0..3))
    /\ isr \in Seq(Byte) /\ Len(isr) < FrameLen
    /\ inbuf \in Buffer /\ flag \in BOOLEAN
    /\ loop \in [pc : {"scan", "copy", "apply"}, tmp : Buffer, n : 0..FrameLen]
    /\ panel \in [Types \cup {Fault} -> Byte]
    /\ pending \in [Types -> 0..3 \cup {Nothing}]
    /\ budget \in [{"input", "trouble"} -> Nat]
    /\ asked \in [Types -> Nat] /\ done \in [Types -> Nat]

\* As long as no byte is lost, the display keeps up and no exchange with a sensor or the motor
\* ends in a start code or has one twice in a row, the frame it applies is the one that was sent
\* to it last: its receiver, which only knows start codes and lengths, stays in step.
FrameIsWhole ==
    loop.pc = "apply" /\ budget["trouble"] = 0
        => SubSeq(loop.tmp, 1, Len(last)) = last

\* The main board never executes a key more often than it was pressed, although answers may
\* come late and are read by whatever request is under way.
KeysActOnce == \A k \in Types : done[k] <= asked[k]

\* A key that was pressed is reported in the end, whatever was lost before and although one
\* answer carries one key.
KeysAreReported == \A k \in Types : Reportable(k) ~> ~Reportable(k)

\* The bits of a fault byte but that of the motor.
ButMotor(byte) == <<byte \div 4, byte % 2>>

\* When nothing is pressed or lost any more and no foreign byte is taken for a start, the panel
\* comes to show the settings and the faults of the main board and keeps showing them: lost
\* bytes, frames copied in two parts, function frames with an undefined byte, foreign bytes in
\* a frame and faults that were overwritten are all repaired.  The bit of the motor is left
\* out: two threads write it from different sources, for ever.
PanelSettles ==
    <>[](/\ \A t \in Types : panel[t] = main[t]
         /\ ButMotor(panel[Fault]) = ButMotor(FaultByte))

\* While the device is on, the faults but those of the photohydrogen unit and the motor come to
\* agree with the inputs and stay so, although the motor thread keeps writing fault_state
\* without protection: what it overwrites when the monitor falls into fault_set_bit is repaired.
FaultsSettle ==
    <>[](main[Power] = 1
           => fault \ {PhtBit, MotorBit} = inFault \ {PhtBit, MotorBit})
================================================================================
