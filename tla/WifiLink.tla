------------------------------- MODULE WifiLink -------------------------------
(* The serial link to the Wi-Fi module: wifi_mod_uart.c.                       *)
(*                                                                             *)
(* The receive thread (wifif) assembles frames byte by byte and copies each    *)
(* complete one into a buffer with a single place; the decode thread           *)
(* (wifidecode) waits for a counting semaphore, checks the frame in that       *)
(* buffer and executes its command.  Both have priority 8 and share the        *)
(* processor in time slices, and nothing protects the buffer.                  *)
(* wifi_factory_set, which the display thread calls, takes the line away from  *)
(* the receive thread for an exchange of AT commands.                          *)
EXTENDS Integers, Sequences

CONSTANTS
    Commands,    \* the <<type, data>> pairs the phone may send
    Start,       \* the start code (0xF1)
    End,         \* the end code (0x7E)
    Query,       \* the type of a frame that asks for the device's identity (0xF7)
    Answer,      \* the bytes of the module's answer to an AT command
    BufSize,     \* size of the frame buffers (100)
    Top,         \* the largest byte (255)
    Retries,     \* silent waits of wifi_factory_set (3)
    Resync,      \* whole frames after which a loss is forgotten
    MaxInputs,   \* bound on the frames of a behaviour; a factory reset counts as two
    MaxLost      \* bound on the lost bytes

Byte == 0..Top

\* The types that wifi_receive_data_decode knows.
Types == (1..7) \cup {Query}

ASSUME LinkAssumption ==
    /\ Top \in Nat /\ Top >= 7
    /\ Commands \subseteq Types \X Byte
    /\ Start \in Byte /\ End \in Byte /\ Query \in Byte
    /\ Answer \in Seq(Byte \ {Start}) /\ Answer # << >>
    /\ BufSize \in Nat /\ BufSize >= 7 /\ Retries \in Nat
    /\ Resync \in Nat /\ MaxInputs \in Nat /\ MaxLost \in Nat

VARIABLES
    air,      \* bytes on the line and in the receive buffer of the UART
    rx,       \* the parser: recieved_len, wait_len, wait_len_cnt and its buffer
    slot,     \* wifi_recv_packet_buf_pub and wifi_recieve_data_length
    pcR,      \* the receive thread
    sem,      \* wifi_uart_sem
    pcD,      \* the decode thread
    cmd,      \* the last command that was executed
    pcF,      \* wifi_factory_set
    at,       \* its variables datatmp and cnt, the count of rx_sem, and whether the module answered
    sent,     \* history: the commands sent
    clean,    \* history: whole frames sent since the last loss (-1 in the frame itself)
    overlap,  \* history: a frame was completed before the last one was executed
    stray,    \* history: wifi_factory_set read something else than whole answers
    twice,    \* history: two bytes of one frame were lost
    lost,     \* bytes lost so far
    resets    \* factory resets so far

rxVars   == <<air, rx, slot, pcR, sem>>
facVars  == <<pcF, at, resets>>
histVars == <<sent, clean, overlap, stray, twice, lost>>
vars == <<rxVars, pcD, cmd, facVars, histVars>>

-------------------------------------------------------------------------------
\* Frames

\* The sum of the bytes, in a byte.
SumOf(s) ==
    LET sum[i \in 0..Len(s)] == IF i = 0 THEN 0 ELSE (sum[i - 1] + s[i]) % (Top + 1)
    IN  sum[Len(s)]

\* A frame of the phone: start codes, type, length, data, check sum, end code.
Frame(c) ==
    LET body == <<c[1], 1, c[2]>>
    IN  <<Start, Start>> \o body \o <<SumOf(body), End>>

\* [mutant] Only the end code is looked at.
wifi_receive_data_check_EndOnly(buf, len) == len > 0 /\ buf[len] = End

\* wifi_receive_data_check
wifi_receive_data_check(buf, len) ==
    /\ buf[1] = Start /\ buf[2] = Start /\ buf[len] = End
    /\ SumOf(SubSeq(buf, 3, len - 2)) = buf[len - 1]

-------------------------------------------------------------------------------
\* The phone and the line

\* What a behaviour has used of its bound: a factory reset counts as two frames.
Used == Len(sent) + 2 * resets

\* In its AT mode the module passes nothing on.
Send(c) ==
    /\ air = << >> /\ Used < MaxInputs /\ pcF = "no"
    /\ air' = Frame(c)
    /\ sent' = Append(sent, c)
    /\ clean' = IF clean < Resync THEN clean + 1 ELSE clean
    /\ UNCHANGED <<rx, slot, pcR, sem, pcD, cmd, facVars, overlap, stray, twice, lost>>

Lose ==
    /\ air # << >> /\ lost < MaxLost
    /\ air' = Tail(air)
    /\ lost' = lost + 1
    /\ clean' = -1
    /\ stray' = (stray \/ pcF # "no")
    /\ twice' = (twice \/ clean = -1)
    /\ UNCHANGED <<rx, slot, pcR, sem, pcD, cmd, facVars, sent, overlap>>

-------------------------------------------------------------------------------
\* The receive thread: wifi_rx_isr

Restarted == [buf |-> << >>, wait |-> 0, cnt |-> 0]

\* [mutant] recieved_len is not reset after a frame.
Emptied_KeepsLength == [rx EXCEPT !.wait = 0, !.cnt = 0]

\* The parser after a complete frame.
Emptied == Restarted

Stored(b) == [rx EXCEPT !.buf = Append(@, b)]

\* One byte: hunt for two start codes, take type and length, then wait_len + 1 more bytes.
Parsed(b) ==
    LET n == Len(rx.buf) IN
    IF n < 2 THEN (IF b = Start THEN Stored(b) ELSE [rx EXCEPT !.buf = << >>])
    ELSE IF n = 2 THEN Stored(b)
    ELSE IF n = 3 THEN [Stored(b) EXCEPT !.wait = b, !.cnt = 0]
    ELSE [Stored(b) EXCEPT !.cnt = (@ + 1) % (Top + 1)]

\* A byte was written past the buffer: what the program does after that is not defined.
Overrun == Len(rx.buf) > BufSize

\* The byte is the last one of the frame.
Completes == Len(rx.buf) >= 4 /\ rx.cnt = rx.wait + 1

\* wifi_recv_packet_buf_pub after the first k bytes of frame were copied.
Copied(frame, k) == [i \in 1..BufSize |-> IF i <= k THEN frame[i] ELSE slot.buf[i]]

RxByte ==
    /\ pcR = "read" /\ air # << >> /\ ~Completes /\ ~Overrun
    /\ rx' = Parsed(Head(air))
    /\ air' = Tail(air)
    /\ UNCHANGED <<slot, pcR, sem, pcD, cmd, facVars, histVars>>

\* The frame is complete: its length is set and the copy begins; a time slice may end
\* after any byte of it.
RxComplete(k) ==
    /\ pcR = "read" /\ air # << >> /\ Completes /\ ~Overrun
    /\ rx' = Stored(Head(air))
    /\ air' = Tail(air)
    /\ slot' = [buf |-> Copied(rx'.buf, k), len |-> Len(rx'.buf)]
    /\ pcR' = "copy"
    /\ overlap' = (overlap \/ pcD # "wait" \/ sem > 0)
    /\ UNCHANGED <<sem, pcD, cmd, facVars, sent, clean, stray, twice, lost>>

\* [mutant] The decode thread is only woken when it waits.
Released_IfWaiting == IF pcD = "wait" THEN sem + 1 ELSE sem

Released == sem + 1

\* The rest of the copy, and the release of wifi_uart_sem.
RxDone ==
    /\ pcR = "copy" /\ ~Overrun
    /\ slot' = [slot EXCEPT !.buf = Copied(rx.buf, Len(rx.buf))]
    /\ sem' = Released
    /\ rx' = Emptied
    /\ pcR' = "read"
    /\ UNCHANGED <<air, pcD, cmd, facVars, histVars>>

Receive == RxByte \/ RxDone \/ \E k \in 0..(Len(rx.buf) + 1) : RxComplete(k)

-------------------------------------------------------------------------------
\* The decode thread: rt_wifi_decode_thread_entry

\* A frame that fails the check is dropped.
DecodeTake ==
    /\ pcD = "wait" /\ sem > 0
    /\ sem' = sem - 1
    /\ pcD' = IF wifi_receive_data_check(slot.buf, slot.len) THEN "decode" ELSE "busy"
    /\ UNCHANGED <<air, rx, slot, pcR, cmd, facVars, histVars>>

\* wifi_receive_data_decode, in place: the command of the frame that is in the buffer now.
\* Types 2 to 7 call set_device_work_mode, type 1 asks for the state and 0xF7 for the identity.
wifi_receive_data_decode ==
    /\ pcD = "decode"
    /\ cmd' = IF slot.buf[3] \in Types THEN <<slot.buf[3], slot.buf[5]>> ELSE cmd
    /\ pcD' = "busy"
    /\ UNCHANGED <<rxVars, facVars, histVars>>

\* set_device_work_mode waits for the bus, the reply is sent with wifi_send_mut held, and
\* the thread pauses for 20 ms.
DecodeDone ==
    /\ pcD = "busy"
    /\ pcD' = "wait"
    /\ UNCHANGED <<rxVars, cmd, facVars, histVars>>

Decode == DecodeTake \/ wifi_receive_data_decode \/ DecodeDone

-------------------------------------------------------------------------------
\* wifi_factory_set, called by the display thread (priority 9): when it runs, the receive
\* thread has read all there is and waits for rx_sem.

Idle == [got |-> << >>, cnt |-> 0, sem |-> 0, ans |-> FALSE]

\* The receive thread is deleted and the first AT command sent.
FactoryBegin ==
    /\ pcF = "no" /\ Used + 2 <= MaxInputs
    /\ pcR = "read"
    /\ resets' = resets + 1
    /\ pcR' = "deleted" /\ pcF' = "enter"
    /\ at' = Idle
    /\ stray' = (stray \/ air # << >>)
    /\ UNCHANGED <<air, rx, slot, sem, pcD, cmd, sent, clean, overlap, twice, lost>>

\* The module answers, once per command.
FactoryAnswer ==
    /\ pcF \in {"enter", "default"} /\ ~at.ans
    /\ air' = air \o Answer
    /\ at' = [at EXCEPT !.ans = TRUE]
    /\ UNCHANGED <<rx, slot, pcR, sem, pcD, cmd, pcF, resets, histVars>>

\* strncmp with the length received less one, once enough has come.
Matches(got) ==
    /\ Len(got) >= Len(Answer) /\ Len(got) - 1 <= Len(Answer)
    /\ SubSeq(got, 1, Len(got) - 1) = SubSeq(Answer, 1, Len(got) - 1)

\* [mutant] The waits are not counted.
Waited_Uncounted(got, sems) ==
    /\ at' = [got |-> got, cnt |-> at.cnt, sem |-> sems, ans |-> at.ans]
    /\ pcF' = IF Matches(got) THEN (IF pcF = "enter" THEN "command" ELSE "end") ELSE pcF

\* What follows a wait of the exchange in which got was received so far.
Waited(got, sems) ==
    LET cnt == IF got = << >> THEN at.cnt + 1 ELSE at.cnt
    IN  /\ at' = [got |-> got, cnt |-> cnt, sem |-> sems, ans |-> at.ans]
        /\ pcF' = IF Matches(got)
                  THEN (IF pcF = "enter" THEN "command" ELSE "end")
                  ELSE (IF cnt > Retries THEN "end" ELSE pcF)

\* rt_sem_take succeeds, for one of the k bytes that have arrived (wifi_rx_ind counts each)
\* or for one that was read before; every byte that is there is read.
FactoryRead(k) ==
    /\ pcF \in {"enter", "default"} /\ at.sem + k > 0
    /\ Waited(at.got \o SubSeq(air, 1, k), at.sem + k - 1)
    /\ air' = SubSeq(air, k + 1, Len(air))
    /\ UNCHANGED <<rx, slot, pcR, sem, pcD, cmd, resets, histVars>>

\* The wait ends after three seconds.
FactoryTimeout ==
    /\ pcF \in {"enter", "default"} /\ at.sem = 0
    /\ Waited(at.got, 0)
    /\ UNCHANGED <<rxVars, pcD, cmd, resets, histVars>>

\* The second AT command; rx_sem keeps what was counted before.
FactoryCommand ==
    /\ pcF = "command"
    /\ pcF' = "default"
    /\ at' = [at EXCEPT !.got = << >>, !.cnt = 0, !.ans = FALSE]
    /\ UNCHANGED <<rxVars, pcD, cmd, resets, histVars>>

\* [mutant] The receive thread is not created again.
FactoryEnd_NoThread ==
    /\ pcF = "end"
    /\ pcF' = "no"
    /\ at' = Idle
    /\ UNCHANGED <<rxVars, pcD, cmd, resets, histVars>>

\* The receive thread is created again; the parser goes on where it stopped.
FactoryEnd ==
    /\ pcF = "end"
    /\ pcF' = "no" /\ pcR' = "read"
    /\ at' = Idle
    /\ UNCHANGED <<air, rx, slot, sem, pcD, cmd, resets, histVars>>

Factory == (\E k \in 0..Len(air) : FactoryRead(k)) \/ FactoryTimeout \/ FactoryCommand \/ FactoryEnd

-------------------------------------------------------------------------------
Init ==
    /\ air = << >>
    /\ rx = Restarted
    /\ slot = [buf |-> [i \in 1..BufSize |-> 0], len |-> 0]
    /\ pcR = "read" /\ sem = 0 /\ pcD = "wait" /\ cmd = << >>
    /\ pcF = "no" /\ at = Idle /\ resets = 0
    /\ sent = << >> /\ clean = Resync /\ overlap = FALSE /\ stray = FALSE /\ twice = FALSE /\ lost = 0

Next ==
    \/ (\E c \in Commands : Send(c)) \/ Lose
    \/ Receive \/ Decode
    \/ FactoryBegin \/ FactoryAnswer \/ Factory

Spec == Init /\ [][Next]_vars

\* Every thread that is ready runs in the end, and the waits of wifi_factory_set have a
\* time limit.
FairSpec ==
    /\ Spec
    /\ WF_vars(Receive) /\ WF_vars(Decode) /\ WF_vars(Factory)

-------------------------------------------------------------------------------
\* Properties

\* Type invariant; in particular the receive thread is gone exactly while wifi_factory_set
\* has the line, and the silent waits of that are counted up to their limit.
TypeOK ==
    /\ air \in Seq(Byte)
    /\ rx \in [buf : Seq(Byte), wait : Byte, cnt : Byte]
    /\ slot \in [buf : [1..BufSize -> Byte], len : Nat]
    /\ pcR \in {"read", "copy", "deleted"} /\ (pcR = "deleted" <=> pcF # "no")
    /\ pcD \in {"wait", "decode", "busy"}
    /\ pcF \in {"no", "enter", "command", "default", "end"}
    /\ sem \in Nat /\ at \in [got : Seq(Byte), cnt : 0..(Retries + 1), sem : Nat, ans : BOOLEAN]
    /\ cmd \in {<< >>} \cup Types \X Byte
    /\ sent \in Seq(Commands) /\ clean \in -1..Resync /\ lost \in 0..MaxLost /\ resets \in Nat
    /\ overlap \in BOOLEAN /\ stray \in BOOLEAN /\ twice \in BOOLEAN

\* The parser never writes past its 100-byte buffer, although it takes the length from the
\* frame and has no time limit, as long as no frame loses more than one byte: what gets in the
\* place of the length is then the data of the command, an hour or a switch.  (When type and
\* length are both lost the check sum gets there, 0xF8 for a frame of type 0xF7, and the
\* buffer is overrun; the same when wifi_factory_set takes bytes out of a frame.)
StaysInBuffer == Overrun => stray \/ twice

\* No command is executed that the phone did not send when up to two bytes are lost: a
\* frame put together from two fails the check of its sum and end code.  (Three losses can
\* compensate each other, and wifi_factory_set may take any bytes out of a frame.)  Only a
\* frame that is copied while the one before it is being decoded gets past the check, which
\* looks at the buffer earlier than the decoder does.
ExecutedWasSent == cmd # << >> => overlap \/ stray \/ \E i \in DOMAIN sent : sent[i] = cmd

\* When the phone stops, the last command it sent is the last one executed, although the
\* buffer has one place and earlier frames may have been overwritten in it.  After frames
\* that lost one byte each the parser, which has no time limit, is back in step with the third
\* whole frame: an hour of the timer in the place of the length swallows up to two.
LastCommandWins ==
    (air = << >> /\ clean = Resync /\ sent # << >> /\ resets = 0 /\ ~twice)
        ~> (air # << >> \/ (sent # << >> /\ cmd = sent[Len(sent)]))

\* wifi_factory_set gives the line back to the receive thread, whether the module answers
\* or not, unless it reads a part of a frame or of an answer.
LineIsGivenBack == pcF # "no" ~> (pcF = "no" \/ stray)
===============================================================================
