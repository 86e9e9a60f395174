---------------------------- MODULE WifiLinkProofs ----------------------------
(* Proofs about the Wi-Fi link, for any commands, bytes and buffer size and     *)
(* any number of frames and factory resets.                                     *)
EXTENDS WifiLink, TLAPS

-------------------------------------------------------------------------------
\* Frames

\* The sum of three bytes.
LEMMA SumOfThree ==
  ASSUME NEW a \in Byte, NEW b \in Byte, NEW c \in Byte
  PROVE  SumOf(<<a, b, c>>) = (((a + b) % (Top + 1)) + c) % (Top + 1)
  <1> DEFINE s == <<a, b, c>>
             S(f) == [i \in 0..3 |-> IF i = 0 THEN 0 ELSE (f[i - 1] + s[i]) % (Top + 1)]
             sum == CHOOSE f : f = S(f)
             g == [i \in 0..3 |-> IF i = 0 THEN 0
                                  ELSE IF i = 1 THEN a % (Top + 1)
                                  ELSE IF i = 2 THEN ((a % (Top + 1)) + b) % (Top + 1)
                                  ELSE ((((a % (Top + 1)) + b) % (Top + 1)) + c) % (Top + 1)]
  <1>0. Top \in Nat /\ a \in Nat /\ a <= Top /\ b \in Nat /\ c \in Nat
    BY LinkAssumption DEF Byte
  <1>1. a % (Top + 1) = a
    BY <1>0
  <1>2. g = S(g)
    <2> SUFFICES ASSUME NEW i \in 0..3 PROVE g[i] = S(g)[i]
      OBVIOUS
    <2>1. i = 0 \/ i = 1 \/ i = 2 \/ i = 3
      OBVIOUS
    <2> QED BY <1>0, <2>1
  <1>3. sum = S(sum)
    BY <1>2
  <1>4. SumOf(s) = sum[3]
    BY DEF SumOf
  <1> HIDE DEF sum
  <1>5. \A i \in 0..3 : sum[i] = IF i = 0 THEN 0 ELSE (sum[i - 1] + s[i]) % (Top + 1)
    <2>1. \A f : S(f)[0] = 0 /\ \A i \in 1..3 : S(f)[i] = (f[i - 1] + s[i]) % (Top + 1)
      OBVIOUS
    <2> HIDE DEF S
    <2> QED BY <1>3, <2>1
  <1>6. sum[0] = 0 /\ sum[1] = (0 + a) % (Top + 1)
    BY <1>5
  <1>7. sum[1] = a
    BY <1>0, <1>1, <1>6
  <1>8. sum[2] = (sum[1] + b) % (Top + 1) /\ sum[3] = (sum[2] + c) % (Top + 1)
    BY <1>5
  <1> QED BY <1>4, <1>7, <1>8

\* The seven bytes of a frame.
LEMMA FrameFacts ==
  ASSUME NEW c \in Commands
  PROVE  /\ Frame(c) \in Seq(Byte) /\ Len(Frame(c)) = 7
         /\ Frame(c)[1] = Start /\ Frame(c)[2] = Start /\ Frame(c)[3] = c[1]
         /\ Frame(c)[4] = 1 /\ Frame(c)[5] = c[2]
  <1>0. c[1] \in Types /\ c[2] \in Byte /\ Top \in Nat /\ Top >= 7
    BY LinkAssumption
  <1>1. c[1] \in Byte /\ 1 \in Byte /\ Start \in Byte /\ End \in Byte
    BY <1>0, LinkAssumption DEF Byte, Types
  <1> DEFINE s == SumOf(<<c[1], 1, c[2]>>)
  <1>2. s \in Byte
    <2> DEFINE x == ((c[1] + 1) % (Top + 1)) + c[2]
    <2>1. s = x % (Top + 1)
      BY <1>0, <1>1, SumOfThree
    <2>2. x \in Nat
      BY <1>0, <1>1 DEF Byte
    <2> HIDE DEF x
    <2>3. x % (Top + 1) \in 0..Top
      BY <1>0, <2>2
    <2> QED BY <2>1, <2>3 DEF Byte
  <1> HIDE DEF s
  <1> DEFINE head == <<Start, Start>>
             body == <<c[1], 1, c[2]>>
             tail == <<s, End>>
             p    == head \o body
  <1>3. head \in Seq(Byte) /\ body \in Seq(Byte) /\ tail \in Seq(Byte)
    BY <1>1, <1>2, <1>0
  <1>4. Frame(c) = p \o tail
    BY DEF Frame, s
  <1>5. /\ p \in Seq(Byte) /\ Len(p) = 5
        /\ p[1] = Start /\ p[2] = Start /\ p[3] = c[1] /\ p[4] = 1 /\ p[5] = c[2]
    BY <1>3
  <1>6. Len(tail) = 2
    OBVIOUS
  <1> HIDE DEF p, tail
  <1>7. p \in Seq(Byte) /\ tail \in Seq(Byte)
    BY <1>3, <1>5
  <1>8. /\ p \o tail \in Seq(Byte) /\ Len(p \o tail) = Len(p) + Len(tail)
        /\ \A i \in 1..Len(p) : (p \o tail)[i] = p[i]
    BY <1>7
  <1>9. \A i \in 1..5 : (p \o tail)[i] = p[i]
    BY <1>5, <1>8
  <1> QED BY <1>4, <1>5, <1>6, <1>8, <1>9

-------------------------------------------------------------------------------
\* Type correctness

Parsers == [buf : Seq(Byte), wait : Byte, cnt : Byte]
Slots   == [buf : [1..BufSize -> Byte], len : Nat]
Waits   == [got : Seq(Byte), cnt : 0..(Retries + 1), sem : Nat, ans : BOOLEAN]

\* The waits of an exchange that goes on are within their limit.
Counted == pcF \in {"enter", "default"} => at.cnt <= Retries

TypeInv == TypeOK /\ Counted

LEMMA ByteFacts == 0 \in Byte /\ 1 \in Byte /\ Top \in Nat /\ Start \in Byte /\ Byte \subseteq Nat
  BY LinkAssumption DEF Byte

\* A byte of the line, stored by the parser.
LEMMA StoredType ==
  ASSUME rx \in Parsers, NEW b \in Byte
  PROVE  /\ Stored(b) \in Parsers /\ Stored(b).buf = Append(rx.buf, b)
         /\ Stored(b).wait = rx.wait /\ Stored(b).cnt = rx.cnt
  <1> DEFINE g == Append(rx.buf, b)
  <1>1. g \in Seq(Byte)
    BY DEF Parsers
  <1>2. Stored(b) = [rx EXCEPT !.buf = g]
    BY DEF Stored, Parsers
  <1> HIDE DEF g
  <1>3. [rx EXCEPT !.buf = g] \in Parsers /\ [rx EXCEPT !.buf = g].buf = g
        /\ [rx EXCEPT !.buf = g].wait = rx.wait /\ [rx EXCEPT !.buf = g].cnt = rx.cnt
    BY <1>1 DEF Parsers
  <1> QED BY <1>2, <1>3 DEF g

\* The parser's four cases.
LEMMA ParsedIs ==
  ASSUME rx \in Parsers, NEW b \in Byte
  PROVE  /\ Parsed(b) \in Parsers
         /\ Len(rx.buf) < 2 /\ b # Start => Parsed(b).buf = << >>
         /\ (Len(rx.buf) >= 2 \/ b = Start) => Parsed(b).buf = Append(rx.buf, b)
         /\ Len(rx.buf) = 3 => Parsed(b).wait = b /\ Parsed(b).cnt = 0
         /\ Len(rx.buf) > 3 => Parsed(b).wait = rx.wait /\ Parsed(b).cnt = (rx.cnt + 1) % (Top + 1)
  <1> DEFINE n == Len(rx.buf)
             st == Stored(b)
  <1>0. n \in Nat
    BY DEF Parsers
  <1>1. st \in Parsers /\ st.buf = Append(rx.buf, b) /\ st.wait = rx.wait /\ st.cnt = rx.cnt
    BY StoredType
  <1>2. (rx.cnt + 1) % (Top + 1) \in Byte
    <2>1. rx.cnt \in Nat /\ Top \in Nat
      BY ByteFacts DEF Parsers
    <2> QED BY <2>1 DEF Byte
  <1> DEFINE k  == (rx.cnt + 1) % (Top + 1)
             r0 == [rx EXCEPT !.buf = << >>]
             r3 == [st EXCEPT !.wait = b, !.cnt = 0]
             r4 == [st EXCEPT !.cnt = (@ + 1) % (Top + 1)]
             P  == Parsed(b)
  <1>3. P = IF n < 2 THEN (IF b = Start THEN st ELSE r0)
            ELSE IF n = 2 THEN st ELSE IF n = 3 THEN r3 ELSE r4
    BY DEF Parsed
  <1>4. r0 \in Parsers /\ r0.buf = << >>
    <2>1. << >> \in Seq(Byte)
      OBVIOUS
    <2> QED BY <2>1 DEF Parsers
  <1> HIDE DEF n, st, P
  <1>5. r3 \in Parsers /\ r3.buf = Append(rx.buf, b) /\ r3.wait = b /\ r3.cnt = 0
    BY <1>1, ByteFacts DEF Parsers
  <1>6. r4 \in Parsers /\ r4.buf = Append(rx.buf, b) /\ r4.wait = rx.wait /\ r4.cnt = k
    <2>1. r4 = [st EXCEPT !.cnt = k]
      BY <1>1 DEF Parsers
    <2> HIDE DEF k
    <2> QED BY <1>1, <1>2, <2>1 DEF Parsers, k
  <1> HIDE DEF r0, r3, r4, k
  <1> DEFINE app == Append(rx.buf, b)
             w == rx.wait
  <1> HIDE DEF app, w
  <1>7. /\ st \in Parsers /\ st.buf = app /\ r3.buf = app /\ r4.buf = app /\ r4.wait = w
    BY <1>1, <1>5, <1>6 DEF app, w
  <1>8. /\ P \in Parsers
        /\ n < 2 /\ b # Start => P.buf = << >>
        /\ (n >= 2 \/ b = Start) => P.buf = app
        /\ n = 3 => P.wait = b /\ P.cnt = 0
        /\ n > 3 => P.wait = w /\ P.cnt = k
    <2>1. CASE n < 2
      BY <1>0, <1>3, <1>4, <1>7, <2>1
    <2>2. CASE n = 2
      BY <1>0, <1>3, <1>7, <2>2
    <2>3. CASE n = 3
      BY <1>0, <1>3, <1>5, <1>7, <2>3
    <2>4. CASE n > 3
      BY <1>0, <1>3, <1>6, <1>7, <2>4
    <2> QED BY <1>0, <2>1, <2>2, <2>3, <2>4
  <1> QED BY <1>8 DEF n, P, app, w, k

\* The copy of any part of a frame.
LEMMA CopiedType ==
  ASSUME slot \in Slots, NEW f \in Seq(Byte), NEW k \in 0..Len(f)
  PROVE  Copied(f, k) \in [1..BufSize -> Byte]
  <1>1. ASSUME NEW i \in 1..BufSize PROVE (IF i <= k THEN f[i] ELSE slot.buf[i]) \in Byte
    <2>1. CASE i <= k
      <3>1. i \in 1..Len(f)
        BY <2>1, LinkAssumption
      <3> QED BY <2>1, <3>1
    <2>2. CASE ~(i <= k)
      BY <2>2 DEF Slots
    <2> QED BY <2>1, <2>2
  <1> QED BY <1>1 DEF Copied

\* A byte and the rest of what is on the line.
LEMMA AirFacts ==
  ASSUME air \in Seq(Byte), air # << >>
  PROVE  /\ Head(air) \in Byte /\ Head(air) = air[1] /\ Tail(air) \in Seq(Byte)
         /\ Len(air) >= 1 /\ Len(Tail(air)) = Len(air) - 1
         /\ \A i \in 1..Len(Tail(air)) : Tail(air)[i] = air[i + 1]
  OBVIOUS

\* A wait of the exchange keeps the count within its limit as long as the exchange goes on.
LEMMA WaitedType ==
  ASSUME TypeInv, pcF \in {"enter", "default"}, NEW got \in Seq(Byte), NEW n \in Nat, Waited(got, n)
  PROVE  /\ at' \in Waits /\ pcF' \in {"enter", "command", "default", "end"} /\ Counted'
  <1> DEFINE cnt == IF got = << >> THEN at.cnt + 1 ELSE at.cnt
  <1>0. at.cnt \in 0..Retries /\ Retries \in Nat
    BY LinkAssumption DEF TypeInv, TypeOK, Counted
  <1> DEFINE a == at.ans
  <1>a. a \in BOOLEAN
    BY DEF TypeInv, TypeOK
  <1>1. cnt \in 0..(Retries + 1)
    BY <1>0
  <1>2. /\ at' = [got |-> got, cnt |-> cnt, sem |-> n, ans |-> a]
        /\ pcF' = IF Matches(got) THEN (IF pcF = "enter" THEN "command" ELSE "end")
                  ELSE (IF cnt > Retries THEN "end" ELSE pcF)
    BY DEF Waited
  <1> HIDE DEF cnt, a
  <1>3. at' \in Waits /\ at'.cnt = cnt
    BY <1>a, <1>1, <1>2 DEF Waits
  <1>4. pcF' \in {"enter", "default"} => cnt <= Retries
    BY <1>0, <1>1, <1>2
  <1> QED BY <1>2, <1>3, <1>4 DEF Counted

\* Parts of a sequence of bytes.
LEMMA Parts ==
  ASSUME NEW s \in Seq(Byte), NEW i \in Nat, NEW j \in Nat, i >= 1, j <= Len(s)
  PROVE  SubSeq(s, i, j) \in Seq(Byte)
  OBVIOUS

LEMMA AnswerType == Answer \in Seq(Byte) /\ \A i \in 1..Len(Answer) : Answer[i] # Start
  <1>1. Answer \in Seq(Byte \ {Start})
    BY LinkAssumption
  <1>2. Len(Answer) \in Nat /\ \A i \in 1..Len(Answer) : Answer[i] \in Byte \ {Start}
    BY <1>1
  <1>3. Answer \in Seq(Byte)
    BY <1>1, <1>2
  <1> QED BY <1>2, <1>3

LEMMA LinkStart == Init => TypeInv
  <1> SUFFICES ASSUME Init PROVE TypeInv
    OBVIOUS
  <1>1. << >> \in Seq(Byte) /\ << >> \in Seq(Commands)
    OBVIOUS
  <1>2. air \in Seq(Byte) /\ rx \in Parsers /\ slot \in Slots /\ at \in Waits
    BY <1>1, ByteFacts, LinkAssumption DEF Init, Restarted, Idle, Parsers, Slots, Waits
  <1>3. sent \in Seq(Commands) /\ clean \in -1..Resync /\ lost \in 0..MaxLost
    BY <1>1, LinkAssumption DEF Init
  <1>4. TypeOK
    BY <1>2, <1>3 DEF Init, TypeOK, Parsers, Slots, Waits
  <1> QED BY <1>4 DEF TypeInv, Counted, Init

LEMMA LinkType == TypeInv /\ [Next]_vars => TypeInv'
  <1> SUFFICES ASSUME TypeInv, [Next]_vars PROVE TypeInv'
    OBVIOUS
  <1> USE DEF rxVars, facVars, histVars
  <1>0. /\ air \in Seq(Byte) /\ rx \in Parsers /\ slot \in Slots /\ at \in Waits
        /\ sem \in Nat /\ sent \in Seq(Commands) /\ clean \in -1..Resync /\ lost \in 0..MaxLost
        /\ resets \in Nat /\ overlap \in BOOLEAN /\ stray \in BOOLEAN /\ twice \in BOOLEAN
        /\ cmd \in {<< >>} \cup Types \X Byte
        /\ Resync \in Nat /\ MaxLost \in Nat
    BY LinkAssumption DEF TypeInv, TypeOK, Parsers, Slots, Waits
  <1>1. ASSUME NEW c \in Commands, Send(c) PROVE TypeInv'
    <2>1. air' \in Seq(Byte) /\ sent' \in Seq(Commands) /\ clean' \in -1..Resync
      <3>1. air' = Frame(c) /\ sent' = Append(sent, c) /\ clean' = IF clean < Resync THEN clean + 1 ELSE clean
        BY <1>1 DEF Send
      <3>2. Append(sent, c) \in Seq(Commands)
        BY <1>0
      <3> QED BY <1>0, <3>1, <3>2, FrameFacts
    <2>2. TypeOK'
      BY <1>0, <1>1, <2>1 DEF Send, TypeInv, TypeOK, Parsers, Slots, Waits
    <2> QED BY <1>1, <2>2 DEF Send, TypeInv, Counted
  <1>2. CASE Lose
    <2>1. air' \in Seq(Byte) /\ lost' \in 0..MaxLost /\ clean' \in -1..Resync
      BY <1>0, <1>2, AirFacts DEF Lose
    <2>3. stray' \in BOOLEAN /\ twice' \in BOOLEAN
      BY <1>0, <1>2 DEF Lose
    <2>2. TypeOK'
      BY <1>0, <1>2, <2>1, <2>3 DEF Lose, TypeInv, TypeOK, Parsers, Slots, Waits
    <2> QED BY <1>2, <2>2 DEF Lose, TypeInv, Counted
  <1>3. CASE RxByte
    <2>1. air' \in Seq(Byte) /\ rx' \in Parsers
      BY <1>0, <1>3, AirFacts, ParsedIs DEF RxByte
    <2>2. TypeOK'
      BY <1>0, <1>3, <2>1 DEF RxByte, TypeInv, TypeOK, Parsers, Slots, Waits
    <2> QED BY <1>3, <2>2 DEF RxByte, TypeInv, Counted
  <1>4. ASSUME NEW k \in 0..(Len(rx.buf) + 1), RxComplete(k) PROVE TypeInv'
    <2>1. air' \in Seq(Byte) /\ rx' \in Parsers /\ rx'.buf = Append(rx.buf, Head(air)) /\ Head(air) \in Byte
      BY <1>0, <1>4, AirFacts, StoredType DEF RxComplete
    <2>2. rx'.buf \in Seq(Byte) /\ k \in 0..Len(rx'.buf)
      <3>1. rx.buf \in Seq(Byte)
        BY <1>0 DEF Parsers
      <3>2. Len(Append(rx.buf, Head(air))) = Len(rx.buf) + 1 /\ Append(rx.buf, Head(air)) \in Seq(Byte)
        BY <2>1, <3>1
      <3> QED BY <1>4, <2>1, <3>2
    <2>3. Copied(rx'.buf, k) \in [1..BufSize -> Byte] /\ Len(rx'.buf) \in Nat
      BY <1>0, <2>2, CopiedType
    <2>4. slot' \in Slots
      BY <1>4, <2>3 DEF RxComplete, Slots
    <2>5. overlap' \in BOOLEAN
      BY <1>0, <1>4 DEF RxComplete
    <2>6. pcR = "read" /\ pcR' = "copy"
      BY <1>4 DEF RxComplete
    <2>7. TypeOK'
      BY <1>0, <1>4, <2>1, <2>4, <2>5, <2>6 DEF RxComplete, TypeInv, TypeOK, Parsers, Slots, Waits
    <2> QED BY <1>4, <2>7 DEF RxComplete, TypeInv, Counted
  <1>5. CASE RxDone
    <2>1. rx' \in Parsers
      <3>1. << >> \in Seq(Byte)
        OBVIOUS
      <3> QED BY <1>5, <3>1, ByteFacts DEF RxDone, Emptied, Restarted, Parsers
    <2>2. slot' \in Slots
      <3>1. rx.buf \in Seq(Byte) /\ Len(rx.buf) \in 0..Len(rx.buf)
        BY <1>0 DEF Parsers
      <3>2. Copied(rx.buf, Len(rx.buf)) \in [1..BufSize -> Byte]
        BY <1>0, <3>1, CopiedType
      <3> QED BY <1>0, <1>5, <3>2 DEF RxDone, Slots
    <2>3. sem' \in Nat
      BY <1>0, <1>5 DEF RxDone, Released
    <2>4. TypeOK'
      BY <1>0, <1>5, <2>1, <2>2, <2>3 DEF RxDone, TypeInv, TypeOK, Parsers, Slots, Waits
    <2> QED BY <1>5, <2>4 DEF RxDone, TypeInv, Counted
  <1>6. CASE DecodeTake
    <2>1. sem' \in Nat
      BY <1>0, <1>6 DEF DecodeTake
    <2>2. pcD' \in {"decode", "busy"}
      BY <1>6 DEF DecodeTake
    <2>3. TypeOK'
      BY <1>0, <1>6, <2>1, <2>2 DEF DecodeTake, TypeInv, TypeOK, Parsers, Slots, Waits
    <2> QED BY <1>6, <2>3 DEF DecodeTake, TypeInv, Counted
  <1>7. CASE wifi_receive_data_decode
    <2>1. cmd' \in {<< >>} \cup Types \X Byte
      <3>1. 3 \in 1..BufSize /\ 5 \in 1..BufSize
        BY LinkAssumption
      <3>2. slot.buf[3] \in Byte /\ slot.buf[5] \in Byte
        BY <1>0, <3>1 DEF Slots
      <3> QED BY <1>0, <1>7, <3>2 DEF wifi_receive_data_decode
    <2>2. TypeOK'
      BY <1>0, <1>7, <2>1 DEF wifi_receive_data_decode, TypeInv, TypeOK, Parsers, Slots, Waits
    <2> QED BY <1>7, <2>2 DEF wifi_receive_data_decode, TypeInv, Counted
  <1>8. CASE DecodeDone
    <2>1. TypeOK'
      BY <1>0, <1>8 DEF DecodeDone, TypeInv, TypeOK, Parsers, Slots, Waits
    <2> QED BY <1>8, <2>1 DEF DecodeDone, TypeInv, Counted
  <1>9. CASE FactoryBegin
    <2>1. at' \in Waits /\ at'.cnt = 0 /\ resets' \in Nat /\ stray' \in BOOLEAN
      <3>1. << >> \in Seq(Byte)
        OBVIOUS
      <3> QED BY <1>0, <1>9, <3>1, LinkAssumption DEF FactoryBegin, Idle, Waits
    <2>2. pcR' = "deleted" /\ pcF' = "enter"
      BY <1>9 DEF FactoryBegin
    <2>3. TypeOK'
      BY <1>0, <1>9, <2>1, <2>2 DEF FactoryBegin, TypeInv, TypeOK, Parsers, Slots, Waits
    <2>4. Counted'
      BY <2>1, LinkAssumption DEF Counted
    <2> QED BY <2>3, <2>4 DEF TypeInv
  <1>10. CASE FactoryAnswer
    <2>1. air' \in Seq(Byte)
      BY <1>0, <1>10, AnswerType DEF FactoryAnswer
    <2>2. at' \in Waits /\ at'.cnt = at.cnt
      BY <1>0, <1>10 DEF FactoryAnswer, Waits
    <2>3. TypeOK'
      BY <1>0, <1>10, <2>1, <2>2 DEF FactoryAnswer, TypeInv, TypeOK, Parsers, Slots, Waits
    <2> QED BY <1>10, <2>2, <2>3 DEF FactoryAnswer, TypeInv, Counted
  <1>11. ASSUME NEW k \in 0..Len(air), FactoryRead(k) PROVE TypeInv'
    <2>1. at.sem + k - 1 \in Nat
      BY <1>0, <1>11 DEF FactoryRead, Waits
    <2>2. k \in Nat /\ Len(air) \in Nat /\ k <= Len(air) /\ k + 1 >= 1 /\ Len(air) <= Len(air)
      BY <1>0, <1>11
    <2>3. SubSeq(air, 1, k) \in Seq(Byte) /\ SubSeq(air, k + 1, Len(air)) \in Seq(Byte)
      BY <1>0, <2>2, Parts
    <2>4. at.got \o SubSeq(air, 1, k) \in Seq(Byte)
      <3>1. at.got \in Seq(Byte)
        BY <1>0 DEF Waits
      <3> QED BY <2>3, <3>1
    <2> DEFINE g == at.got \o SubSeq(air, 1, k)
    <2>5. g \in Seq(Byte)
      BY <2>4
    <2> HIDE DEF g
    <2>6. pcF \in {"enter", "default"} /\ Waited(g, at.sem + k - 1)
      BY <1>11 DEF FactoryRead, g
    <2>7. at' \in Waits /\ pcF' \in {"enter", "command", "default", "end"} /\ Counted'
      BY <2>1, <2>5, <2>6, WaitedType
    <2>8. air' \in Seq(Byte)
      BY <1>11, <2>3 DEF FactoryRead
    <2>9. TypeOK'
      BY <1>0, <1>11, <2>6, <2>7, <2>8 DEF FactoryRead, TypeInv, TypeOK, Parsers, Slots, Waits
    <2> QED BY <2>7, <2>9 DEF TypeInv
  <1>12. CASE FactoryTimeout
    <2>1. at.got \in Seq(Byte) /\ pcF \in {"enter", "default"} /\ Waited(at.got, 0)
      BY <1>0, <1>12 DEF FactoryTimeout, Waits
    <2>2. at' \in Waits /\ pcF' \in {"enter", "command", "default", "end"} /\ Counted'
      BY <2>1, WaitedType
    <2>3. TypeOK'
      BY <1>0, <1>12, <2>1, <2>2 DEF FactoryTimeout, TypeInv, TypeOK, Parsers, Slots, Waits
    <2> QED BY <2>2, <2>3 DEF TypeInv
  <1>13. CASE FactoryCommand
    <2>1. at' \in Waits /\ at'.cnt = 0
      <3>1. << >> \in Seq(Byte)
        OBVIOUS
      <3>2. [at EXCEPT !.got = << >>] \in Waits
        BY <1>0, <3>1 DEF Waits
      <3>3. at' = [[[at EXCEPT !.got = << >>] EXCEPT !.cnt = 0] EXCEPT !.ans = FALSE]
        BY <1>0, <1>13 DEF FactoryCommand, Waits
      <3>4. 0 \in 0..(Retries + 1)
        BY LinkAssumption
      <3>5. [[at EXCEPT !.got = << >>] EXCEPT !.cnt = 0] \in Waits
        BY <3>2, <3>4 DEF Waits
      <3> QED BY <3>3, <3>5 DEF Waits
    <2>2. TypeOK'
      BY <1>0, <1>13, <2>1 DEF FactoryCommand, TypeInv, TypeOK, Parsers, Slots, Waits
    <2>3. Counted'
      BY <2>1, LinkAssumption DEF Counted
    <2> QED BY <2>2, <2>3 DEF TypeInv
  <1>14. CASE FactoryEnd
    <2>1. at' \in Waits
      <3>1. << >> \in Seq(Byte)
        OBVIOUS
      <3> QED BY <1>14, <3>1, LinkAssumption DEF FactoryEnd, Idle, Waits
    <2>2. TypeOK'
      BY <1>0, <1>14, <2>1 DEF FactoryEnd, TypeInv, TypeOK, Parsers, Slots, Waits
    <2> QED BY <1>14, <2>2 DEF FactoryEnd, TypeInv, Counted
  <1>15. CASE UNCHANGED vars
    BY <1>15 DEF vars, TypeInv, TypeOK, Counted
  <1> QED BY <1>1, <1>2, <1>3, <1>4, <1>5, <1>6, <1>7, <1>8, <1>9, <1>10, <1>11, <1>12, <1>13,
             <1>14, <1>15 DEF Next, Receive, Decode, Factory

\* The variables of the link keep their types on a line that loses any number of bytes; the
\* receive thread is gone exactly while wifi_factory_set has the line, and that never waits
\* longer than its limit.
THEOREM WifiTypeCorrect == Spec => []TypeOK
  <1>1. TypeInv => TypeOK
    BY DEF TypeInv
  <1> QED BY <1>1, LinkStart, LinkType, PTL DEF Spec

-------------------------------------------------------------------------------
\* As long as the line loses nothing

\* No byte was lost, and wifi_factory_set took no part of a frame.
Intact == ~stray /\ lost = 0

\* What is on the line cannot start a frame.
Noise == \A i \in 1..Len(air) : air[i] # Start

\* A whole frame is on the line.
Fresh == \E j \in 1..Len(sent) : air = Frame(sent[j])

\* The parser has the first bytes of frame j, and the others are on the line.
InFrame(j) ==
    LET n == Len(rx.buf) IN
    /\ pcR = "read" /\ n \in 1..6 /\ Len(air) = 7 - n
    /\ \A i \in 1..n : rx.buf[i] = Frame(sent[j])[i]
    /\ \A i \in 1..Len(air) : air[i] = Frame(sent[j])[n + i]
    /\ n > 3 => rx.wait = 1 /\ rx.cnt = n - 4

Waiting == pcR # "copy" /\ rx.buf = << >>
Copying == pcR = "copy" /\ \E j \in 1..Len(sent) : rx.buf = Frame(sent[j])

\* The parser and the line are in step; while wifi_factory_set has the line, the parser is
\* between two frames and no frame is on it.
LinkInv ==
    Intact =>
        /\ (\E j \in 1..Len(sent) : InFrame(j)) \/ ((Waiting \/ Copying) /\ (Fresh \/ Noise))
        /\ pcF # "no" => Waiting /\ Noise

\* A sent command in the buffer of the decode thread.
SlotHolds == \E j \in 1..Len(sent) : slot.buf[3] = sent[j][1] /\ slot.buf[5] = sent[j][2]

\* As long as no frame was completed too early, the decode thread finds a sent command and
\* nobody writes to it.
SlotInv ==
    Intact /\ ~overlap =>
        /\ (sem > 0 \/ pcD = "decode") => pcR # "copy" /\ SlotHolds
        /\ cmd # << >> => \E j \in 1..Len(sent) : sent[j] = cmd

WifiInv == TypeInv /\ LinkInv /\ SlotInv

\* A sent command is one of the commands, and its frame has seven bytes.
LEMMA SentFrame ==
  ASSUME sent \in Seq(Commands), NEW j \in 1..Len(sent)
  PROVE  /\ sent[j] \in Commands /\ Frame(sent[j]) \in Seq(Byte) /\ Len(Frame(sent[j])) = 7
         /\ Frame(sent[j])[1] = Start /\ Frame(sent[j])[2] = Start
         /\ Frame(sent[j])[3] = sent[j][1] /\ Frame(sent[j])[4] = 1 /\ Frame(sent[j])[5] = sent[j][2]
         /\ sent[j] = <<sent[j][1], sent[j][2]>>
  <1>1. sent[j] \in Commands
    OBVIOUS
  <1>2. sent[j] \in Types \X Byte
    BY <1>1, LinkAssumption
  <1> QED BY <1>1, <1>2, FrameFacts

\* The parser takes the next byte of the frame it is in.
LEMMA InFrameStep ==
  ASSUME TypeInv, NEW j \in 1..Len(sent), InFrame(j), RxByte
  PROVE  InFrame(j)'
  <1> DEFINE n == Len(rx.buf)
             F == Frame(sent[j])
             b == Head(air)
  <1>0. /\ air \in Seq(Byte) /\ rx \in Parsers /\ sent \in Seq(Commands) /\ Top \in Nat /\ Top >= 7
    BY LinkAssumption DEF TypeInv, TypeOK, Parsers
  <1>1. /\ pcR = "read" /\ air # << >> /\ ~Completes /\ rx' = Parsed(b) /\ air' = Tail(air)
        /\ sent' = sent /\ pcR' = pcR
    BY DEF RxByte, histVars
  <1>2. /\ n \in 1..6 /\ Len(air) = 7 - n /\ \A i \in 1..n : rx.buf[i] = F[i]
        /\ \A i \in 1..Len(air) : air[i] = F[n + i]
        /\ n > 3 => rx.wait = 1 /\ rx.cnt = n - 4
    BY DEF InFrame
  <1>3. F[1] = Start /\ F[2] = Start /\ F[4] = 1
    BY <1>0, SentFrame
  <1>4. b \in Byte /\ b = air[1] /\ \A i \in 1..Len(Tail(air)) : Tail(air)[i] = air[i + 1]
    BY <1>0, <1>1, AirFacts
  <1>5. Len(Tail(air)) = Len(air) - 1
    BY <1>0, <1>1, AirFacts
  <1>6. b = F[n + 1]
    BY <1>2, <1>4
  <1>7. n # 6
    <2> SUFFICES ASSUME n = 6 PROVE FALSE
      OBVIOUS
    <2> HIDE DEF n
    <2>1. rx.wait = 1 /\ rx.cnt = 2 /\ n >= 4
      BY <1>2
    <2>2. rx.cnt = rx.wait + 1
      BY <2>1
    <2> QED BY <1>1, <2>1, <2>2 DEF Completes, n
  <1>8. n >= 2 \/ b = Start
    BY <1>2, <1>3, <1>6
  <1>9. rx'.buf = Append(rx.buf, b)
    BY <1>0, <1>1, <1>4, <1>8, ParsedIs
  <1>10. rx.buf \in Seq(Byte)
    BY <1>0 DEF Parsers
  <1>11. Len(rx'.buf) = n + 1 /\ (\A i \in 1..n : rx'.buf[i] = rx.buf[i]) /\ rx'.buf[n + 1] = b
    BY <1>4, <1>9, <1>10
  <1>12. n = 3 => rx'.wait = 1 /\ rx'.cnt = 0
    BY <1>0, <1>1, <1>3, <1>4, <1>6, ParsedIs
  <1>13. n > 3 => rx'.wait = 1 /\ rx'.cnt = n - 3
    <2> SUFFICES ASSUME n > 3 PROVE rx'.wait = 1 /\ rx'.cnt = n - 3
      OBVIOUS
    <2>1. rx'.wait = 1 /\ rx'.cnt = ((n - 4) + 1) % (Top + 1)
      BY <1>0, <1>1, <1>2, <1>4, ParsedIs
    <2> HIDE DEF n
    <2>2. (n - 4) + 1 = n - 3 /\ n - 3 \in 0..Top
      BY <1>0, <1>2
    <2>3. \A x \in 0..Top : x % (Top + 1) = x
      BY <1>0
    <2> QED BY <2>1, <2>2, <2>3
  <1> HIDE DEF n, F, b
  <1>14. \A i \in 1..(n + 1) : rx'.buf[i] = F[i]
    BY <1>2, <1>6, <1>11
  <1>15. ASSUME NEW i \in 1..Len(Tail(air)) PROVE Tail(air)[i] = F[(n + 1) + i]
    <2> DEFINE L == Len(air)
               T == Len(Tail(air))
    <2>1. T = L - 1 /\ L = 7 - n /\ n \in 1..6 /\ i \in 1..T
      BY <1>2, <1>5, <1>15
    <2> HIDE DEF L, T
    <2>2. i + 1 \in 1..L /\ n + (i + 1) = (n + 1) + i
      BY <2>1
    <2> QED BY <1>2, <1>4, <2>2 DEF L
  <1>16. Len(air') = 7 - (n + 1) /\ n + 1 \in 1..6
    BY <1>1, <1>2, <1>5, <1>7
  <1>17. n + 1 > 3 => rx'.wait = 1 /\ rx'.cnt = (n + 1) - 4
    BY <1>2, <1>12, <1>13
  <1> QED BY <1>1, <1>11, <1>14, <1>15, <1>16, <1>17 DEF InFrame, F

\* The parser starts with the first byte of a frame.
LEMMA FreshStep ==
  ASSUME TypeInv, Waiting, NEW j \in 1..Len(sent), air = Frame(sent[j]), RxByte
  PROVE  InFrame(j)'
  <1> DEFINE F == Frame(sent[j])
  <1>0. /\ air \in Seq(Byte) /\ rx \in Parsers /\ sent \in Seq(Commands)
    BY DEF TypeInv, TypeOK, Parsers
  <1>1. /\ pcR = "read" /\ air # << >> /\ rx' = Parsed(Head(air)) /\ air' = Tail(air)
        /\ sent' = sent /\ pcR' = pcR
    BY DEF RxByte, histVars
  <1>2. F[1] = Start
    BY <1>0, SentFrame
  <1>3. Len(F) = 7
    BY <1>0, SentFrame
  <1>4. /\ Head(air) \in Byte /\ Head(air) = air[1] /\ Len(Tail(air)) = Len(air) - 1
        /\ \A i \in 1..Len(Tail(air)) : Tail(air)[i] = air[i + 1]
    BY <1>0, <1>1, AirFacts
  <1>5. rx'.buf = Append(<< >>, Start)
    BY <1>0, <1>1, <1>2, <1>4, ParsedIs DEF Waiting
  <1>6. rx'.buf = <<Start>>
    <2>1. Append(<< >>, Start) = <<Start>>
      OBVIOUS
    <2> QED BY <1>5, <2>1
  <1>7. Len(rx'.buf) = 1 /\ rx'.buf[1] = Start
    BY <1>6
  <1> HIDE DEF F
  <1>8. Len(air') = 6 /\ \A i \in 1..6 : air'[i] = F[1 + i]
    <2> DEFINE T == Len(Tail(air))
    <2>1. T = 6
      BY <1>3, <1>4 DEF F
    <2> HIDE DEF T
    <2>2. \A i \in 1..T : Tail(air)[i] = F[i + 1]
      BY <1>4 DEF T, F
    <2>3. \A i \in 1..6 : Tail(air)[i] = F[1 + i]
      <3>1. \A i \in 1..6 : i + 1 = 1 + i
        OBVIOUS
      <3> QED BY <2>1, <2>2, <3>1
    <2>4. Len(Tail(air)) = 6
      BY <2>1 DEF T
    <2> QED BY <1>1, <2>3, <2>4
  <1> DEFINE m == Len(rx'.buf)
             L == Len(air')
  <1> HIDE DEF m, L
  <1>9. m = 1 /\ L = 6
    BY <1>7, <1>8 DEF m, L
  <1>10. /\ m \in 1..6 /\ L = 7 - m /\ ~(m > 3)
         /\ \A i \in 1..m : rx'.buf[i] = F[i]
         /\ \A i \in 1..L : air'[i] = F[m + i]
    <2>1. \A i \in 1..1 : i = 1
      OBVIOUS
    <2>2. \A i \in 1..m : rx'.buf[i] = F[i]
      BY <1>2, <1>7, <1>9, <2>1 DEF F
    <2>3. \A i \in 1..L : air'[i] = F[m + i]
      BY <1>8, <1>9
    <2> QED BY <1>9, <2>2, <2>3
  <1> QED BY <1>1, <1>10 DEF InFrame, F, m, L

LEMMA SameBytes ==
  ASSUME NEW s \in Seq(Byte), NEW t \in Seq(Byte), Len(s) = Len(t), \A i \in 1..Len(s) : s[i] = t[i]
  PROVE  s = t
  OBVIOUS

\* The last byte completes the frame that was sent, and the line is empty.
LEMMA CompleteStep ==
  ASSUME TypeInv, LinkInv, Intact, NEW k \in 0..(Len(rx.buf) + 1), RxComplete(k)
  PROVE  air' = << >> /\ \E j \in 1..Len(sent) : rx'.buf = Frame(sent[j])
  <1> DEFINE n == Len(rx.buf)
             b == Head(air)
  <1>0. air \in Seq(Byte) /\ rx \in Parsers /\ sent \in Seq(Commands) /\ rx.buf \in Seq(Byte)
    BY DEF TypeInv, TypeOK, Parsers
  <1>1. /\ pcR = "read" /\ air # << >> /\ n >= 4 /\ rx.cnt = rx.wait + 1 /\ rx' = Stored(b)
        /\ air' = Tail(air)
    BY DEF RxComplete, Completes
  <1>2. ~Waiting /\ ~Copying
    BY <1>1 DEF Waiting, Copying
  <1>3. PICK j \in 1..Len(sent) : InFrame(j)
    BY <1>2 DEF LinkInv
  <1> DEFINE F == Frame(sent[j])
  <1>4. /\ n \in 1..6 /\ Len(air) = 7 - n /\ \A i \in 1..n : rx.buf[i] = F[i]
        /\ \A i \in 1..Len(air) : air[i] = F[n + i]
        /\ n > 3 => rx.wait = 1 /\ rx.cnt = n - 4
    BY <1>3 DEF InFrame
  <1>5. F \in Seq(Byte)
    BY <1>0, SentFrame
  <1>6. Len(F) = 7
    BY <1>0, SentFrame
  <1>7. b \in Byte /\ b = air[1] /\ Tail(air) \in Seq(Byte)
    BY <1>0, <1>1, AirFacts
  <1>8. Len(Tail(air)) = Len(air) - 1
    BY <1>0, <1>1, AirFacts
  <1>9. rx'.buf = Append(rx.buf, b)
    BY <1>0, <1>1, <1>7, StoredType
  <1>10. /\ Len(rx'.buf) = n + 1 /\ (\A i \in 1..n : rx'.buf[i] = rx.buf[i]) /\ rx'.buf[n + 1] = b
         /\ rx'.buf \in Seq(Byte)
    BY <1>0, <1>7, <1>9
  <1> HIDE DEF n, b, F
  <1>11. n = 6
    BY <1>1, <1>4
  <1>12. b = F[n + 1]
    BY <1>4, <1>7, <1>11
  <1>13. \A i \in 1..(n + 1) : rx'.buf[i] = F[i]
    <2> SUFFICES ASSUME NEW i \in 1..(n + 1) PROVE rx'.buf[i] = F[i]
      OBVIOUS
    <2>1. CASE i = n + 1
      BY <1>10, <1>12, <2>1
    <2>2. CASE i # n + 1
      <3>1. i \in 1..n
        BY <1>11, <2>2
      <3> QED BY <1>4, <1>10, <3>1
    <2> QED BY <2>1, <2>2
  <1>14. rx'.buf = F
    <2>1. Len(rx'.buf) = Len(F)
      BY <1>6, <1>10, <1>11
    <2>2. \A i \in 1..Len(rx'.buf) : rx'.buf[i] = F[i]
      BY <1>10, <1>13
    <2>3. rx'.buf \in Seq(Byte)
      BY <1>10
    <2> QED BY <1>5, <2>1, <2>2, <2>3, SameBytes
  <1>15. air' = << >>
    <2>1. Len(Tail(air)) = 0
      BY <1>4, <1>8, <1>11
    <2> QED BY <1>1, <1>7, <2>1
  <1> QED BY <1>14, <1>15 DEF F

\* In a frame there are bytes on the line.
LEMMA FrameOnLine == ASSUME NEW j, InFrame(j) PROVE air # << >>
  <1> DEFINE n == Len(rx.buf)
             L == Len(air)
  <1>1. n \in 1..6 /\ L = 7 - n
    BY DEF InFrame
  <1> HIDE DEF n, L
  <1>2. L # 0
    BY <1>1
  <1>3. Len(<< >>) = 0
    OBVIOUS
  <1> QED BY <1>2, <1>3 DEF L

\* A step that leaves the line, the parser and the sent commands alone.
LEMMA LinkStill ==
  ASSUME LinkInv, UNCHANGED <<air, rx, pcR, pcF, sent, stray, lost>> PROVE LinkInv'
  BY DEF LinkInv, Intact, InFrame, Waiting, Copying, Fresh, Noise

LEMMA LinkStep ==
  ASSUME TypeInv, LinkInv, [Next]_vars PROVE LinkInv'
  <1> USE DEF rxVars, facVars, histVars
  <1>0. /\ air \in Seq(Byte) /\ rx \in Parsers /\ sent \in Seq(Commands) /\ stray \in BOOLEAN
        /\ lost \in Nat /\ (pcR = "deleted" <=> pcF # "no")
        /\ pcF \in {"no", "enter", "command", "default", "end"}
    BY LinkAssumption DEF TypeInv, TypeOK, Parsers
  <1>1. ASSUME NEW c \in Commands, Send(c) PROVE LinkInv'
    <2>1. /\ air = << >> /\ pcF = "no" /\ air' = Frame(c) /\ sent' = Append(sent, c)
          /\ UNCHANGED <<rx, pcR, pcF, stray, lost>>
      BY <1>1 DEF Send
    <2>2. Len(sent') = Len(sent) + 1 /\ sent'[Len(sent) + 1] = c /\ Len(sent) \in Nat
          /\ \A j \in 1..Len(sent) : j \in 1..Len(sent') /\ sent'[j] = sent[j]
      BY <1>0, <2>1
    <2>3. ASSUME Intact PROVE Waiting \/ Copying
      <3>1. ASSUME NEW j \in 1..Len(sent), InFrame(j) PROVE FALSE
        BY <2>1, <3>1, FrameOnLine
      <3> QED BY <2>3, <3>1 DEF LinkInv
    <2>4. Fresh'
      <3>1. Len(sent) + 1 \in 1..Len(sent') /\ air' = Frame(sent'[Len(sent) + 1])
        BY <2>1, <2>2
      <3> QED BY <3>1 DEF Fresh, Frame
    <2>5. Copying => Copying'
      BY <2>1, <2>2 DEF Copying, Frame
    <2>6. Waiting => Waiting'
      BY <2>1 DEF Waiting
    <2> QED BY <2>1, <2>3, <2>4, <2>5, <2>6 DEF LinkInv, Intact
  <1>2. CASE Lose
    BY <1>0, <1>2 DEF Lose, LinkInv, Intact
  <1>3. CASE RxByte
    <2>1. /\ pcR = "read" /\ air # << >> /\ rx' = Parsed(Head(air)) /\ air' = Tail(air)
          /\ UNCHANGED <<sent, pcR, pcF, stray, lost>>
      BY <1>3 DEF RxByte
    <2>2. pcF = "no" /\ pcF' = "no"
      BY <1>0, <2>1
    <2>3. ASSUME NEW j \in 1..Len(sent), InFrame(j) \/ (Waiting /\ air = Frame(sent[j]))
          PROVE  \E i \in 1..Len(sent') : InFrame(i)'
      BY <1>3, <2>1, <2>3, InFrameStep, FreshStep
    <2>4. ASSUME Waiting, Noise PROVE Waiting' /\ Noise'
      <3>1. /\ Head(air) \in Byte /\ Head(air) = air[1] /\ Len(air) >= 1
            /\ Len(Tail(air)) = Len(air) - 1 /\ Tail(air) \in Seq(Byte)
            /\ \A i \in 1..Len(Tail(air)) : Tail(air)[i] = air[i + 1]
        BY <1>0, <2>1, AirFacts
      <3>2. Head(air) # Start
        BY <1>0, <2>4, <3>1 DEF Noise
      <3>3. Len(rx.buf) < 2
        BY <2>4 DEF Waiting
      <3>4. rx'.buf = << >>
        BY <1>0, <2>1, <3>1, <3>2, <3>3, ParsedIs
      <3>5. \A i \in 1..Len(Tail(air)) : i + 1 \in 1..Len(air)
        <4>1. Len(air) \in Nat
          BY <1>0
        <4> QED BY <3>1, <4>1
      <3>6. Noise'
        BY <2>1, <2>4, <3>1, <3>5 DEF Noise
      <3> QED BY <2>1, <2>4, <3>4, <3>6 DEF Waiting
    <2>5. ~Copying
      BY <2>1 DEF Copying
    <2> QED BY <2>1, <2>2, <2>3, <2>4, <2>5 DEF LinkInv, Intact, Fresh
  <1>4. ASSUME NEW k \in 0..(Len(rx.buf) + 1), RxComplete(k) PROVE LinkInv'
    <2>1. pcR = "read" /\ pcR' = "copy" /\ UNCHANGED <<sent, pcF, stray, lost>>
      BY <1>4 DEF RxComplete
    <2>2. pcF' = "no"
      BY <1>0, <2>1
    <2>3. ASSUME Intact PROVE Copying' /\ Noise'
      <3>1. air' = << >> /\ \E j \in 1..Len(sent) : rx'.buf = Frame(sent[j])
        BY <1>4, <2>3, CompleteStep
      <3>2. Noise'
        <4>1. Len(<< >>) = 0 /\ \A i \in 1..0 : FALSE
          OBVIOUS
        <4> QED BY <3>1, <4>1 DEF Noise
      <3> QED BY <2>1, <3>1, <3>2 DEF Copying, Frame
    <2> QED BY <2>1, <2>2, <2>3 DEF LinkInv, Intact
  <1>5. CASE RxDone
    <2>1. pcR = "copy" /\ pcR' = "read" /\ rx'.buf = << >> /\ UNCHANGED <<air, sent, pcF, stray, lost>>
      BY <1>5 DEF RxDone, Emptied, Restarted
    <2>2. pcF' = "no"
      BY <1>0, <2>1
    <2>3. Intact => Fresh \/ Noise
      BY <2>1 DEF LinkInv, InFrame
    <2>4. (Fresh => Fresh') /\ (Noise => Noise')
      BY <2>1 DEF Fresh, Noise, Frame
    <2> QED BY <2>1, <2>2, <2>3, <2>4 DEF LinkInv, Intact, Waiting
  <1>6. CASE Decode
    BY <1>6, LinkStill DEF Decode, DecodeTake, wifi_receive_data_decode, DecodeDone
  <1>7. CASE FactoryBegin
    <2>1. /\ pcR = "read" /\ pcR' = "deleted" /\ stray' = (stray \/ air # << >>)
          /\ UNCHANGED <<air, rx, sent, lost>>
      BY <1>7 DEF FactoryBegin
    <2>2. ASSUME Intact' PROVE Waiting' /\ Noise'
      <3>1. Intact /\ air = << >>
        BY <1>0, <2>1, <2>2 DEF Intact
      <3>2. ASSUME NEW j \in 1..Len(sent), InFrame(j) PROVE FALSE
        BY <3>1, <3>2, FrameOnLine
      <3>3. Waiting
        BY <2>1, <3>1, <3>2 DEF LinkInv, Copying
      <3>4. Noise'
        <4>1. Len(<< >>) = 0 /\ \A i \in 1..0 : FALSE
          OBVIOUS
        <4> QED BY <2>1, <3>1, <4>1 DEF Noise
      <3> QED BY <2>1, <3>3, <3>4 DEF Waiting
    <2> QED BY <2>2 DEF LinkInv, Intact
  <1>8. ASSUME pcF # "no", UNCHANGED <<rx, sent, stray, lost>>, pcR' # "copy", Noise => Noise' PROVE LinkInv'
    <2>1. Intact => Waiting' /\ Noise'
      BY <1>8 DEF LinkInv, Waiting
    <2> QED BY <1>8, <2>1 DEF LinkInv, Intact
  <1>9. CASE FactoryAnswer
    <2>1. pcF # "no" /\ UNCHANGED <<rx, sent, stray, lost, pcR>> /\ air' = air \o Answer
      BY <1>9 DEF FactoryAnswer
    <2>2. pcR' # "copy"
      BY <1>0, <2>1
    <2> DEFINE n == Len(air)
               m == Len(Answer)
    <2>3. /\ Len(air') = n + m /\ n \in Nat /\ m \in Nat
          /\ \A i \in 1..n : air'[i] = air[i]
          /\ \A i \in 1..m : air'[n + i] = Answer[i]
      BY <1>0, <2>1, AnswerType
    <2>4. ASSUME Noise PROVE Noise'
      <3> SUFFICES ASSUME NEW i \in 1..(n + m) PROVE air'[i] # Start
        BY <2>3 DEF Noise
      <3>1. CASE i <= n
        BY <2>3, <2>4, <3>1 DEF Noise
      <3>2. CASE i > n
        <4> HIDE DEF n, m
        <4>1. i - n \in 1..m /\ i = n + (i - n)
          BY <2>3, <3>2
        <4> QED BY <2>3, <4>1, AnswerType DEF m
      <3> QED BY <2>3, <3>1, <3>2
    <2> QED BY <1>8, <2>1, <2>2, <2>4
  <1>10. ASSUME NEW k \in 0..Len(air), FactoryRead(k) PROVE LinkInv'
    <2>1. pcF # "no" /\ UNCHANGED <<rx, sent, stray, lost, pcR>> /\ air' = SubSeq(air, k + 1, Len(air))
      BY <1>10 DEF FactoryRead
    <2>2. /\ Len(air) \in Nat /\ k \in Nat /\ k <= Len(air)
          /\ Len(SubSeq(air, k + 1, Len(air))) = Len(air) - k
          /\ \A i \in 1..(Len(air) - k) : SubSeq(air, k + 1, Len(air))[i] = air[k + i]
      BY <1>0, <1>10
    <2>3. \A i \in 1..(Len(air) - k) : k + i \in 1..Len(air)
      BY <2>2
    <2>4. Noise => Noise'
      BY <2>1, <2>2, <2>3 DEF Noise
    <2>5. pcR' # "copy"
      BY <1>0, <2>1
    <2> QED BY <1>8, <2>1, <2>4, <2>5
  <1>11. CASE FactoryTimeout \/ FactoryCommand \/ FactoryEnd
    <2>1. pcF # "no" /\ UNCHANGED <<rx, sent, stray, lost, air>> /\ pcR' # "copy"
      BY <1>0, <1>11 DEF FactoryTimeout, FactoryCommand, FactoryEnd
    <2>2. Noise => Noise'
      BY <2>1 DEF Noise
    <2> QED BY <1>8, <2>1, <2>2
  <1>12. CASE UNCHANGED vars
    BY <1>12, LinkStill DEF vars
  <1> QED BY <1>1, <1>2, <1>3, <1>4, <1>5, <1>6, <1>7, <1>9, <1>10, <1>11, <1>12
          DEF Next, Receive, Factory

\* The two halves of the slot invariant.
SlotReady == (sem > 0 \/ pcD = "decode") => pcR # "copy" /\ SlotHolds
CmdSent   == cmd # << >> => \E j \in 1..Len(sent) : sent[j] = cmd

LEMMA SlotInvIs == SlotInv <=> (Intact /\ ~overlap => SlotReady /\ CmdSent)
  BY DEF SlotInv, SlotReady, CmdSent

\* A step that leaves the decode thread and its buffer alone.
LEMMA SlotStill ==
  ASSUME UNCHANGED <<slot, sem, pcD, cmd, sent>>, pcR' = "copy" => pcR = "copy",
         SlotReady, CmdSent
  PROVE  SlotReady' /\ CmdSent'
  BY DEF SlotReady, CmdSent, SlotHolds

LEMMA SlotStep ==
  ASSUME TypeInv, LinkInv, SlotInv, [Next]_vars PROVE SlotInv'
  <1> USE DEF rxVars, facVars, histVars
  <1>0. /\ sent \in Seq(Commands) /\ stray \in BOOLEAN /\ overlap \in BOOLEAN /\ sem \in Nat
        /\ slot \in Slots /\ (pcR = "deleted" <=> pcF # "no") /\ rx.buf \in Seq(Byte)
        /\ lost \in Nat
    BY LinkAssumption DEF TypeInv, TypeOK, Slots, Parsers
  <1>1. (Intact' => Intact) /\ (overlap => overlap')
    <2>1. CASE UNCHANGED vars
      BY <2>1 DEF Intact, vars
    <2>2. ASSUME NEW c \in Commands, Send(c) PROVE (Intact' => Intact) /\ (overlap => overlap')
      BY <2>2 DEF Intact, Send
    <2>3. ASSUME NEW k \in 0..(Len(rx.buf) + 1), RxComplete(k)
          PROVE  (Intact' => Intact) /\ (overlap => overlap')
      BY <1>0, <2>3 DEF Intact, RxComplete
    <2>4. ASSUME NEW k \in 0..Len(air), FactoryRead(k)
          PROVE  (Intact' => Intact) /\ (overlap => overlap')
      BY <2>4 DEF Intact, FactoryRead
    <2>5. CASE Lose \/ FactoryBegin
      BY <1>0, <2>5 DEF Intact, Lose, FactoryBegin
    <2>6. CASE RxByte \/ RxDone \/ Decode \/ FactoryAnswer
      BY <2>6 DEF Intact, RxByte, RxDone, Decode, DecodeTake, wifi_receive_data_decode, DecodeDone, FactoryAnswer
    <2>7. CASE FactoryTimeout \/ FactoryCommand \/ FactoryEnd
      BY <2>7 DEF Intact, FactoryTimeout, FactoryCommand, FactoryEnd
    <2> QED BY <2>1, <2>2, <2>3, <2>4, <2>5, <2>6, <2>7 DEF Next, Receive, Factory
  <1> SUFFICES ASSUME Intact', ~overlap' PROVE SlotReady' /\ CmdSent'
    BY SlotInvIs DEF SlotInv, SlotReady, CmdSent
  <1>2. Intact /\ ~overlap
    BY <1>1
  <1>3. SlotReady /\ CmdSent
    BY <1>2, SlotInvIs
  <1>4. ASSUME NEW c \in Commands, Send(c) PROVE SlotReady' /\ CmdSent'
    <2>1. sent' = Append(sent, c) /\ UNCHANGED <<slot, pcR, sem, pcD, cmd>>
      BY <1>4 DEF Send
    <2>2. \A j \in 1..Len(sent) : j \in 1..Len(sent') /\ sent'[j] = sent[j]
      BY <1>0, <2>1
    <2>3. SlotHolds => SlotHolds'
      BY <2>1, <2>2 DEF SlotHolds
    <2>4. CmdSent'
      BY <1>3, <2>1, <2>2 DEF CmdSent
    <2> QED BY <1>3, <2>1, <2>3, <2>4 DEF SlotReady
  <1>5. CASE Lose \/ RxByte
    BY <1>3, <1>5, SlotStill DEF Lose, RxByte
  <1>6. ASSUME NEW k \in 0..(Len(rx.buf) + 1), RxComplete(k) PROVE SlotReady' /\ CmdSent'
    <2>1. pcD = "wait" /\ ~(sem > 0) /\ UNCHANGED <<sem, pcD, cmd, sent>>
      BY <1>0, <1>6 DEF RxComplete
    <2> QED BY <1>3, <2>1 DEF SlotReady, CmdSent
  <1>7. CASE RxDone
    <2>1. /\ pcR = "copy" /\ pcR' = "read" /\ UNCHANGED <<pcD, cmd, sent>>
          /\ slot' = [slot EXCEPT !.buf = Copied(rx.buf, Len(rx.buf))]
      BY <1>7 DEF RxDone
    <2>2. PICK j \in 1..Len(sent) : rx.buf = Frame(sent[j])
      BY <1>2, <2>1 DEF LinkInv, InFrame, Waiting, Copying
    <2>3. /\ Len(rx.buf) = 7 /\ rx.buf[3] = sent[j][1] /\ rx.buf[5] = sent[j][2]
      BY <1>0, <2>2, SentFrame
    <2>4. slot'.buf = Copied(rx.buf, 7)
      BY <1>0, <2>1, <2>3 DEF Slots
    <2>5. 3 \in 1..BufSize /\ 5 \in 1..BufSize
      BY LinkAssumption
    <2>6. slot'.buf[3] = rx.buf[3] /\ slot'.buf[5] = rx.buf[5]
      BY <2>4, <2>5 DEF Copied
    <2>7. SlotHolds'
      BY <2>1, <2>3, <2>6 DEF SlotHolds
    <2> QED BY <1>3, <2>1, <2>7 DEF SlotReady, CmdSent
  <1>8. CASE DecodeTake
    <2>1. sem > 0 /\ UNCHANGED <<slot, pcR, cmd, sent>>
      BY <1>8 DEF DecodeTake
    <2> QED BY <1>3, <2>1 DEF SlotReady, CmdSent, SlotHolds
  <1>9. CASE wifi_receive_data_decode
    <2>1. /\ pcD = "decode" /\ pcD' = "busy" /\ UNCHANGED <<slot, pcR, sem, sent>>
          /\ cmd' = IF slot.buf[3] \in Types THEN <<slot.buf[3], slot.buf[5]>> ELSE cmd
      BY <1>9 DEF wifi_receive_data_decode
    <2>2. PICK j \in 1..Len(sent) : slot.buf[3] = sent[j][1] /\ slot.buf[5] = sent[j][2]
      BY <1>3, <2>1 DEF SlotReady, SlotHolds
    <2>3. sent[j] = <<sent[j][1], sent[j][2]>>
      BY <1>0, SentFrame
    <2>4. CmdSent'
      BY <1>3, <2>1, <2>2, <2>3 DEF CmdSent
    <2> QED BY <1>3, <2>1, <2>4 DEF SlotReady, SlotHolds
  <1>10. CASE DecodeDone
    BY <1>3, <1>10 DEF DecodeDone, SlotReady, CmdSent, SlotHolds
  <1>11. CASE FactoryBegin \/ FactoryAnswer
    BY <1>3, <1>11, SlotStill DEF FactoryBegin, FactoryAnswer
  <1>12. ASSUME NEW k \in 0..Len(air), FactoryRead(k) PROVE SlotReady' /\ CmdSent'
    BY <1>3, <1>12, SlotStill DEF FactoryRead
  <1>13. CASE FactoryTimeout \/ FactoryCommand \/ FactoryEnd
    BY <1>3, <1>13, SlotStill DEF FactoryTimeout, FactoryCommand, FactoryEnd
  <1>14. CASE UNCHANGED vars
    BY <1>3, <1>14, SlotStill DEF vars
  <1> QED BY <1>4, <1>5, <1>6, <1>7, <1>8, <1>9, <1>10, <1>11, <1>12, <1>13, <1>14
          DEF Next, Receive, Decode, Factory

LEMMA WifiStart == Init => WifiInv
  <1> SUFFICES ASSUME Init PROVE LinkInv /\ SlotInv
    BY LinkStart DEF WifiInv
  <1>1. Noise
    <2>1. Len(<< >>) = 0 /\ \A i \in 1..0 : FALSE
      OBVIOUS
    <2> QED BY <2>1 DEF Init, Noise
  <1> QED BY <1>1 DEF Init, LinkInv, SlotInv, Waiting, Restarted

LEMMA WifiStep == WifiInv /\ [Next]_vars => WifiInv'
  BY LinkType, LinkStep, SlotStep DEF WifiInv

\* As long as no byte was lost the parser stays in its buffer, unless wifi_factory_set took
\* the line away in the middle of a frame: after any number of frames and factory resets.
THEOREM ParserStaysInBuffer == Spec => [](lost = 0 => StaysInBuffer)
  <1>1. WifiInv => (lost = 0 => StaysInBuffer)
    <2>0. WifiInv => Len(rx.buf) \in Nat /\ BufSize \in Nat
      BY LinkAssumption DEF WifiInv, TypeInv, TypeOK
    <2> SUFFICES ASSUME WifiInv, Intact PROVE Len(rx.buf) <= BufSize
      BY <2>0 DEF StaysInBuffer, Intact, Overrun
    <2>1. BufSize \in Nat /\ BufSize >= 7 /\ sent \in Seq(Commands)
      BY LinkAssumption DEF WifiInv, TypeInv, TypeOK
    <2> DEFINE n == Len(rx.buf)
    <2>2. CASE Waiting
      <3>1. Len(<< >>) = 0
        OBVIOUS
      <3>2. n = 0
        BY <2>2, <3>1 DEF Waiting
      <3> HIDE DEF n
      <3>3. n <= BufSize
        BY <2>1, <3>2
      <3> QED BY <3>3 DEF n
    <2>3. CASE Copying
      <3>1. n = 7
        BY <2>1, <2>3, SentFrame DEF Copying
      <3> HIDE DEF n
      <3>2. n <= BufSize
        BY <2>1, <3>1
      <3> QED BY <3>2 DEF n
    <2>4. ASSUME NEW j \in 1..Len(sent), InFrame(j) PROVE Len(rx.buf) <= BufSize
      <3>1. n \in 1..6
        BY <2>4 DEF InFrame
      <3> HIDE DEF n
      <3>2. n <= BufSize
        BY <2>1, <3>1
      <3> QED BY <3>2 DEF n
    <2> QED BY <2>2, <2>3, <2>4 DEF WifiInv, LinkInv
  <1> QED BY <1>1, WifiStart, WifiStep, PTL DEF Spec

\* As long as no byte was lost the decode thread only executes commands that the phone
\* sent, unless a frame was completed while the one before it was waiting or being decoded.
THEOREM ExecutesOnlySent == Spec => [](lost = 0 => ExecutedWasSent)
  <1>1. WifiInv => (lost = 0 => ExecutedWasSent)
    <2> SUFFICES ASSUME WifiInv, cmd # << >>, ~overlap, Intact
                 PROVE  \E i \in DOMAIN sent : sent[i] = cmd
      BY DEF ExecutedWasSent, Intact
    <2>1. DOMAIN sent = 1..Len(sent)
      BY DEF WifiInv, TypeInv, TypeOK
    <2> QED BY <2>1 DEF WifiInv, SlotInv
  <1> QED BY <1>1, WifiStart, WifiStep, PTL DEF Spec

===============================================================================
