---------------------------- MODULE PanelKeysProofs ----------------------------
(* Proofs about the keys of the display board, for every length of a long and   *)
(* of a double press, every width of the counter and any number of inputs.      *)
EXTENDS PanelKeys, TLAPS

\* The state of one scanner, and what is known of one press.
Scanners == [step : 0..4, down : 0..U16, double : 0..DoubleTimes]
Presses  == [short : Nat, long : Nat, double : BOOLEAN]

\* There are two keys.
LEMMA TwoKeys ==
  ASSUME NEW k \in Keys
  PROVE  Other(k) \in Keys /\ Other(k) # k /\ \A j \in Keys : j = k \/ j = Other(k)
  BY DEF Keys, Other

--------------------------------------------------------------------------------
\* Types, and the digits of the timer

\* Both keys of the timer keep the digits in 0 to 12.
LEMMA TimerStep ==
  ASSUME TimerDigits, NEW d, d \in {Longer(digits), Shorter(digits)}
  PROVE  d.tens \in 0..1 /\ d.ones \in 0..9 /\ 10 * d.tens + d.ones <= 12
  <1>1. CASE d = Longer(digits)
    BY <1>1 DEF Longer, TimerDigits
  <1>2. CASE d = Shorter(digits)
    BY <1>2 DEF Shorter, TimerDigits
  <1> QED BY <1>1, <1>2

\* The digits of a timer that a frame has brought.
LEMMA DigitsOf ==
  ASSUME NEW t \in 0..12
  PROVE  t \div 10 \in 0..1 /\ t % 10 \in 0..9 /\ 10 * (t \div 10) + (t % 10) = t
  OBVIOUS

\* device_work_mode_check keeps both, with settings of their ranges.
LEMMA CheckStep ==
  ASSUME TypeOK, TimerDigits, NEW on \in BOOLEAN, NEW mode \in 0..2, NEW timing \in 0..12,
         device_work_mode_check(on, mode, timing)
  PROVE  panel' \in [on : BOOLEAN, mode : 0..2, key4 : 0..1, timing : 0..12] /\ TimerDigits'
  <1>1. panel \in [on : BOOLEAN, mode : 0..2, key4 : 0..1, timing : 0..12]
    BY DEF TypeOK
  <1>2. 10 * digits.tens + digits.ones \in 0..12
    BY DEF TimerDigits
  <1>3. panel' \in [on : BOOLEAN, mode : 0..2, key4 : 0..1, timing : 0..12]
    <2> DEFINE t == IF panel.key4 = 0 /\ ~on THEN 10 * digits.tens + digits.ones ELSE timing
    <2>1. t \in 0..12
      BY <1>2
    <2>2. panel' = [panel EXCEPT !.on = on, !.mode = mode, !.timing = t]
      BY DEF device_work_mode_check
    <2> HIDE DEF t
    <2> QED BY <1>1, <2>1, <2>2
  <1>4. CASE panel.key4 # 0
    <2>1. digits' = [tens |-> timing \div 10, ones |-> timing % 10]
      BY <1>4 DEF device_work_mode_check
    <2> QED BY <1>3, <2>1, DigitsOf DEF TimerDigits
  <1>5. CASE panel.key4 = 0
    <2>1. digits' = digits \/ digits' = [tens |-> 0, ones |-> 0]
      BY <1>5 DEF device_work_mode_check
    <2> QED BY <1>3, <2>1 DEF TimerDigits
  <1> QED BY <1>4, <1>5

\* The types of the state that a scanner works on.
ScanType ==
    /\ key \in [Keys -> Scanners] /\ press \in [Keys -> Presses]
    /\ KeyState \in {"up", "down", "short", "long"}
    /\ panel \in [on : BOOLEAN, mode : 0..2, key4 : 0..1, timing : 0..12]
    /\ report \in [power : {0, 1, NoKey}, mode : {1, 2, NoKey}, reset : BOOLEAN]

\* What a short press does keeps the types.
LEMMA ShortType ==
  ASSUME ScanType, NEW k \in Keys, Short(k)
  PROVE  /\ press' \in [Keys -> Presses]
         /\ panel' \in [on : BOOLEAN, mode : 0..2, key4 : 0..1, timing : 0..12]
         /\ report' \in [power : {0, 1, NoKey}, mode : {1, 2, NoKey}, reset : BOOLEAN]
  <1>1. press' \in [Keys -> Presses]
    BY DEF ScanType, Short, Presses
  <1>2. CASE k = "power"
    BY <1>1, <1>2 DEF ScanType, Short
  <1>3. CASE k # "power"
    <2>1. CASE panel.key4 = 0
      BY <1>1, <1>3, <2>1 DEF ScanType, Short
    <2>2. CASE panel.key4 # 0
      <3> DEFINE m == IF panel.mode = 0 THEN report.mode ELSE 3 - panel.mode
      <3>1. m \in {1, 2, NoKey}
        BY DEF ScanType
      <3>2. report' = [report EXCEPT !.mode = m] /\ panel' = panel
        BY <1>3, <2>2 DEF Short
      <3> HIDE DEF m
      <3> QED BY <1>1, <3>1, <3>2 DEF ScanType
    <2> QED BY <2>1, <2>2
  <1> QED BY <1>2, <1>3

\* So does a long one.
LEMMA LongType ==
  ASSUME ScanType, NEW k \in Keys, Long(k)
  PROVE  /\ press' \in [Keys -> Presses]
         /\ panel' \in [on : BOOLEAN, mode : 0..2, key4 : 0..1, timing : 0..12]
         /\ report' \in [power : {0, 1, NoKey}, mode : {1, 2, NoKey}, reset : BOOLEAN]
  <1>1. press' \in [Keys -> Presses]
    BY DEF ScanType, Long, Presses
  <1>2. CASE k = "power"
    <2> DEFINE r == report.reset \/ panel.on
    <2>1. r \in BOOLEAN
      OBVIOUS
    <2>2. report' = [report EXCEPT !.reset = r] /\ panel' = panel
      BY <1>2 DEF Long
    <2> HIDE DEF r
    <2> QED BY <1>1, <2>1, <2>2 DEF ScanType
  <1>3. CASE k # "power"
    BY <1>1, <1>3 DEF ScanType, Long
  <1> QED BY <1>2, <1>3

\* A scan without an effect.
LEMMA NothingType ==
  ASSUME ScanType, Nothing, key' \in [Keys -> Scanners],
         KeyState' \in {"up", "down", "short", "long"}
  PROVE  ScanType'
  BY DEF ScanType, Nothing

\* Every branch of the scanner keeps the types.
LEMMA ScannerType ==
  ASSUME ScanType, NEW k \in Keys,
         Down(k) \/ Released(k) \/ Held(k) \/ Bounced(k) \/ Ended(k) \/ Doubled(k)
  PROVE  ScanType'
  <1> USE KeyAssumption
  <1>0. key \in [Keys -> Scanners] /\ key[k] \in Scanners
    BY DEF ScanType
  <1>1. CASE Down(k)
    <2>1. key' \in [Keys -> Scanners]
      BY <1>0, <1>1 DEF Down, Scanners
    <2>2. press' \in [Keys -> Presses]
      <3>1. press \in [Keys -> Presses] /\ press[k] \in Presses
        BY DEF ScanType
      <3>2. \A b \in BOOLEAN : [press[k] EXCEPT !.double = b] \in Presses
        BY <3>1 DEF Presses
      <3>3. [press[k] EXCEPT !.double = TRUE] \in Presses /\ NoPress \in Presses
        BY <3>2 DEF NoPress, Presses
      <3>4. \/ press' = [press EXCEPT ![k] = [press[k] EXCEPT !.double = TRUE]]
            \/ press' = [press EXCEPT ![k] = NoPress]
        BY <1>1, <3>1 DEF Down
      <3> QED BY <3>1, <3>3, <3>4
    <2> QED BY <1>1, <2>1, <2>2 DEF Down, ScanType
  <1>2. CASE Released(k)
    <2>1. Remaining(k) \in 0..DoubleTimes
      BY <1>0 DEF Remaining, Scanners
    <2>2. key' \in [Keys -> Scanners]
      BY <1>0, <1>2, <2>1 DEF Released, Scanners
    <2>3. CASE Acts(k)
      BY <1>2, <2>2, <2>3, ShortType DEF Released, ScanType
    <2>4. CASE ~Acts(k)
      BY <1>2, <2>2, <2>4, NothingType DEF Released, ScanType
    <2> QED BY <2>3, <2>4
  <1>3. CASE Held(k)
    <2> DEFINE down == (key[k].down + 1) % (U16 + 1)
    <2>1. down \in 0..U16 /\ LongTimes \in 0..U16
      BY <1>0 DEF Scanners
    <2>2. [key EXCEPT ![k].down = down] \in [Keys -> Scanners]
      BY <1>0, <2>1 DEF Scanners
    <2>3. [key EXCEPT ![k].down = LongTimes] \in [Keys -> Scanners]
      BY <1>0, <2>1 DEF Scanners
    <2>4. \/ KeyState' = "short" /\ key' = [key EXCEPT ![k].down = down] /\ Nothing
          \/ KeyState' = "long" /\ key' = [key EXCEPT ![k].down = down] /\ Long(k)
          \/ key' = [key EXCEPT ![k].down = LongTimes] /\ UNCHANGED KeyState /\ Nothing
      BY <1>3 DEF Held, Capped
    <2> HIDE DEF down
    <2>5. CASE Nothing
      BY <2>2, <2>3, <2>4, <2>5, NothingType DEF ScanType
    <2>6. CASE KeyState' = "long" /\ key' = [key EXCEPT ![k].down = down] /\ Long(k)
      BY <2>2, <2>6, LongType DEF ScanType
    <2> QED BY <2>4, <2>5, <2>6
  <1>4. CASE Bounced(k)
    <2>1. key' \in [Keys -> Scanners]
      BY <1>0, <1>4 DEF Bounced, Scanners
    <2> QED BY <1>4, <2>1, NothingType DEF Bounced, ScanType
  <1>5. CASE Ended(k)
    <2>1. Pause(k) \in 0..DoubleTimes
      BY <1>0 DEF Pause, Scanners
    <2>2. key' \in [Keys -> Scanners]
      BY <1>0, <1>5, <2>1 DEF Ended, Scanners
    <2> QED BY <1>5, <2>2, NothingType DEF Ended, ScanType
  <1>6. CASE Doubled(k)
    <2>1. key' \in [Keys -> Scanners]
      BY <1>0, <1>6 DEF Doubled, Scanners
    <2> QED BY <1>6, <2>1, NothingType DEF Doubled, ScanType
  <1> QED BY <1>1, <1>2, <1>3, <1>4, <1>5, <1>6

\* The two parts of the type invariant.
LEMMA TypeParts ==
  TypeOK <=> /\ ScanType /\ pin \in [Keys -> BOOLEAN] /\ scan \in Keys
             /\ alone \in [Keys -> BOOLEAN] /\ inputs \in 0..MaxInputs
  BY DEF TypeOK, ScanType, Scanners, Presses

--------------------------------------------------------------------------------
\* One effect per press

\* A scanner at rest.
Quiet(r) == r.step = 0 /\ r.double = 0

\* How the effects p of a press fit to its scanner r and to KeyState, when no other key
\* comes in between.
Fits(r, p, s) ==
    /\ Quiet(r) => p.short + p.long + (IF p.double THEN 1 ELSE 0) <= 1
    /\ r.step = 0 /\ r.double > 0 => p.short = 0 /\ p.long = 0 /\ (p.double => s # "short")
    /\ r.step = 4 => p.short = 0 /\ p.long = 0
    /\ r.step \in 1..3 =>
         /\ r.double = 0 /\ p.short = 0 /\ ~p.double
         /\ \/ r.down < LongTimes /\ p.long = 0 /\ s # "long"
            \/ r.down = LongTimes /\ p.long = 1 /\ s = "long"

\* The inductive invariant: the count starts from zero, and an undisturbed press fits.
PressInv ==
    \A k \in Keys :
        /\ key[k].step \in {0, 4} => key[k].down = 0
        /\ alone[k] => Quiet(key[Other(k)]) /\ Fits(key[k], press[k], KeyState)

\* One scan of key k: its count is zero between presses.
LEMMA CountFromZero ==
  ASSUME ScanType, PressInv, NEW k \in Keys,
         Down(k) \/ Released(k) \/ Held(k) \/ Bounced(k) \/ Ended(k) \/ Doubled(k)
  PROVE  /\ key'[k].step \in {0, 4} => key'[k].down = 0
         /\ key'[Other(k)] = key[Other(k)] /\ press'[Other(k)] = press[Other(k)]
  <1>0. key \in [Keys -> Scanners] /\ press \in [Keys -> Presses] /\ Other(k) \in Keys /\ Other(k) # k
    BY TwoKeys DEF ScanType
  <1>1. key[k].step \in {0, 4} => key[k].down = 0
    BY DEF PressInv
  <1>2. press'[Other(k)] = press[Other(k)]
    BY <1>0 DEF Down, Released, Held, Bounced, Ended, Doubled, Short, Long, Nothing
  <1>3. key'[Other(k)] = key[Other(k)]
    BY <1>0 DEF Down, Released, Held, Bounced, Ended, Doubled
  <1>4. key'[k].step \in {0, 4} => key'[k].down = 0
    BY <1>0, <1>1 DEF Down, Released, Held, Bounced, Ended, Doubled, Scanners
  <1> QED BY <1>2, <1>3, <1>4

\* One scan of a key that was alone so far, or begins a press alone.
LEMMA FitsStep ==
  ASSUME ScanType, PressInv, NEW k \in Keys,
         Down(k) \/ Released(k) \/ Held(k) \/ Bounced(k) \/ Ended(k) \/ Doubled(k),
         alone[k] \/ (pin[k] /\ key[k].step = 0 /\ key[k].double = 0)
  PROVE  Fits(key'[k], press'[k], KeyState')
  <1> USE KeyAssumption
  <1>0. /\ key \in [Keys -> Scanners] /\ press \in [Keys -> Presses]
        /\ key[k] \in Scanners /\ press[k] \in Presses
    BY DEF ScanType
  <1>1. key[k].step \in {0, 4} => key[k].down = 0
    BY DEF PressInv
  <1>2. alone[k] => Fits(key[k], press[k], KeyState)
    BY DEF PressInv
  <1>3. CASE Down(k)
    <2>1. CASE key[k].double > 0
      <3>1. key'[k].step = 4 /\ press'[k].short = press[k].short /\ press'[k].long = press[k].long
        BY <1>0, <1>3, <2>1 DEF Down, Scanners, Presses
      <3>2. press[k].short = 0 /\ press[k].long = 0
        BY <1>0, <1>2, <1>3, <2>1 DEF Down, Fits, Quiet, Scanners
      <3> QED BY <3>1, <3>2 DEF Fits, Quiet
    <2>2. CASE ~(key[k].double > 0)
      <3>1. /\ key'[k].step = 2 /\ key'[k].double = 0 /\ key'[k].down = 0
            /\ press'[k] = NoPress /\ KeyState' = "down"
        BY <1>0, <1>1, <1>3, <2>2 DEF Down, Scanners
      <3> QED BY <3>1 DEF Fits, Quiet, NoPress
    <2> QED BY <2>1, <2>2
  <1>4. CASE ~Down(k)
    <2>0. alone[k] => Fits(key[k], press[k], KeyState)
      BY <1>2
    <2>1. CASE Released(k)
      <3>1. Fits(key[k], press[k], KeyState) /\ key[k].step = 0 /\ key'[k].step = 0
        BY <1>0, <2>0, <2>1 DEF Released, Scanners
      <3>2. CASE Acts(k)
        <4>1. key'[k].double = 0 /\ KeyState' = "up" /\ press'[k].long = press[k].long
          BY <1>0, <2>1, <3>2 DEF Released, Short, Acts, Remaining, Scanners, Presses
        <4>2. press'[k].short = press[k].short + 1 /\ press'[k].double = press[k].double
          BY <1>0, <2>1, <3>2 DEF Released, Short, Presses
        <4>3. press[k].short = 0 /\ press[k].long = 0 /\ ~press[k].double
          BY <3>1, <3>2 DEF Fits, Acts
        <4> QED BY <3>1, <4>1, <4>2, <4>3 DEF Fits, Quiet
      <3>3. CASE ~Acts(k)
        <4>1. press' = press /\ KeyState' = KeyState /\ key'[k].double = Remaining(k)
          BY <1>0, <2>1, <3>3 DEF Released, Nothing, Scanners
        <4>2. CASE key[k].double = 0
          BY <1>0, <3>1, <4>1, <4>2 DEF Fits, Quiet, Remaining, Scanners
        <4>3. CASE key[k].double > 0
          <5>1. press[k].short = 0 /\ press[k].long = 0 /\ (press[k].double => KeyState # "short")
            BY <3>1, <4>3 DEF Fits
          <5> QED BY <3>1, <4>1, <5>1 DEF Fits, Quiet
        <4> QED BY <1>0, <4>2, <4>3 DEF Scanners
      <3> QED BY <3>2, <3>3
    <2>2. CASE Held(k)
      <3>1. Fits(key[k], press[k], KeyState) /\ key[k].step = 1 /\ key'[k].step = 1
        BY <1>0, <2>0, <2>2 DEF Held, Scanners
      <3>2. key'[k].double = 0 /\ press[k].short = 0 /\ ~press[k].double
        BY <1>0, <2>2, <3>1 DEF Held, Fits, Scanners
      <3>3. (key[k].down + 1) % (U16 + 1) = key[k].down + 1
        <4>1. key[k].down + 1 \in 0..U16
          BY <1>0, <3>1 DEF Fits, Scanners
        <4>2. \A n \in 0..U16 : n % (U16 + 1) = n
          OBVIOUS
        <4> QED BY <4>1, <4>2
      <3>4. CASE key[k].down + 1 < LongTimes
        <4>1. KeyState' = "short" /\ key'[k].down = key[k].down + 1 /\ press' = press
          BY <1>0, <2>2, <3>3, <3>4 DEF Held, Nothing, Scanners
        <4> QED BY <1>0, <3>1, <3>2, <3>4, <4>1 DEF Fits, Quiet, Scanners
      <3>5. CASE key[k].down + 1 = LongTimes
        <4>1. KeyState # "long" /\ press[k].long = 0
          BY <1>0, <3>1, <3>5 DEF Fits, Scanners
        <4>2. KeyState' = "long" /\ key'[k].down = LongTimes /\ Long(k)
          BY <1>0, <2>2, <3>3, <3>5, <4>1 DEF Held, BecomesLong, Scanners
        <4>3. /\ press'[k].long = 1 /\ press'[k].short = press[k].short
              /\ press'[k].double = press[k].double
          BY <1>0, <4>1, <4>2 DEF Long, Presses
        <4> QED BY <3>1, <3>2, <4>2, <4>3 DEF Fits, Quiet
      <3>6. CASE key[k].down = LongTimes
        <4>1. KeyState = "long" /\ press[k].long = 1
          BY <1>0, <3>1, <3>6 DEF Fits, Scanners
        <4>2. key'[k].down = LongTimes /\ KeyState' = KeyState /\ press' = press
          BY <1>0, <2>2, <3>3, <3>6, <4>1 DEF Held, BecomesLong, Capped, Nothing, Scanners
        <4> QED BY <3>1, <3>2, <4>1, <4>2 DEF Fits, Quiet
      <3> QED BY <1>0, <3>1, <3>4, <3>5, <3>6 DEF Fits, Scanners
    <2>3. CASE Bounced(k)
      <3>1. /\ key[k].step \in 1..3 /\ key'[k].step \in 1..3
            /\ key'[k].down = key[k].down /\ key'[k].double = key[k].double
            /\ press' = press /\ KeyState' = KeyState
        BY <1>0, <2>3 DEF Bounced, Nothing, Scanners
      <3> QED BY <2>0, <3>1 DEF Fits, Quiet
    <2>4. CASE Ended(k)
      <3>1. /\ key[k].step = 3 /\ key'[k].step = 0 /\ key'[k].double = Pause(k)
            /\ press' = press /\ KeyState' = KeyState
        BY <1>0, <2>4 DEF Ended, Nothing
      <3> QED BY <1>0, <2>0, <3>1 DEF Fits, Quiet, Pause, Scanners, Presses
    <2>5. CASE Doubled(k)
      <3>1. /\ key[k].step = 4 /\ key'[k].double = key[k].double /\ press' = press
            /\ key'[k].step = 4 \/ (key'[k].step = 0 /\ KeyState' = "up")
        BY <1>0, <2>5 DEF Doubled, Nothing, Scanners
      <3>2. press[k].short = 0 /\ press[k].long = 0
        BY <2>0, <3>1 DEF Fits
      <3> QED BY <1>0, <3>1, <3>2 DEF Fits, Quiet, Scanners, Presses
    <2> QED BY <1>4, <2>1, <2>2, <2>3, <2>4, <2>5
  <1> QED BY <1>3, <1>4

\* A scan of a key at rest changes nothing of a press of the other key.
LEMMA RestStep ==
  ASSUME ScanType, NEW k \in Keys, AtRest(k),
         Down(k) \/ Released(k) \/ Held(k) \/ Bounced(k) \/ Ended(k) \/ Doubled(k)
  PROVE  Quiet(key'[k]) /\ KeyState' = KeyState
  <1>0. key \in [Keys -> Scanners] /\ key[k] \in Scanners
    BY DEF ScanType
  <1>1. Released(k) /\ ~Acts(k)
    BY DEF AtRest, Acts, Down, Held, Bounced, Ended, Doubled
  <1>2. Remaining(k) = 0
    BY DEF AtRest, Remaining
  <1> QED BY <1>0, <1>1, <1>2 DEF AtRest, Released, Quiet, Scanners

\* A scan of either key keeps the invariant for both.
LEMMA ScanStep ==
  ASSUME ScanType, PressInv, NEW k \in Keys, ScanKey(k), alone \in [Keys -> BOOLEAN]
  PROVE  ScanType' /\ PressInv' /\ alone' \in [Keys -> BOOLEAN]
  <1>0. Down(k) \/ Released(k) \/ Held(k) \/ Bounced(k) \/ Ended(k) \/ Doubled(k)
    BY DEF ScanKey
  <1>1. ScanType'
    BY <1>0, ScannerType
  <1>2. alone' \in [Keys -> BOOLEAN]
    BY DEF ScanKey, AtRest
  <1>3. \A j \in Keys : alone'[j] =>
           /\ alone[j] \/ (j = k /\ pin[k] /\ key[k].step = 0 /\ key[k].double = 0)
           /\ AtRest(Other(j))
    BY DEF ScanKey
  <1>4. PressInv'
    <2> SUFFICES ASSUME NEW j \in Keys
                 PROVE  /\ key'[j].step \in {0, 4} => key'[j].down = 0
                        /\ alone'[j] => Quiet(key'[Other(j)]) /\ Fits(key'[j], press'[j], KeyState')
      BY DEF PressInv
    <2>1. CASE j = k
      <3>1. key'[j].step \in {0, 4} => key'[j].down = 0
        BY <1>0, <2>1, CountFromZero
      <3>2. alone'[j] => Quiet(key'[Other(j)])
        BY <1>0, <1>3, <2>1, CountFromZero DEF AtRest, Quiet
      <3>3. alone'[j] => Fits(key'[j], press'[j], KeyState')
        BY <1>0, <1>3, <2>1, FitsStep
      <3> QED BY <3>1, <3>2, <3>3
    <2>2. CASE j # k
      <3>0. j = Other(k) /\ k = Other(j)
        BY <2>2, TwoKeys
      <3>1. key'[j] = key[j] /\ press'[j] = press[j]
        BY <1>0, <3>0, CountFromZero
      <3>2. key[j].step \in {0, 4} => key[j].down = 0
        BY DEF PressInv
      <3>3. ASSUME alone'[j] PROVE Quiet(key'[Other(j)]) /\ Fits(key'[j], press'[j], KeyState')
        <4>1. alone[j] /\ AtRest(k)
          BY <1>3, <2>2, <3>0, <3>3
        <4>2. Quiet(key'[k]) /\ KeyState' = KeyState
          BY <1>0, <4>1, RestStep
        <4>3. Fits(key[j], press[j], KeyState)
          BY <4>1 DEF PressInv
        <4> QED BY <3>0, <3>1, <4>2, <4>3
      <3> QED BY <3>1, <3>2, <3>3
    <2> QED BY <2>1, <2>2
  <1> QED BY <1>1, <1>2, <1>4

\* The inductive invariant of the whole panel.
KeysInv == TypeOK /\ TimerDigits /\ PressInv

\* It holds when the display board starts.
LEMMA KeysInit == Init => KeysInv
  <1> SUFFICES ASSUME Init PROVE KeysInv
    OBVIOUS
  <1>1. ScanType
    BY KeyAssumption DEF Init, ScanType, Scanners, Presses, NoPress
  <1>2. pin \in [Keys -> BOOLEAN] /\ alone \in [Keys -> BOOLEAN] /\ scan \in Keys
    BY DEF Init, Keys
  <1>3. inputs \in 0..MaxInputs
    BY KeyAssumption DEF Init
  <1>4. TimerDigits
    BY DEF Init, TimerDigits
  <1>5. PressInv
    BY TwoKeys DEF Init, PressInv, Quiet, Fits, NoPress
  <1> QED BY <1>1, <1>2, <1>3, <1>4, <1>5, TypeParts DEF KeysInv

\* A step that leaves the scanners and their presses alone keeps what is known of them.
LEMMA PressKept ==
  ASSUME PressInv, UNCHANGED <<key, press, KeyState, alone>> PROVE PressInv'
  BY DEF PressInv, Quiet, Fits

\* A frame of the main board.
LEMMA FrameStep == KeysInv /\ Frame => KeysInv'
  <1> SUFFICES ASSUME KeysInv, Frame PROVE KeysInv'
    OBVIOUS
  <1>0. TypeOK /\ TimerDigits /\ PressInv
    BY DEF KeysInv
  <1>1. panel.on \in BOOLEAN /\ panel.mode \in 0..2 /\ panel.timing \in 0..12
    BY <1>0 DEF TypeOK
  <1>2. panel' \in [on : BOOLEAN, mode : 0..2, key4 : 0..1, timing : 0..12] /\ TimerDigits'
    <2>1. CASE FrameF2
      <3>1. PICK on \in BOOLEAN, mode \in 1..2 : device_work_mode_check(on, mode, panel.timing)
        BY <2>1 DEF FrameF2
      <3>2. mode \in 0..2
        OBVIOUS
      <3> QED BY <1>0, <1>1, <3>1, <3>2, CheckStep
    <2>2. CASE FrameF1
      <3>1. ASSUME NEW on \in BOOLEAN, device_work_mode_check(on, panel.mode, panel.timing)
            PROVE  panel' \in [on : BOOLEAN, mode : 0..2, key4 : 0..1, timing : 0..12] /\ TimerDigits'
        BY <1>0, <1>1, <3>1, CheckStep
      <3>2. ASSUME NEW mode \in 1..2, device_work_mode_check(panel.on, mode, panel.timing)
            PROVE  panel' \in [on : BOOLEAN, mode : 0..2, key4 : 0..1, timing : 0..12] /\ TimerDigits'
        <4>1. mode \in 0..2
          OBVIOUS
        <4> QED BY <1>0, <1>1, <3>2, <4>1, CheckStep
      <3>3. ASSUME NEW timing \in Timers, device_work_mode_check(panel.on, panel.mode, timing)
            PROVE  panel' \in [on : BOOLEAN, mode : 0..2, key4 : 0..1, timing : 0..12] /\ TimerDigits'
        <4>1. timing \in 0..12
          BY KeyAssumption
        <4> QED BY <1>0, <1>1, <3>3, <4>1, CheckStep
      <3> QED BY <2>2, <3>1, <3>2, <3>3 DEF FrameF1
    <2> QED BY <2>1, <2>2 DEF Frame
  <1>3. report' \in [power : {0, 1, NoKey}, mode : {1, 2, NoKey}, reset : BOOLEAN]
    <2>0. report \in [power : {0, 1, NoKey}, mode : {1, 2, NoKey}, reset : BOOLEAN]
      BY <1>0 DEF TypeOK
    <2>1. Reported \in [power : {0, 1, NoKey}, mode : {1, 2, NoKey}, reset : BOOLEAN]
      BY <2>0 DEF Reported
    <2>2. report' = Reported \/ report' = report
      BY DEF Frame, FrameF1, FrameF2
    <2> QED BY <2>0, <2>1, <2>2
  <1>4. inputs' \in 0..MaxInputs
    BY <1>0, KeyAssumption DEF Frame, TypeOK
  <1>5. PressInv'
    BY <1>0, PressKept DEF Frame
  <1> QED BY <1>0, <1>2, <1>3, <1>4, <1>5 DEF KeysInv, TypeOK, Frame

\* Every step keeps the invariant.
LEMMA KeysStep == KeysInv /\ [Next]_vars => KeysInv'
  <1> SUFFICES ASSUME KeysInv, [Next]_vars PROVE KeysInv'
    OBVIOUS
  <1>0. TypeOK /\ TimerDigits /\ PressInv
    BY DEF KeysInv
  <1>00. /\ ScanType /\ pin \in [Keys -> BOOLEAN] /\ scan \in Keys
         /\ alone \in [Keys -> BOOLEAN] /\ inputs \in 0..MaxInputs
    BY <1>0, TypeParts
  <1>1. ASSUME NEW k \in Keys, ScanKey(k), scan' \in Keys, UNCHANGED <<pin, digits, inputs>>
        PROVE  KeysInv'
    <2>1. ScanType' /\ PressInv' /\ alone' \in [Keys -> BOOLEAN]
      BY <1>0, <1>00, <1>1, ScanStep
    <2>2. TimerDigits'
      BY <1>0, <1>1 DEF TimerDigits
    <2>3. TypeOK'
      BY <1>00, <1>1, <2>1 DEF TypeOK, ScanType, Scanners, Presses
    <2> QED BY <2>1, <2>2, <2>3 DEF KeysInv
  <1>2. CASE power_Key
    BY <1>1, <1>2 DEF power_Key, Keys
  <1>3. CASE MainSwitch_Key
    <2>1. CASE panel.on
      BY <1>1, <1>3, <2>1 DEF MainSwitch_Key, Keys
    <2>2. CASE ~panel.on
      <3>1. /\ UNCHANGED <<key, KeyState, panel, report, press, alone, pin, digits, inputs>>
            /\ scan' \in Keys
        BY <1>3, <2>2 DEF MainSwitch_Key, Keys
      <3>2. PressInv'
        BY <1>0, <3>1, PressKept
      <3> QED BY <1>0, <3>1, <3>2 DEF KeysInv, TypeOK, TimerDigits
    <2> QED BY <2>1, <2>2
  <1>4. ASSUME NEW k \in Keys, Pin(k) PROVE KeysInv'
    <2>1. pin' \in [Keys -> BOOLEAN]
      BY <1>00, <1>4 DEF Pin
    <2>2. inputs' \in 0..MaxInputs
      BY <1>00, <1>4, KeyAssumption DEF Pin
    <2>3. PressInv'
      BY <1>0, <1>4, PressKept DEF Pin
    <2> QED BY <1>0, <1>4, <2>1, <2>2, <2>3 DEF KeysInv, TypeOK, TimerDigits, Pin
  <1>5. CASE Frame
    BY <1>5, FrameStep
  <1>6. CASE SetTimer
    <2>1. TimerDigits'
      BY <1>0, <1>6, TimerStep DEF SetTimer, TimerDigits
    <2>2. inputs' \in 0..MaxInputs
      BY <1>00, <1>6, KeyAssumption DEF SetTimer
    <2>3. PressInv'
      BY <1>0, <1>6, PressKept DEF SetTimer
    <2> QED BY <1>0, <1>6, <2>1, <2>2, <2>3 DEF KeysInv, TypeOK, SetTimer
  <1>7. CASE UNCHANGED vars
    <2>1. PressInv'
      BY <1>0, <1>7, PressKept DEF vars
    <2> QED BY <1>0, <1>7, <2>1 DEF KeysInv, TypeOK, TimerDigits, vars
  <1> QED BY <1>2, <1>3, <1>4, <1>5, <1>6, <1>7 DEF Next

--------------------------------------------------------------------------------
\* The state of the keys and of the panel keeps its ranges; KeyDownTimes does by its width,
\* KeyDoubleTimes because it is looked at before it is decremented.
THEOREM KeysTypeCorrect == Spec => []TypeOK
  <1>1. KeysInv => TypeOK
    BY DEF KeysInv
  <1> QED BY <1>1, KeysInit, KeysStep, PTL DEF Spec

\* The timer keys and the frames of the main board, in any mixture, keep the two digits of
\* the timer in 0 to 12 hours.
THEOREM TimerDigitsStay == Spec => []TimerDigits
  <1>1. KeysInv => TimerDigits
    BY DEF KeysInv
  <1> QED BY <1>1, KeysInit, KeysStep, PTL DEF Spec

\* The scanners of the two keys share KeyState; a press during which the other key is at
\* rest has one effect at most, and its count stops at the limit for a long press.
THEOREM PressActsOnce == Spec => [](OneEffectPerPress /\ CountStops)
  <1>1. KeysInv => OneEffectPerPress /\ CountStops
    <2> SUFFICES ASSUME KeysInv, NEW k \in Keys, alone[k]
                 PROVE  /\ press[k].short + press[k].long + (IF press[k].double THEN 1 ELSE 0) <= 1
                        /\ key[k].down <= LongTimes
      BY DEF OneEffectPerPress, CountStops
    <2>1. ScanType /\ Fits(key[k], press[k], KeyState)
      BY TypeParts DEF KeysInv, PressInv
    <2>2. key[k] \in Scanners /\ press[k] \in Presses /\ (key[k].step \in {0, 4} => key[k].down = 0)
      BY <2>1 DEF ScanType, KeysInv, PressInv
    <2>3. key[k].down <= LongTimes
      BY <2>1, <2>2, KeyAssumption DEF Fits, Scanners
    <2>4. CASE key[k].step = 0 /\ key[k].double = 0
      BY <2>1, <2>3, <2>4 DEF Fits, Quiet
    <2>5. CASE ~(key[k].step = 0 /\ key[k].double = 0)
      <3>1. press[k].short = 0 /\ (press[k].long = 0 \/ (press[k].long = 1 /\ ~press[k].double))
        BY <2>1, <2>2, <2>5 DEF Fits, Scanners
      <3> QED BY <2>3, <3>1
    <2> QED BY <2>4, <2>5
  <1> QED BY <1>1, KeysInit, KeysStep, PTL DEF Spec
================================================================================
