------------------------------- MODULE PanelKeys -------------------------------
(* The keys of the display board: bsp_led.c.                                    *)
(*                                                                              *)
(* power_Key and MainSwitch_Key are two copies of one state machine that tells  *)
(* short, long and double presses apart.  Each has its own step and counters,   *)
(* but KeyState is one variable for both, and MainSwitch_Key is only scanned    *)
(* while the device is on.  A long press of the mode key turns the ESD and PHT  *)
(* keys into the keys that set the timer.                                       *)
EXTENDS Integers

CONSTANTS
    LongTimes,     \* scans that make a press a long one (400)
    DoubleTimes,   \* scans in which a second press makes a double one (10)
    U16,           \* the largest value of KeyDownTimes (0xFFFF)
    Timers,        \* the timers, in hours, that a frame may bring
    MaxInputs      \* bound on the changes of the key pins and the other inputs

ASSUME KeyAssumption ==
    /\ LongTimes \in Nat \ {0} /\ DoubleTimes \in Nat \ {0}
    /\ U16 \in Nat /\ U16 > LongTimes /\ U16 > DoubleTimes
    /\ Timers \subseteq 0..12 /\ MaxInputs \in Nat

Keys == {"power", "mode"}
Other(k) == IF k = "power" THEN "mode" ELSE "power"

VARIABLES
    pin,       \* which keys are held down
    key,       \* KeyStep, KeyDownTimes and KeyDoubleTimes of both scanners
    KeyState,  \* shared by both
    scan,      \* the next scanner of the main loop
    panel,     \* power state and mode shown, key4, and the setting of the timer
    digits,    \* count3 and count2
    report,    \* power_key_state, mode_key_state and the Wi-Fi reset bit
    press,     \* history: what the press under way, or the last one, has led to
    alone,     \* history: the other key was at rest all through that press
    inputs     \* changes of the inputs so far

vars == <<pin, key, KeyState, scan, panel, digits, report, press, alone, inputs>>

NoKey == 255
NoPress == [short |-> 0, long |-> 0, double |-> FALSE]

--------------------------------------------------------------------------------
\* The user and the main board

Pin(k) ==
    /\ inputs < MaxInputs /\ inputs' = inputs + 1
    /\ pin' = [pin EXCEPT ![k] = ~@]
    /\ UNCHANGED <<key, KeyState, scan, panel, digits, report, press, alone>>

\* device_work_mode_check, with the settings that a frame has brought.  When the device is
\* off, onoff_device_set first moves the digits into timing_state; outside of timer setting
\* the digits follow the timer.
device_work_mode_check(on, mode, timing) ==
    /\ panel' = [panel EXCEPT !.on = on, !.mode = mode,
                    !.timing = IF panel.key4 = 0 /\ ~on THEN 10 * digits.tens + digits.ones
                                                        ELSE timing]
    /\ digits' = IF panel.key4 # 0 THEN [tens |-> timing \div 10, ones |-> timing % 10]
                 ELSE IF on THEN digits ELSE [tens |-> 0, ones |-> 0]

\* The answer to an F1 frame takes one key with it.
Reported ==
    IF report.power # NoKey THEN [report EXCEPT !.power = NoKey]
                            ELSE [report EXCEPT !.mode = NoKey]

\* cmd_uart_check, between two rounds of the scanners: the state of the device (F2), whose
\* fault byte is stored apart from the one with the Wi-Fi reset bit, or one setting (F1), which
\* is answered.
FrameF2 ==
    /\ \E on \in BOOLEAN, mode \in 1..2 : device_work_mode_check(on, mode, panel.timing)
    /\ UNCHANGED report

FrameF1 ==
    /\ \/ \E on \in BOOLEAN : device_work_mode_check(on, panel.mode, panel.timing)
       \/ \E mode \in 1..2 : device_work_mode_check(panel.on, mode, panel.timing)
       \/ \E timing \in Timers : device_work_mode_check(panel.on, panel.mode, timing)
    /\ report' = Reported

Frame ==
    /\ scan = "power" /\ inputs < MaxInputs /\ inputs' = inputs + 1
    /\ FrameF1 \/ FrameF2
    /\ UNCHANGED <<pin, key, KeyState, scan, press, alone>>

\* Key_Scan, the ESD key while the timer is set: one hour more, up to twelve.
Longer(d) ==
    LET ones == IF d.ones + 1 = 10 THEN 0 ELSE d.ones + 1
        tens == IF d.ones + 1 = 10 THEN 1 ELSE d.tens
    IN  [tens |-> tens, ones |-> IF tens = 1 /\ ones >= 3 THEN 2 ELSE ones]

\* [mutant] The PHT key does not borrow from the tens.
Shorter_NoBorrow(d) == [tens |-> d.tens, ones |-> (d.ones - 1) % 10]

\* The PHT key: one hour less.
Shorter(d) ==
    LET borrow == d.tens = 1 /\ d.ones = 0
        ones   == IF borrow THEN 10 ELSE d.ones
    IN  [tens |-> IF borrow THEN 0 ELSE d.tens, ones |-> IF ones > 0 THEN ones - 1 ELSE 0]

SetTimer ==
    /\ scan = "power" /\ panel.on /\ panel.key4 = 0
    /\ inputs < MaxInputs /\ inputs' = inputs + 1
    /\ digits' \in {Longer(digits), Shorter(digits)}
    /\ UNCHANGED <<pin, key, KeyState, scan, panel, report, press, alone>>

--------------------------------------------------------------------------------
\* power_Key and MainSwitch_Key

\* What a short press does.
Short(k) ==
    /\ press' = [press EXCEPT ![k].short = @ + 1]
    /\ IF k = "power"
       THEN report' = [report EXCEPT !.power = IF panel.on THEN 0 ELSE 1] /\ UNCHANGED panel
       ELSE IF panel.key4 = 0
       THEN panel' = [panel EXCEPT !.key4 = 1] /\ UNCHANGED report
       ELSE report' = [report EXCEPT !.mode = IF panel.mode = 0 THEN @ ELSE 3 - panel.mode]
            /\ UNCHANGED panel

\* What a long press does: the Wi-Fi module is to be reset, or the timer is to be set.
Long(k) ==
    /\ press' = [press EXCEPT ![k].long = @ + 1]
    /\ IF k = "power"
       THEN report' = [report EXCEPT !.reset = @ \/ panel.on] /\ UNCHANGED panel
       ELSE panel' = [panel EXCEPT !.key4 = 0] /\ UNCHANGED report

Nothing == UNCHANGED <<panel, report, press>>

\* Step 0, key down: a first press, or the second one of a double press.
Down(k) ==
    /\ key[k].step = 0 /\ pin[k]
    /\ KeyState' = "down"
    /\ IF key[k].double > 0
       THEN /\ key' = [key EXCEPT ![k].step = 4]
            /\ press' = [press EXCEPT ![k].double = TRUE]
       ELSE /\ key' = [key EXCEPT ![k].step = 2]
            /\ press' = [press EXCEPT ![k] = NoPress]
    /\ UNCHANGED <<panel, report>>

\* The time for a second press is over after a short one.
Acts(k) == key[k].double = 1 /\ KeyState = "short"

\* [mutant] The unsigned counter is decremented without a look at it.
Remaining_Unchecked(k) == (key[k].double - 1) % (U16 + 1)

Remaining(k) == IF key[k].double > 0 THEN key[k].double - 1 ELSE 0

\* Step 0, key up: the time for a second press runs out.
Released(k) ==
    /\ key[k].step = 0 /\ ~pin[k]
    /\ key' = [key EXCEPT ![k].double = Remaining(k)]
    /\ IF Acts(k) THEN Short(k) /\ KeyState' = "up" ELSE Nothing /\ UNCHANGED KeyState

\* [mutant] A held key acts on every scan.
BecomesLong_Repeats == TRUE

\* The press has just become a long one.
BecomesLong == KeyState # "long"

\* [mutant] The count is not reset.
Capped_Not(down) == down

\* The count of a key that stays down.
Capped(down) == LongTimes

\* Step 1: the time the key is down is counted.
Held(k) ==
    LET down == (key[k].down + 1) % (U16 + 1)
    IN  /\ key[k].step = 1 /\ pin[k]
        /\ IF down < LongTimes
           THEN KeyState' = "short" /\ key' = [key EXCEPT ![k].down = down] /\ Nothing
           ELSE IF BecomesLong
           THEN KeyState' = "long" /\ key' = [key EXCEPT ![k].down = down] /\ Long(k)
           ELSE key' = [key EXCEPT ![k].down = Capped(down)] /\ UNCHANGED KeyState /\ Nothing

\* Steps 1, 2 and 3 while the key bounces.
Bounced(k) ==
    /\ \/ key[k].step = 1 /\ ~pin[k] /\ key' = [key EXCEPT ![k].step = 2]
       \/ key[k].step = 2 /\ key' = [key EXCEPT ![k].step = IF pin[k] THEN 1 ELSE 3]
       \/ key[k].step = 3 /\ pin[k] /\ key' = [key EXCEPT ![k].step = 2]
    /\ UNCHANGED KeyState /\ Nothing

\* [mutant] The wait for a second press follows a long press.
Pause_Inverted(k) == IF key[k].down >= LongTimes THEN DoubleTimes ELSE key[k].double

\* A short press is followed by the wait for a second one.
Pause(k) == IF key[k].down < LongTimes THEN DoubleTimes ELSE key[k].double

\* Step 3: the key is up for good.
Ended(k) ==
    /\ key[k].step = 3 /\ ~pin[k]
    /\ key' = [key EXCEPT ![k] = [step |-> 0, down |-> 0, double |-> Pause(k)]]
    /\ UNCHANGED KeyState /\ Nothing

\* Step 4: the end of a double press, which does nothing.
Doubled(k) ==
    /\ key[k].step = 4
    /\ IF pin[k] THEN UNCHANGED <<key, KeyState>>
       ELSE key' = [key EXCEPT ![k].step = 0] /\ KeyState' = "up"
    /\ Nothing

AtRest(k) == ~pin[k] /\ key[k].step = 0 /\ key[k].double = 0

ScanKey(k) ==
    /\ Down(k) \/ Released(k) \/ Held(k) \/ Bounced(k) \/ Ended(k) \/ Doubled(k)
    /\ LET begins == pin[k] /\ key[k].step = 0 /\ key[k].double = 0
       IN  alone' = [j \in Keys |-> (alone[j] \/ (j = k /\ begins)) /\ AtRest(Other(j))]

power_Key ==
    /\ scan = "power" /\ ScanKey("power")
    /\ scan' = "mode" /\ UNCHANGED <<pin, digits, inputs>>

\* The mode key is only looked at while the device is on.
MainSwitch_Key ==
    /\ scan = "mode"
    /\ IF panel.on THEN ScanKey("mode") ELSE UNCHANGED <<key, KeyState, panel, report, press, alone>>
    /\ scan' = "power" /\ UNCHANGED <<pin, digits, inputs>>

--------------------------------------------------------------------------------
Init ==
    /\ pin = [k \in Keys |-> FALSE]
    /\ key = [k \in Keys |-> [step |-> 0, down |-> 0, double |-> 0]]
    /\ KeyState = "up" /\ scan = "power"
    /\ panel = [on |-> TRUE, mode |-> 0, key4 |-> 1, timing |-> 0]
    /\ digits = [tens |-> 0, ones |-> 0]
    /\ report = [power |-> NoKey, mode |-> NoKey, reset |-> FALSE]
    /\ press = [k \in Keys |-> NoPress] /\ alone = [k \in Keys |-> TRUE]
    /\ inputs = 0

Next ==
    \/ power_Key \/ MainSwitch_Key
    \/ \E k \in Keys : Pin(k)
    \/ Frame \/ SetTimer

Spec == Init /\ [][Next]_vars

\* The main loop scans the keys for ever.
FairSpec == Spec /\ WF_vars(power_Key) /\ WF_vars(MainSwitch_Key)

--------------------------------------------------------------------------------
\* Properties

TypeOK ==
    /\ pin \in [Keys -> BOOLEAN]
    /\ key \in [Keys -> [step : 0..4, down : 0..U16, double : 0..DoubleTimes]]
    /\ KeyState \in {"up", "down", "short", "long"}
    /\ scan \in Keys
    /\ panel \in [on : BOOLEAN, mode : 0..2, key4 : 0..1, timing : 0..12]
    /\ report \in [power : {0, 1, NoKey}, mode : {1, 2, NoKey}, reset : BOOLEAN]
    /\ press \in [Keys -> [short : Nat, long : Nat, double : BOOLEAN]]
    /\ alone \in [Keys -> BOOLEAN]
    /\ inputs \in 0..MaxInputs

\* The two digits of the timer never leave 0 to 12 hours, by whatever mixture of key
\* presses and frames.
TimerDigits == digits.tens \in 0..1 /\ digits.ones \in 0..9 /\ 10 * digits.tens + digits.ones <= 12

\* A press has one effect at most while the other key is at rest: a short one, a long one
\* (once, however long it lasts), or, when a second press follows in time, none.  (With the
\* other key in between, KeyState, which is shared, can make a long press act again.)
OneEffectPerPress ==
    \A k \in Keys : alone[k] =>
        press[k].short + press[k].long + (IF press[k].double THEN 1 ELSE 0) <= 1

\* While the other key is at rest, the count of a key stops at 400 ("防止加满溢出", it keeps
\* the counter from overflowing); the other key can make it run on through KeyState.
CountStops == \A k \in Keys : alone[k] => key[k].down <= LongTimes

\* A press that is counted at all has an effect in the end, unless a second press makes it a
\* double one, the other key comes in between, or the device is off.
PressHasEffect ==
    \A k \in Keys :
        (key[k].down > 0 /\ alone[k])
            ~> \/ press[k].short > 0 \/ press[k].long > 0 \/ press[k].double
               \/ ~alone[k] \/ ~panel.on
================================================================================
