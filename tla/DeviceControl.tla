----------------------------- MODULE DeviceControl -----------------------------
(* The settings of the air cleaner, its outputs and the shut-off timer:         *)
(* application.c (set_device_work_mode, airclean_power_onoff,                   *)
(* airclean_work_auto_handle, thread_entry_power_monitor, the boot sequence)    *)
(* and the parameter store of wifi_mod_uart.c.                                  *)
(*                                                                              *)
(* Three threads change the same settings: the Wi-Fi decoder executes commands  *)
(* of the phone, the display thread those of the keys, and the power monitor    *)
(* counts the timer down and drives the outputs.  No lock protects the          *)
(* settings; modbus_mutex only protects the bus, and a thread that waits for it *)
(* leaves its work half done.                                                   *)
EXTENDS Integers

CONSTANTS
    WifiCommands,   \* the <<type, data>> pairs the phone may send
    DispCommands,   \* the <<type, data>> pairs the display board may send
    Unit,           \* passes of the power monitor per timer unit (0.01*60*60)
    CntMax,         \* where power_tim_cnt saturates (0xFFFFFFFF)
    Top,            \* the largest byte (0xFF)
    Rooms,          \* the rooms with a sensor (5)
    Air,            \* the readings of all rooms that occur
    MaxInputs       \* bound on the commands and power losses of a behaviour

Byte == 0..Top

ASSUME CommandAssumption ==
    /\ WifiCommands \subseteq (2..7) \X Byte
    /\ DispCommands \subseteq (2..7) \X Byte

ASSUME AirAssumption == Air \subseteq [Rooms -> [pm : Nat, co2 : Nat]]

ASSUME TimerAssumption ==
    /\ Unit \in Nat \ {0} /\ MaxInputs \in Nat
    /\ CntMax \in Nat \ {0}
    /\ Top \in Nat /\ Top > 12

VARIABLES
    dev,     \* the first six bytes of device_work_data
    bak,     \* device_work_data_bak
    flash,   \* the parameter block: written flag and data, in different pages
    out,     \* the output pins: ESD, PHT and the speed of the AC motor
    cnt,     \* power_tim_cnt
    pre,     \* power_state_pre
    mutex,   \* holder of modbus_mutex
    pc,      \* what each thread does next
    cmd,     \* the command that the Wi-Fi and the display thread execute
    inputs,  \* commands and power losses so far
    overlap, \* history: a command replaced device_work_data_bak before the other thread's
             \* comparison with it, and no save has made up for it since
    torn     \* history: the block was read between the two writes of the very first save

vars == <<dev, bak, flash, out, cnt, pre, mutex, pc, cmd, inputs, overlap, torn>>

Settings == [power : Byte, mode : Byte, wind : Byte, hp : Byte, pht : Byte, timing : Byte]
Outputs  == [esd : BOOLEAN, pht : BOOLEAN, motor : 0..3]

Labels == {"idle", "query", "set", "offFlag", "offData", "offPins", "tell", "compare", "data",
           "latch", "count", "check", "drive", "again", "motor"}
Callers == {"wifi", "disp"}      \* the threads that call set_device_work_mode
Threads == Callers \cup {"power"}
NoCommand == <<2, 0>>

AllZero == [power |-> 0, mode |-> 0, wind |-> 0, hp |-> 0, pht |-> 0, timing |-> 0]
Blank == [f \in DOMAIN AllZero |-> Top]
Off == [esd |-> FALSE, pht |-> FALSE, motor |-> 0]

--------------------------------------------------------------------------------
\* Helpers

Flag(v) == IF v # 0 THEN 1 ELSE 0

\* ac_ac_motor_set: any value but 1, 2 and 3 switches every winding off.
MotorSpeed(v) == IF v \in 1..3 THEN v ELSE 0

\* ac_esd_set, ac_pht_set and ac_ac_motor_set with the settings d.
Driven(d) == [esd |-> d.hp # 0, pht |-> d.pht # 0, motor |-> MotorSpeed(d.wind)]

\* [mutant] The block is used whether or not it was ever written.
Loaded_Blank(d) == flash.data

\* device_sys_para_get
Loaded(d) == IF flash.written THEN flash.data ELSE d

\* airclean_power_onoff(1); the block may be half of a first save.
PowerOn(d) ==
    /\ dev' = [Loaded(d) EXCEPT !.power = 1]
    /\ out' = Driven(Loaded(d))
    /\ torn' = (torn \/ (flash.written /\ flash.data = Blank))

Goto(t, label) == pc' = [pc EXCEPT ![t] = label]

\* Thread t is between the copy to device_work_data_bak and the comparison with it.
InCommand(t) == pc[t] \in {"set", "offFlag", "offData", "offPins", "tell", "compare"}

\* set_device_work_mode: only power and mode may be set in automatic mode or when off.
Rejected(type) == type \notin {2, 3} /\ (dev.mode = 1 \/ dev.power = 0)

\* The settings after the command, for the commands that are plain assignments.
Assigned(type, data) ==
    CASE type = 3 -> IF data \in {1, 2} THEN [dev EXCEPT !.mode = data] ELSE dev
      [] type = 4 -> [dev EXCEPT !.hp = Flag(data)]
      [] type = 5 -> [dev EXCEPT !.pht = Flag(data)]
      [] type = 6 -> [dev EXCEPT !.timing = IF data <= 12 THEN data ELSE 0]
      [] type = 7 -> IF data <= 3 THEN [dev EXCEPT !.wind = data] ELSE dev

\* The pins that the command drives itself.
Pins(type, data) ==
    CASE type = 5 -> [out EXCEPT !.pht = data # 0]
      [] type = 7 -> [out EXCEPT !.motor = MotorSpeed(data)]
      [] OTHER    -> out

--------------------------------------------------------------------------------
\* rt_main_thread_entry and device_state_init, with blank or written flash; a device that
\* reads mode 0 gets its defaults, which are not saved.
BootSettings(f) ==
    LET d == [(IF f.written THEN f.data ELSE AllZero) EXCEPT !.power = 1]
    IN  IF d.mode = 0 THEN [d EXCEPT !.mode = 2, !.hp = 1, !.pht = 1] ELSE d

BootOutputs(f) ==
    IF (IF f.written THEN f.data ELSE AllZero).mode = 0
    THEN [esd |-> TRUE, pht |-> TRUE, motor |-> 1]
    ELSE Driven(f.data)

Start == [wifi |-> "idle", disp |-> "idle", power |-> "latch"]

Init ==
    /\ flash = [written |-> FALSE, data |-> Blank]
    /\ dev = BootSettings(flash) /\ out = BootOutputs(flash)
    /\ bak = AllZero
    /\ cnt = 0 /\ pre = Top
    /\ mutex = "none"
    /\ pc = Start /\ cmd = [t \in Callers |-> NoCommand]
    /\ inputs = 0
    /\ overlap = FALSE /\ torn = FALSE

\* The mains fail, in any step of any thread, and come back.
Reboot ==
    /\ inputs < MaxInputs /\ inputs' = inputs + 1
    /\ dev' = BootSettings(flash) /\ out' = BootOutputs(flash)
    /\ bak' = AllZero
    /\ cnt' = 0 /\ pre' = Top
    /\ mutex' = "none"
    /\ pc' = Start /\ cmd' = [t \in Callers |-> NoCommand]
    /\ overlap' = FALSE
    /\ torn' = (torn \/ (flash.written /\ flash.data = Blank))
    /\ UNCHANGED flash

\* The Wi-Fi thread (priority 8) runs until it has nothing to do or waits for the bus; only
\* then do the display thread and the power monitor (priority 9) run.
CanRun(t) == t = "wifi" \/ pc["wifi"] \in {"idle", "tell"}

--------------------------------------------------------------------------------
\* set_device_work_mode, called by the Wi-Fi decoder and by the display thread

\* A command arrives that is not rejected: the settings are copied to device_work_data_bak,
\* whatever the other thread is going to compare them with.
Begin(t, c) ==
    /\ CanRun(t) /\ pc[t] = IF t = "wifi" THEN "idle" ELSE "query"
    /\ inputs < MaxInputs /\ inputs' = inputs + 1
    /\ ~Rejected(c[1])
    /\ bak' = dev
    /\ cmd' = [cmd EXCEPT ![t] = c] /\ Goto(t, "set")
    /\ overlap' = (overlap \/ \E u \in Callers \ {t} : InCommand(u))
    /\ UNCHANGED <<dev, flash, out, cnt, pre, mutex, torn>>

\* Where a thread goes on after the assignments: the Wi-Fi thread tells the display board.
After(t) == [wifi |-> "tell", disp |-> "compare", power |-> "latch"][t]

SetPower(t) ==
    /\ CanRun(t) /\ pc[t] = "set" /\ cmd[t][1] = 2
    /\ IF cmd[t][2] # 0
       THEN PowerOn([dev EXCEPT !.power = 1]) /\ Goto(t, After(t))
       ELSE dev' = [dev EXCEPT !.power = 0] /\ Goto(t, "offFlag") /\ UNCHANGED <<out, torn>>
    /\ cmd' = [cmd EXCEPT ![t] = NoCommand]
    /\ UNCHANGED <<bak, flash, cnt, pre, mutex, inputs, overlap>>

SetOther(t) ==
    /\ CanRun(t) /\ pc[t] = "set" /\ cmd[t][1] # 2
    /\ dev' = Assigned(cmd[t][1], cmd[t][2]) /\ out' = Pins(cmd[t][1], cmd[t][2])
    /\ Goto(t, After(t))
    /\ cmd' = [cmd EXCEPT ![t] = NoCommand]
    /\ UNCHANGED <<bak, flash, cnt, pre, mutex, inputs, overlap, torn>>

\* [mutant] The display thread forgets the mutex.
Return_Forgets(t) == Goto(t, "idle") /\ UNCHANGED mutex

\* The end of a command; the display thread gives modbus_mutex back.
Return(t) == Goto(t, "idle") /\ mutex' = IF t = "disp" THEN "none" ELSE mutex

\* [mutant] Only a change of the power state is saved.
Changed_PowerOnly == bak.power # dev.power

\* The comparison at the end of set_device_work_mode, with the values of that moment.
Changed == bak # dev

Compare(t) ==
    /\ CanRun(t) /\ pc[t] = "compare"
    /\ IF Changed
       THEN flash' = [flash EXCEPT !.written = TRUE] /\ Goto(t, "data") /\ UNCHANGED mutex
       ELSE Return(t) /\ UNCHANGED flash
    /\ UNCHANGED <<dev, bak, out, cnt, pre, cmd, inputs, overlap, torn>>

--------------------------------------------------------------------------------
\* device_sys_para_save writes the flag and then the data, and airclean_power_onoff(0) saves
\* before it switches the outputs off and clears the power state

SaveFlag(t) ==
    /\ CanRun(t) /\ pc[t] = "offFlag"
    /\ flash' = [flash EXCEPT !.written = TRUE]
    /\ Goto(t, "offData")
    /\ UNCHANGED <<dev, bak, out, cnt, pre, mutex, cmd, inputs, overlap, torn>>

\* With everything saved an overlap is made up for, but not for a command under way.
SaveData(t) ==
    /\ CanRun(t) /\ pc[t] \in {"offData", "data"}
    /\ flash' = [flash EXCEPT !.data = dev]
    /\ overlap' = (overlap /\ \E u \in Callers \ {t} : InCommand(u))
    /\ IF pc[t] = "data" THEN Return(t) ELSE Goto(t, "offPins") /\ UNCHANGED mutex
    /\ UNCHANGED <<dev, bak, out, cnt, pre, cmd, inputs, torn>>

OffPins(t) ==
    /\ CanRun(t) /\ pc[t] = "offPins"
    /\ out' = Off /\ dev' = [dev EXCEPT !.power = 0]
    /\ Goto(t, After(t))
    /\ UNCHANGED <<bak, flash, cnt, pre, mutex, cmd, inputs, overlap, torn>>

--------------------------------------------------------------------------------
\* The Wi-Fi decoder and the display thread

\* set_dispboard_function_mode: a request to the display board, with modbus_mutex held.
WifiTell ==
    /\ pc["wifi"] = "tell" /\ mutex = "none"
    /\ Goto("wifi", "compare")
    /\ UNCHANGED <<dev, bak, flash, out, cnt, pre, mutex, cmd, inputs, overlap, torn>>

\* get_display_board_data
DispQuery ==
    /\ CanRun("disp") /\ pc["disp"] = "idle" /\ mutex = "none"
    /\ mutex' = "disp" /\ Goto("disp", "query")
    /\ UNCHANGED <<dev, bak, flash, out, cnt, pre, cmd, inputs, overlap, torn>>

\* No answer, an answer that is no command, or a command that is rejected.
DispNothing ==
    /\ CanRun("disp") /\ pc["disp"] = "query"
    /\ Return("disp")
    /\ UNCHANGED <<dev, bak, flash, out, cnt, pre, cmd, inputs, overlap, torn>>

Execute(t) == SetPower(t) \/ SetOther(t) \/ SaveFlag(t) \/ SaveData(t) \/ OffPins(t) \/ Compare(t)

Wifi == (\E c \in WifiCommands : Begin("wifi", c)) \/ Execute("wifi") \/ WifiTell
Disp == (\E c \in DispCommands : Begin("disp", c)) \/ Execute("disp") \/ DispQuery \/ DispNothing

--------------------------------------------------------------------------------
\* The power monitor thread: thread_entry_power_monitor

\* [mutant] Every pass restarts the counter of a timer that is set.
Restarted_Always == dev.timing # 0

\* A new timer setting restarts the counter.
Restarted == dev.timing # 0 /\ (pre = Top \/ pre # dev.timing)

\* [mutant] The counter passes its largest value.
Counted_OffByOne == IF cnt <= CntMax THEN cnt + 1 ELSE cnt

\* power_tim_cnt++, up to its largest value.
Counted == IF cnt < CntMax THEN cnt + 1 ELSE cnt

\* A step of the power monitor that is not part of its save.
Monitor(label) ==
    /\ CanRun("power") /\ pc["power"] = label
    /\ UNCHANGED <<bak, flash, mutex, cmd, inputs, overlap, torn>>

\* The setting is noted and the pass counted.
PowerLatch ==
    /\ Monitor("latch")
    /\ pre' = dev.timing
    /\ cnt' = IF Restarted THEN 1 ELSE Counted
    /\ Goto("power", "count")
    /\ UNCHANGED <<dev, out>>

\* A unit is over: timing_state -= 1 on an unsigned byte.
PowerCount ==
    /\ Monitor("count")
    /\ dev' = IF cnt = Unit /\ pre # 0 THEN [dev EXCEPT !.timing = (@ - 1) % (Top + 1)] ELSE dev
    /\ Goto("power", "check")
    /\ UNCHANGED <<out, cnt, pre>>

Expired == cnt > dev.timing * Unit /\ pre # 0

\* The timer has run out, or the outputs are driven.
PowerCheck ==
    /\ Monitor("check")
    /\ IF Expired
       THEN /\ dev' = [dev EXCEPT !.power = 0, !.timing = 0]
            /\ cnt' = 0 /\ pre' = Top
            /\ Goto("power", "tell")
       ELSE Goto("power", "drive") /\ UNCHANGED <<dev, cnt, pre>>
    /\ UNCHANGED out

\* The display board is told; then airclean_power_onoff(0).
PowerTell ==
    /\ Monitor("tell") /\ mutex = "none"
    /\ Goto("power", "offFlag")
    /\ UNCHANGED <<dev, out, cnt, pre>>

\* A room whose sensor has delivered nothing reads zero.
Present(air) == {h \in Rooms : air[h].pm # 0 \/ air[h].co2 # 0}

\* [mutant] A room without a sensor counts as clean.
AutoLevel_CountsAbsent(air) ==
    IF \E h \in Rooms : air[h].pm > 134 \/ air[h].co2 > 2500 THEN 3
    ELSE IF \E h \in Rooms : air[h].pm > 96 \/ air[h].co2 > 1300 THEN 2
    ELSE IF \E h \in Rooms : air[h].pm < 55 /\ air[h].co2 < 730 THEN 0
    ELSE IF \E h \in Rooms : air[h].pm < 91 /\ air[h].co2 < 1290 THEN 1
    ELSE 0

\* The four passes over the rooms; the first room that meets a condition decides.
AutoLevel(air) ==
    IF \E h \in Present(air) : air[h].pm > 134 \/ air[h].co2 > 2500 THEN 3
    ELSE IF \E h \in Present(air) : air[h].pm > 96 \/ air[h].co2 > 1300 THEN 2
    ELSE IF \E h \in Present(air) : air[h].pm < 55 /\ air[h].co2 < 730 THEN 0
    ELSE IF \E h \in Present(air) : air[h].pm < 91 /\ air[h].co2 < 1290 THEN 1
    ELSE 0

\* airclean_work_auto_handle, automatic mode: the readings choose the level.
DriveAuto(air) ==
    /\ Monitor("drive") /\ dev.power # 0 /\ dev.mode = 1
    /\ dev' = [dev EXCEPT !.wind = AutoLevel(air)]
    /\ out' = [esd |-> AutoLevel(air) # 0, pht |-> AutoLevel(air) # 0, motor |-> AutoLevel(air)]
    /\ Goto("power", "motor")
    /\ UNCHANGED <<cnt, pre>>

\* Manual mode: a speed of 0 is first raised to 1, and the motor set twice.
DriveManual ==
    /\ Monitor("drive") /\ dev.power # 0 /\ dev.mode = 2
    /\ IF dev.wind = 0
       THEN dev' = [dev EXCEPT !.wind = 1] /\ Goto("power", "again")
       ELSE UNCHANGED dev /\ Goto("power", "motor")
    /\ out' = Driven(dev')
    /\ UNCHANGED <<cnt, pre>>

DriveNothing ==
    /\ Monitor("drive") /\ (dev.power = 0 \/ dev.mode \notin {1, 2})
    /\ Goto("power", "latch")
    /\ UNCHANGED <<dev, out, cnt, pre>>

\* airclean_motor_set composes the frame of the DC motor with modbus_mutex held.
\* After the first of two calls the speed of that moment is set.
MotorAgain ==
    /\ Monitor("again") /\ mutex = "none"
    /\ out' = [out EXCEPT !.motor = MotorSpeed(dev.wind)]
    /\ Goto("power", "motor")
    /\ UNCHANGED <<dev, cnt, pre>>

MotorFrame ==
    /\ Monitor("motor") /\ mutex = "none"
    /\ Goto("power", "latch")
    /\ UNCHANGED <<dev, out, cnt, pre>>

PowerMonitor ==
    \/ PowerLatch \/ PowerCount \/ PowerCheck \/ PowerTell
    \/ SaveFlag("power") \/ SaveData("power") \/ OffPins("power")
    \/ (\E air \in Air : DriveAuto(air)) \/ DriveManual \/ DriveNothing
    \/ MotorAgain \/ MotorFrame

--------------------------------------------------------------------------------
Next == Wifi \/ Disp \/ PowerMonitor \/ Reboot

Spec == Init /\ [][Next]_vars

\* modbus_mutex is handed over in FIFO order, so that nobody waits for it for ever; a thread
\* that does not wait runs when no thread of higher priority does.
Fairness ==
    /\ SF_vars(WifiTell) /\ WF_vars(Execute("wifi"))
    /\ WF_vars(DispNothing) /\ WF_vars(Execute("disp"))
    /\ SF_vars(PowerTell) /\ SF_vars(MotorAgain) /\ SF_vars(MotorFrame)
    /\ WF_vars(PowerMonitor)

FairSpec == Spec /\ Fairness

--------------------------------------------------------------------------------
\* Properties

\* Type invariant; in particular power_tim_cnt stops at its largest value.
TypeOK ==
    /\ dev \in Settings /\ bak \in Settings
    /\ flash \in [written : BOOLEAN, data : Settings]
    /\ out \in Outputs
    /\ cnt \in 0..CntMax /\ pre \in Byte
    /\ mutex \in {"none", "disp"}
    /\ pc \in [Threads -> Labels]
    /\ cmd \in [Callers -> (2..7) \X Byte]
    /\ inputs \in 0..MaxInputs
    /\ overlap \in BOOLEAN /\ torn \in BOOLEAN

\* A thread is between the two writes of a save.
Saving == \E t \in Threads : pc[t] \in {"offData", "data"}

\* No command is under way.
Quiet == \A t \in Callers : ~InCommand(t)

\* When no command and no save is under way the flash holds the mode, ESD and PHT settings in
\* use, so that a power cut does not bring older ones back (the comparison with
\* device_work_data_bak at the end of set_device_work_mode).  Both threads use the one
\* device_work_data_bak: a setting can be in use and not saved only after the commands of the
\* two overlapped, and until the next save.
SettingsAreSaved ==
    flash.written /\ ~overlap /\ ~Saving /\ Quiet
        => flash.data.mode = dev.mode /\ flash.data.hp = dev.hp /\ flash.data.pht = dev.pht

\* The device is in automatic or manual mode, and so is the saved parameter block, through
\* power cuts, reloads and saves of any thread: airclean_work_auto_handle drives nothing in
\* any other mode, and rt_main_thread_entry only repairs mode 0.  The exception is a cut or a
\* reload between the two writes of the very first save, whose flag comes first: the blank
\* block is then taken for settings, with mode 0xFF.
ModeIsKnown ==
    torn \/ (dev.mode \in {1, 2} /\ (flash.written => flash.data.mode \in {1, 2} \/ Saving))

\* The reference for the level of automatic mode: the air of a room is graded, and the worst
\* and the best grade decide.  It is compared at both sides of every limit.
Grade(v, limits) ==
    IF v < limits[1] THEN 0 ELSE IF v < limits[2] THEN 1 ELSE IF v <= limits[3] THEN 2
    ELSE IF v <= limits[4] THEN 3 ELSE 4
PmLimits  == <<55, 91, 96, 134>>
Co2Limits == <<730, 1290, 1300, 2500>>
Edges(limits) == {0} \cup UNION {{limits[i] - 1, limits[i], limits[i] + 1} : i \in 1..4}
LevelOf(grades) ==
    LET worst == CHOOSE g \in grades : \A x \in grades : x <= g
        best  == CHOOSE g \in grades : \A x \in grades : x >= g
    IN  IF worst > 2 THEN worst - 1 ELSE IF best = 1 THEN 1 ELSE 0
LevelsAtEdges ==
    \A air \in [Rooms -> [pm : Edges(PmLimits), co2 : Edges(Co2Limits)]] :
        LET grades == {LET p == Grade(air[h].pm, PmLimits)
                           c == Grade(air[h].co2, Co2Limits)
                       IN  IF p > c THEN p ELSE c : h \in Present(air)}
        IN  AutoLevel(air) = IF grades = {} THEN 0 ELSE LevelOf(grades)

\* When the power monitor chooses a level in automatic mode, the four passes in which one room
\* decides come to what the worst and the best air of the rooms with a sensor ask for: bad air
\* anywhere decides, then clean air anywhere switches off.  (Air between the limits of levels
\* 1 and 2, at most 96 but not below 91, switches off as well.)
LevelIsOfWorstOrBest == pc["power"] = "drive" /\ dev.power # 0 /\ dev.mode = 1 => LevelsAtEdges

\* The first pass of the power monitor after a boot or a shut-off.
Restarting == pc["power"] = "latch" /\ cnt = 0 /\ pre = Top

\* A timer of 1 to 12 units that is left alone, by commands and by power cuts, runs out and
\* switches the device off, whatever counts, notes and saves were under way when it was set
\* (thread_entry_power_monitor).
TimerRunsOut ==
    dev.timing \in 1..12 /\ Quiet ~> (~Quiet \/ Restarting \/ (dev.power = 0 /\ dev.timing = 0))

\* A command of the phone is completed: set_device_work_mode gets the bus from the display
\* thread and the power monitor, and returns.
CommandsFinish == InCommand("wifi") ~> pc["wifi"] = "idle"

\* "0 off, 1-12 hours" (the comment of return_current_device_state): the timer setting is 0
\* or 1 to 12, also while the power monitor counts it down and the phone cancels it.
TimingRange == dev.timing \in 0..12

\* "mode, 0 off" (the comment of airclean_power_onoff): a device that is switched off, and
\* not switched on again, comes to a state in which its AC motor stands still.
PowerOffStopsMotor == dev.power = 0 ~> (out.motor = 0 \/ dev.power = 1)

================================================================================
