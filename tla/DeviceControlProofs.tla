-------------------------- MODULE DeviceControlProofs --------------------------
(* Proofs about the device control, for every set of commands, every unit and   *)
(* width of the timer and any number of commands and power losses.              *)
EXTENDS DeviceControl, TLAPS

USE DEF Byte

\* What the helpers return: Settings, outputs and parameter blocks of their types.
LEMMA DrivenType == ASSUME NEW d \in Settings PROVE Driven(d) \in Outputs
  BY DEF Driven, Outputs, Settings, MotorSpeed

\* device_sys_para_get returns settings.
LEMMA LoadedType ==
  ASSUME TypeOK, NEW d \in Settings PROVE Loaded(d) \in Settings
  BY DEF Loaded, TypeOK

\* The settings after a reset and the outputs of a device that is off.
LEMMA OffType == Off \in Outputs /\ AllZero \in Settings
  BY TimerAssumption DEF Off, AllZero, Outputs, Settings

\* The power state of settings is replaced.
LEMMA SwitchedType ==
  ASSUME NEW d \in Settings, NEW p \in {0, 1} PROVE [d EXCEPT !.power = p] \in Settings
  BY TimerAssumption DEF Settings

\* One byte of the settings is replaced.
LEMMA FieldType ==
  ASSUME NEW d \in Settings, NEW v \in Byte
  PROVE  /\ [d EXCEPT !.mode = v] \in Settings /\ [d EXCEPT !.hp = v] \in Settings
         /\ [d EXCEPT !.pht = v] \in Settings /\ [d EXCEPT !.timing = v] \in Settings
         /\ [d EXCEPT !.wind = v] \in Settings
  BY DEF Settings

\* The bytes a command may store.
LEMMA SmallBytes == 0 \in Byte /\ 1 \in Byte /\ 2 \in Byte
  BY TimerAssumption

\* A block that was written, and the settings in use, have a mode that is known.
Known(d) == d.mode \in {1, 2}

\* What a boot sets up from a flash block of the right type; a written block with a known
\* mode gives settings with one, and no boot leaves mode 0.
LEMMA BootType ==
  ASSUME NEW f \in [written : BOOLEAN, data : Settings]
  PROVE  /\ BootSettings(f) \in Settings /\ BootOutputs(f) \in Outputs
         /\ (f.written => Known(f.data)) => Known(BootSettings(f))
         /\ BootSettings(f).mode # 0
  <1> DEFINE r == IF f.written THEN f.data ELSE AllZero
  <1>1. r \in Settings /\ f.data \in Settings
    BY OffType
  <1>2. BootSettings(f) \in Settings
    <2> DEFINE d == [r EXCEPT !.power = 1]
    <2>1. d \in Settings
      BY <1>1, SwitchedType
    <2> HIDE DEF d
    <2>2. [[[d EXCEPT !.mode = 2] EXCEPT !.hp = 1] EXCEPT !.pht = 1] \in Settings
      BY <2>1, FieldType, SmallBytes
    <2>3. [d EXCEPT !.mode = 2, !.hp = 1, !.pht = 1]
              = [[[d EXCEPT !.mode = 2] EXCEPT !.hp = 1] EXCEPT !.pht = 1]
      BY <2>1 DEF Settings
    <2>4. BootSettings(f) = IF d.mode = 0 THEN [d EXCEPT !.mode = 2, !.hp = 1, !.pht = 1] ELSE d
      BY DEF BootSettings, d
    <2> QED BY <2>1, <2>2, <2>3, <2>4
  <1>3. BootOutputs(f) \in Outputs
    <2>1. [esd |-> TRUE, pht |-> TRUE, motor |-> 1] \in Outputs
      BY DEF Outputs
    <2>2. Driven(f.data) \in Outputs
      BY <1>1, DrivenType
    <2> QED BY <2>1, <2>2 DEF BootOutputs
  <1>4. (f.written => Known(f.data)) => Known(BootSettings(f))
    BY <1>1 DEF BootSettings, Settings, Known, AllZero
  <1>5. BootSettings(f).mode # 0
    BY <1>1 DEF BootSettings, Settings, AllZero
  <1> QED BY <1>2, <1>3, <1>4, <1>5

\* A command that is a plain assignment keeps the types and the known mode.
LEMMA AssignedType ==
  ASSUME TypeOK, NEW type \in 3..7, NEW data \in Byte
  PROVE  /\ Assigned(type, data) \in Settings /\ Pins(type, data) \in Outputs
         /\ Known(dev) => Known(Assigned(type, data))
         /\ dev.mode # 0 => Assigned(type, data).mode # 0
  <1>1. dev \in Settings /\ out \in Outputs
    BY DEF TypeOK
  <1>2. CASE type = 3
    BY <1>1, <1>2, TimerAssumption DEF Assigned, Pins, Settings, Outputs, Known
  <1>3. CASE type = 4
    BY <1>1, <1>3, TimerAssumption DEF Assigned, Pins, Settings, Outputs, Known, Flag
  <1>4. CASE type = 5
    <2>1. Assigned(type, data) = [dev EXCEPT !.pht = Flag(data)] /\ Flag(data) \in Byte
      BY <1>4, SmallBytes DEF Assigned, Flag
    <2>2. Pins(type, data) = [out EXCEPT !.pht = data # 0]
      BY <1>4 DEF Pins
    <2>3. [out EXCEPT !.pht = data # 0] \in Outputs
      BY <1>1 DEF Outputs
    <2>4. [dev EXCEPT !.pht = Flag(data)].mode = dev.mode
      BY <1>1 DEF Settings
    <2> QED BY <1>1, <2>1, <2>2, <2>3, <2>4, FieldType DEF Known
  <1>5. CASE type = 6
    BY <1>1, <1>5, TimerAssumption DEF Assigned, Pins, Settings, Outputs, Known
  <1>6. CASE type = 7
    BY <1>1, <1>6, TimerAssumption DEF Assigned, Pins, Settings, Outputs, Known, MotorSpeed
  <1> QED BY <1>2, <1>3, <1>4, <1>5, <1>6

--------------------------------------------------------------------------------
\* The types and the mode

\* Where a thread goes on after the assignments.
LEMMA AfterType ==
  ASSUME NEW t \in Threads
  PROVE  /\ After(t) \in Labels \ {"offData", "data"}
         /\ t \in Callers => After(t) \in {"tell", "compare"}
  BY DEF After, Threads, Callers, Labels

\* What a thread that goes on to a label leaves alone.
LEMMA GotoFacts ==
  ASSUME pc \in [Threads -> Labels], NEW t \in Threads, NEW l \in Labels, Goto(t, l)
  PROVE  /\ pc' \in [Threads -> Labels] /\ pc'[t] = l
         /\ \A u \in Threads \ {t} : pc'[u] = pc[u]
         /\ pc[t] \notin {"offData", "data"} => (Saving => Saving')
         /\ l \in {"offData", "data"} => Saving'
  BY DEF Goto, Saving

\* What a step keeps: the mode in use and the one in flash are never 0, and unless the block was
\* read between the two writes of the first save both are known; a block whose flag is written
\* and whose data are blank is being saved.
Sound ==
    /\ dev.mode # 0 /\ flash.data.mode # 0
    /\ torn \/ /\ Known(dev)
               /\ flash.data = Blank \/ Known(flash.data)
               /\ flash.written /\ flash.data = Blank => Saving

DevInv == TypeOK /\ Sound

\* A step that reads and writes no flash keeps Sound when it keeps the mode.
LEMMA SoundKept ==
  ASSUME Sound, UNCHANGED <<flash, torn>>, Saving => Saving',
         dev.mode # 0 => dev'.mode # 0, Known(dev) => Known(dev')
  PROVE  Sound'
  BY DEF Sound, Known

\* A boot or a reload keeps it, because a block that is half of a first save is noted.
LEMMA SoundRead ==
  ASSUME Sound, flash' = flash, torn' = (torn \/ (flash.written /\ flash.data = Blank)),
         dev'.mode # 0,
         Known(dev) /\ (flash.written => Known(flash.data)) => Known(dev')
  PROVE  Sound'
  BY DEF Sound

\* The invariant holds at the first boot, with blank flash.
LEMMA DevInit == Init => DevInv
  <1> SUFFICES ASSUME Init PROVE DevInv
    OBVIOUS
  <1>1. Blank \in Settings /\ Blank.mode # 0
    BY TimerAssumption DEF Settings, AllZero, Blank
  <1>2. flash \in [written : BOOLEAN, data : Settings] /\ flash.written = FALSE /\ flash.data = Blank
    BY <1>1 DEF Init
  <1>3. dev \in Settings /\ out \in Outputs /\ Known(dev) /\ dev.mode # 0
    BY <1>2, BootType DEF Init
  <1>4. pc \in [Threads -> Labels]
    BY DEF Init, Start, Threads, Callers, Labels
  <1>5. cmd \in [Callers -> (2..7) \X Byte]
    BY TimerAssumption DEF Init, NoCommand
  <1>6. /\ cnt \in 0..CntMax /\ pre \in Byte /\ inputs \in 0..MaxInputs /\ bak \in Settings
        /\ mutex \in {"none", "disp"} /\ overlap \in BOOLEAN /\ torn \in BOOLEAN
    <2>1. cnt = 0 /\ pre = Top /\ inputs = 0 /\ bak = AllZero /\ mutex = "none"
      BY DEF Init
    <2>2. overlap = FALSE /\ torn = FALSE
      BY DEF Init
    <2>3. cnt \in 0..CntMax /\ pre \in Byte /\ inputs \in 0..MaxInputs
      BY <2>1, TimerAssumption
    <2> QED BY <2>1, <2>2, <2>3, OffType
  <1>7. TypeOK
    BY <1>2, <1>3, <1>4, <1>5, <1>6 DEF TypeOK
  <1> QED BY <1>1, <1>2, <1>3, <1>7 DEF DevInv, Sound

\* A command begins.
LEMMA BeginStep ==
  ASSUME DevInv, NEW t \in Callers, NEW c \in WifiCommands \cup DispCommands, Begin(t, c)
  PROVE  DevInv'
  <1>1. TypeOK /\ Sound /\ t \in Threads /\ "set" \in Labels
    BY DEF DevInv, Threads, Labels
  <1>2. pc' \in [Threads -> Labels] /\ (Saving => Saving')
    <2>1. pc[t] \notin {"offData", "data"} /\ Goto(t, "set")
      BY DEF Begin
    <2> QED BY <1>1, <2>1, GotoFacts DEF TypeOK
  <1>3. c \in (2..7) \X Byte
    BY CommandAssumption
  <1>4. cmd' \in [Callers -> (2..7) \X Byte]
    BY <1>1, <1>3 DEF Begin, TypeOK
  <1>5. TypeOK'
    BY <1>1, <1>2, <1>4, TimerAssumption DEF Begin, TypeOK
  <1>6. Sound'
    BY <1>1, <1>2, SoundKept DEF Begin
  <1> QED BY <1>5, <1>6 DEF DevInv

\* The assignment of a power command.
LEMMA SetPowerStep ==
  ASSUME DevInv, NEW t \in Callers, SetPower(t)
  PROVE  DevInv'
  <1>1. TypeOK /\ Sound /\ t \in Threads /\ "offFlag" \in Labels /\ After(t) \in Labels
    BY AfterType DEF DevInv, Threads, Labels
  <1>2. dev \in Settings /\ flash.data \in Settings
    BY <1>1 DEF TypeOK
  <1> DEFINE on  == [dev EXCEPT !.power = 1]
             off == [dev EXCEPT !.power = 0]
  <1>3. on \in Settings /\ off \in Settings /\ on.mode = dev.mode /\ off.mode = dev.mode
    BY <1>2, SwitchedType DEF Settings
  <1>4. pc[t] = "set" /\ (Goto(t, After(t)) \/ Goto(t, "offFlag"))
    BY DEF SetPower
  <1>5. pc' \in [Threads -> Labels] /\ (Saving => Saving')
    BY <1>1, <1>4, GotoFacts DEF TypeOK
  <1>6. cmd' \in [Callers -> (2..7) \X Byte]
    <2>1. NoCommand \in (2..7) \X Byte
      BY TimerAssumption DEF NoCommand
    <2> QED BY <1>1, <2>1 DEF SetPower, TypeOK
  <1> HIDE DEF on, off
  <1>7. CASE cmd[t][2] # 0
    <2>1. PowerOn(on) /\ flash' = flash
      BY <1>7 DEF SetPower, on
    <2>2. /\ dev' = [Loaded(on) EXCEPT !.power = 1] /\ out' = Driven(Loaded(on))
          /\ torn' = (torn \/ (flash.written /\ flash.data = Blank))
      BY <2>1 DEF PowerOn
    <2>3. Loaded(on) \in Settings
      BY <1>1, <1>3, LoadedType
    <2>4. dev' \in Settings /\ out' \in Outputs /\ dev'.mode = Loaded(on).mode
      BY <2>2, <2>3, SwitchedType, DrivenType DEF Settings
    <2>5. Loaded(on).mode = IF flash.written THEN flash.data.mode ELSE dev.mode
      BY <1>3 DEF Loaded
    <2>6. dev'.mode # 0 /\ (Known(dev) /\ (flash.written => Known(flash.data)) => Known(dev'))
      BY <1>1, <2>4, <2>5 DEF Sound, Known
    <2>7. Sound'
      BY <1>1, <2>1, <2>2, <2>6, SoundRead
    <2>8. torn' \in BOOLEAN
      BY <2>2
    <2>9. TypeOK'
      BY <1>1, <1>5, <1>6, <2>1, <2>4, <2>8 DEF SetPower, TypeOK
    <2> QED BY <2>7, <2>9 DEF DevInv
  <1>8. CASE cmd[t][2] = 0
    <2>1. dev' = off /\ UNCHANGED <<out, flash, torn>>
      BY <1>8 DEF SetPower, off
    <2>2. Sound'
      BY <1>1, <1>3, <1>5, <2>1, SoundKept DEF Known
    <2>3. TypeOK'
      BY <1>1, <1>3, <1>5, <1>6, <2>1 DEF SetPower, TypeOK
    <2> QED BY <2>2, <2>3 DEF DevInv
  <1> QED BY <1>7, <1>8

\* The assignment of another command.
LEMMA SetOtherStep ==
  ASSUME DevInv, NEW t \in Callers, SetOther(t)
  PROVE  DevInv'
  <1>1. TypeOK /\ Sound /\ t \in Threads /\ After(t) \in Labels
    BY AfterType DEF DevInv, Threads
  <1>2. cmd[t][1] \in 3..7 /\ cmd[t][2] \in Byte
    BY <1>1 DEF SetOther, TypeOK
  <1>3. dev' = Assigned(cmd[t][1], cmd[t][2]) /\ out' = Pins(cmd[t][1], cmd[t][2])
    BY DEF SetOther
  <1>4. /\ dev' \in Settings /\ out' \in Outputs
        /\ Known(dev) => Known(dev')
        /\ dev.mode # 0 => dev'.mode # 0
    BY <1>1, <1>2, <1>3, AssignedType
  <1>5. pc' \in [Threads -> Labels] /\ (Saving => Saving')
    <2>1. pc[t] = "set" /\ Goto(t, After(t))
      BY DEF SetOther
    <2> QED BY <1>1, <2>1, GotoFacts DEF TypeOK
  <1>6. cmd' \in [Callers -> (2..7) \X Byte]
    <2>1. NoCommand \in (2..7) \X Byte
      BY TimerAssumption DEF NoCommand
    <2> QED BY <1>1, <2>1 DEF SetOther, TypeOK
  <1>7. Sound'
    BY <1>1, <1>4, <1>5, SoundKept DEF SetOther
  <1>8. TypeOK'
    BY <1>1, <1>4, <1>5, <1>6 DEF SetOther, TypeOK
  <1> QED BY <1>7, <1>8 DEF DevInv

\* The comparison, with the flag of a save that it starts.
LEMMA CompareStep ==
  ASSUME DevInv, NEW t \in Callers, Compare(t)
  PROVE  DevInv'
  <1>1. TypeOK /\ Sound /\ t \in Threads /\ "data" \in Labels /\ "idle" \in Labels
    BY DEF DevInv, Threads, Labels
  <1>2. pc[t] = "compare" /\ (Goto(t, "data") \/ Goto(t, "idle")) /\ UNCHANGED <<dev, torn>>
    BY DEF Compare, Return
  <1>3. pc' \in [Threads -> Labels] /\ (Saving => Saving')
    BY <1>1, <1>2, GotoFacts DEF TypeOK
  <1>4. flash' = flash \/ (flash' = [flash EXCEPT !.written = TRUE] /\ Saving')
    BY <1>1, GotoFacts DEF Compare, TypeOK
  <1>5. flash' \in [written : BOOLEAN, data : Settings] /\ flash'.data = flash.data
    BY <1>1, <1>4 DEF TypeOK
  <1>6. Sound'
    BY <1>1, <1>2, <1>3, <1>4, <1>5 DEF Sound, Known
  <1>7. TypeOK'
    BY <1>1, <1>3, <1>5 DEF Compare, Return, TypeOK
  <1> QED BY <1>6, <1>7 DEF DevInv

\* The flag of a save, written by any thread.
LEMMA SaveFlagStep ==
  ASSUME DevInv, NEW t \in Threads, SaveFlag(t)
  PROVE  DevInv'
  <1>1. TypeOK /\ Sound /\ "offData" \in Labels
    BY DEF DevInv, Labels
  <1>2. pc' \in [Threads -> Labels] /\ Saving'
    BY <1>1, GotoFacts DEF SaveFlag, TypeOK
  <1>3. flash' \in [written : BOOLEAN, data : Settings] /\ flash'.data = flash.data
    BY <1>1 DEF SaveFlag, TypeOK
  <1>4. Sound'
    BY <1>1, <1>2, <1>3 DEF SaveFlag, Sound, Known
  <1>5. TypeOK'
    BY <1>1, <1>2, <1>3 DEF SaveFlag, TypeOK
  <1> QED BY <1>4, <1>5 DEF DevInv

\* The data of a save.
LEMMA SaveDataStep ==
  ASSUME DevInv, NEW t \in Threads, SaveData(t)
  PROVE  DevInv'
  <1>1. TypeOK /\ Sound /\ "offPins" \in Labels /\ "idle" \in Labels
    BY DEF DevInv, Labels
  <1>2. pc' \in [Threads -> Labels]
    <2>1. Goto(t, "offPins") \/ Goto(t, "idle")
      BY DEF SaveData, Return
    <2> QED BY <1>1, <2>1, GotoFacts DEF TypeOK
  <1>3. /\ flash' \in [written : BOOLEAN, data : Settings] /\ flash'.data = dev
        /\ UNCHANGED <<dev, torn>>
    BY <1>1 DEF SaveData, TypeOK
  <1>4. Known(dev) => dev # Blank
    BY TimerAssumption DEF Known, Blank, AllZero
  <1>5. Sound'
    BY <1>1, <1>3, <1>4 DEF Sound, Known
  <1>6. mutex' \in {"none", "disp"} /\ overlap' \in BOOLEAN
    BY <1>1 DEF SaveData, Return, TypeOK
  <1>7. TypeOK'
    BY <1>1, <1>2, <1>3, <1>6 DEF SaveData, TypeOK
  <1> QED BY <1>5, <1>7 DEF DevInv

\* The outputs are switched off.
LEMMA OffPinsStep ==
  ASSUME DevInv, NEW t \in Threads, OffPins(t)
  PROVE  DevInv'
  <1>1. TypeOK /\ Sound /\ After(t) \in Labels /\ dev \in Settings
    BY AfterType DEF DevInv, TypeOK
  <1>2. pc' \in [Threads -> Labels] /\ (Saving => Saving')
    <2>1. pc[t] = "offPins" /\ Goto(t, After(t))
      BY DEF OffPins
    <2> QED BY <1>1, <2>1, GotoFacts DEF TypeOK
  <1>3. dev' \in Settings /\ dev'.mode = dev.mode /\ out' \in Outputs
    BY <1>1, SwitchedType, OffType DEF OffPins, Settings
  <1>4. Sound'
    BY <1>1, <1>2, <1>3, SoundKept DEF OffPins, Known
  <1>5. TypeOK'
    BY <1>1, <1>2, <1>3 DEF OffPins, TypeOK
  <1> QED BY <1>4, <1>5 DEF DevInv

\* The steps that only move a thread and the mutex.
LEMMA BusStep ==
  ASSUME DevInv, WifiTell \/ DispQuery \/ DispNothing
  PROVE  DevInv'
  <1>1. /\ TypeOK /\ Sound /\ "wifi" \in Threads /\ "disp" \in Threads
        /\ "compare" \in Labels /\ "query" \in Labels /\ "idle" \in Labels
    BY DEF DevInv, Threads, Callers, Labels
  <1>2. pc' \in [Threads -> Labels] /\ (Saving => Saving')
    <2>1. \/ pc["wifi"] = "tell" /\ Goto("wifi", "compare")
          \/ pc["disp"] = "idle" /\ Goto("disp", "query")
          \/ pc["disp"] = "query" /\ Goto("disp", "idle")
      BY DEF WifiTell, DispQuery, DispNothing, Return
    <2> QED BY <1>1, <2>1, GotoFacts DEF TypeOK
  <1>3. UNCHANGED <<dev, flash, torn>>
    BY DEF WifiTell, DispQuery, DispNothing
  <1>4. Sound'
    BY <1>1, <1>2, <1>3, SoundKept DEF Known
  <1>5. TypeOK'
    BY <1>1, <1>2 DEF WifiTell, DispQuery, DispNothing, Return, TypeOK
  <1> QED BY <1>4, <1>5 DEF DevInv

\* The Wi-Fi decoder and the display thread.
LEMMA CallersStep == DevInv /\ (Wifi \/ Disp) => DevInv'
  <1> SUFFICES ASSUME DevInv, Wifi \/ Disp PROVE DevInv'
    OBVIOUS
  <1>1. "wifi" \in Callers /\ "disp" \in Callers /\ Callers \subseteq Threads
    BY DEF Callers, Threads
  <1>2. ASSUME NEW t \in Callers, Execute(t) PROVE DevInv'
    BY <1>1, <1>2, SetPowerStep, SetOtherStep, SaveFlagStep, SaveDataStep, OffPinsStep, CompareStep
       DEF Execute
  <1> QED BY <1>1, <1>2, BeginStep, BusStep DEF Wifi, Disp

\* A value that wraps round stays in the byte.
LEMMA WrapType == ASSUME NEW a \in Int, NEW n \in Nat PROVE (a - 1) % (n + 1) \in 0..n
  <1>1. ASSUME NEW m \in Nat, m > 0, NEW b \in Int PROVE b % m \in 0..(m - 1)
    BY <1>1
  <1>2. (n + 1) \in Nat /\ n + 1 > 0 /\ a - 1 \in Int /\ (n + 1) - 1 = n
    OBVIOUS
  <1> QED BY <1>1, <1>2

\* Whatever the air, the level is one that the motor has.
LEMMA LevelType == ASSUME NEW air PROVE AutoLevel(air) \in 0..3
  BY DEF AutoLevel

\* A step of the power monitor that keeps the mode, the settings' and the pins' types.
LEMMA MonitorKeeps ==
  ASSUME DevInv, NEW l \in Labels \ {"offData", "data"}, Monitor(l), NEW m \in Labels,
         Goto("power", m), dev' \in Settings, dev'.mode = dev.mode, out' \in Outputs,
         cnt' \in 0..CntMax, pre' \in Byte
  PROVE  DevInv'
  <1>1. TypeOK /\ Sound /\ "power" \in Threads
    BY DEF DevInv, Threads
  <1>2. pc' \in [Threads -> Labels] /\ (Saving => Saving')
    BY <1>1, GotoFacts DEF Monitor, TypeOK
  <1>3. Sound'
    BY <1>1, <1>2, SoundKept DEF Monitor, Known
  <1>4. TypeOK'
    BY <1>1, <1>2 DEF Monitor, TypeOK
  <1> QED BY <1>3, <1>4 DEF DevInv

\* What the power monitor's own steps leave of the settings: all but power, speed and timer.
LEMMA MonitorDev ==
  ASSUME TypeOK, NEW w \in Byte
  PROVE  /\ [dev EXCEPT !.timing = w] \in Settings /\ [dev EXCEPT !.timing = w].mode = dev.mode
         /\ [dev EXCEPT !.wind = w] \in Settings /\ [dev EXCEPT !.wind = w].mode = dev.mode
         /\ [dev EXCEPT !.power = 0, !.timing = 0] \in Settings
         /\ [dev EXCEPT !.power = 0, !.timing = 0].mode = dev.mode
  <1>1. dev \in Settings
    BY DEF TypeOK
  <1>2. [dev EXCEPT !.power = 0, !.timing = 0] = [[dev EXCEPT !.power = 0] EXCEPT !.timing = 0]
    BY <1>1 DEF Settings
  <1>3. [[dev EXCEPT !.power = 0] EXCEPT !.timing = 0] \in Settings
    BY <1>1, SwitchedType, FieldType, SmallBytes
  <1>4. [[dev EXCEPT !.power = 0] EXCEPT !.timing = 0].mode = dev.mode
    BY <1>1 DEF Settings
  <1>5. [dev EXCEPT !.timing = w] \in Settings /\ [dev EXCEPT !.wind = w] \in Settings
    BY <1>1, FieldType
  <1>6. [dev EXCEPT !.timing = w].mode = dev.mode /\ [dev EXCEPT !.wind = w].mode = dev.mode
    BY <1>1 DEF Settings
  <1> QED BY <1>2, <1>3, <1>4, <1>5, <1>6

\* The power monitor thread.
LEMMA PowerStep == DevInv /\ PowerMonitor => DevInv'
  <1> SUFFICES ASSUME DevInv, PowerMonitor PROVE DevInv'
    OBVIOUS
  <1>0. TypeOK /\ dev \in Settings /\ out \in Outputs /\ cnt \in 0..CntMax /\ pre \in Byte
    BY DEF DevInv, TypeOK
  <1>a. "power" \in Threads /\ {"latch", "count", "check", "tell", "drive", "again", "motor",
         "offFlag"} \subseteq Labels \ {"offData", "data"}
    BY DEF Threads, Labels
  <1>1. CASE PowerLatch
    <2>1. dev.timing \in Byte
      BY <1>0 DEF Settings
    <2>2. cnt' \in 0..CntMax
      BY <1>0, <1>1, TimerAssumption DEF PowerLatch, Counted
    <2> QED BY <1>0, <1>1, <1>a, <2>1, <2>2, MonitorKeeps DEF PowerLatch
  <1>2. CASE PowerCount
    <2>1. dev.timing \in Int /\ Top + 1 \in Nat \ {0}
      BY <1>0, TimerAssumption DEF Settings
    <2>2. (dev.timing - 1) % (Top + 1) \in Byte
      BY <2>1, WrapType, TimerAssumption
    <2>3. dev' = [dev EXCEPT !.timing = (dev.timing - 1) % (Top + 1)] \/ dev' = dev
      BY <1>2 DEF PowerCount
    <2>4. dev' \in Settings /\ dev'.mode = dev.mode
      <3>1. CASE dev' = dev
        BY <1>0, <3>1
      <3>2. CASE dev' = [dev EXCEPT !.timing = (dev.timing - 1) % (Top + 1)]
        BY <1>0, <2>2, <3>2, MonitorDev
      <3> QED BY <2>3, <3>1, <3>2
    <2> QED BY <1>0, <1>2, <1>a, <2>4, MonitorKeeps DEF PowerCount
  <1>3. CASE PowerCheck
    <2>1. dev' \in Settings /\ dev'.mode = dev.mode
      BY <1>0, <1>3, MonitorDev, SmallBytes DEF PowerCheck
    <2>2. cnt' \in 0..CntMax /\ pre' \in Byte
      BY <1>0, <1>3, TimerAssumption DEF PowerCheck
    <2>3. Goto("power", "tell") \/ Goto("power", "drive")
      BY <1>3 DEF PowerCheck
    <2> QED BY <1>0, <1>3, <1>a, <2>1, <2>2, <2>3, MonitorKeeps DEF PowerCheck
  <1>4. CASE PowerTell
    BY <1>0, <1>4, <1>a, MonitorKeeps DEF PowerTell
  <1>5. CASE SaveFlag("power") \/ SaveData("power") \/ OffPins("power")
    BY <1>5, <1>a, SaveFlagStep, SaveDataStep, OffPinsStep
  <1>6. ASSUME NEW air \in Air, DriveAuto(air) PROVE DevInv'
    <2>1. AutoLevel(air) \in Byte
      BY LevelType, TimerAssumption
    <2>2. dev' \in Settings /\ dev'.mode = dev.mode
      BY <1>0, <1>6, <2>1, MonitorDev DEF DriveAuto
    <2>3. out' \in Outputs
      BY <1>6, LevelType DEF DriveAuto, Outputs
    <2> QED BY <1>0, <1>6, <1>a, <2>2, <2>3, MonitorKeeps DEF DriveAuto
  <1>7. CASE DriveManual
    <2>1. dev' = [dev EXCEPT !.wind = 1] \/ dev' = dev
      BY <1>7 DEF DriveManual
    <2>2. dev' \in Settings /\ dev'.mode = dev.mode
      <3>1. CASE dev' = dev
        BY <1>0, <3>1
      <3>2. CASE dev' = [dev EXCEPT !.wind = 1]
        BY <1>0, <3>2, MonitorDev, SmallBytes
      <3> QED BY <2>1, <3>1, <3>2
    <2>3. out' \in Outputs
      BY <1>7, <2>2, DrivenType DEF DriveManual
    <2>4. Goto("power", "again") \/ Goto("power", "motor")
      BY <1>7 DEF DriveManual
    <2> QED BY <1>0, <1>7, <1>a, <2>2, <2>3, <2>4, MonitorKeeps DEF DriveManual
  <1>8. CASE DriveNothing
    BY <1>0, <1>8, <1>a, MonitorKeeps DEF DriveNothing
  <1>9. CASE MotorAgain
    <2>1. out' \in Outputs
      BY <1>0, <1>9 DEF MotorAgain, Outputs, MotorSpeed
    <2> QED BY <1>0, <1>9, <1>a, <2>1, MonitorKeeps DEF MotorAgain
  <1>10. CASE MotorFrame
    BY <1>0, <1>10, <1>a, MonitorKeeps DEF MotorFrame
  <1> QED BY <1>1, <1>2, <1>3, <1>4, <1>5, <1>6, <1>7, <1>8, <1>9, <1>10 DEF PowerMonitor

\* A power cut keeps the flash and starts again from it.
LEMMA RebootStep == DevInv /\ Reboot => DevInv'
  <1> SUFFICES ASSUME DevInv, Reboot PROVE DevInv'
    OBVIOUS
  <1>0. flash \in [written : BOOLEAN, data : Settings] /\ TypeOK /\ Sound
    BY DEF DevInv, TypeOK
  <1>1. /\ dev' \in Settings /\ out' \in Outputs /\ dev'.mode # 0
        /\ (flash.written => Known(flash.data)) => Known(dev')
    BY <1>0, BootType DEF Reboot
  <1>2. Sound'
    BY <1>0, <1>1, SoundRead DEF Reboot
  <1>3. pc' \in [Threads -> Labels]
    BY DEF Reboot, Start, Threads, Callers, Labels
  <1>4. cmd' \in [Callers -> (2..7) \X Byte]
    BY TimerAssumption DEF Reboot, NoCommand
  <1>5. inputs' \in 0..MaxInputs /\ pre' \in Byte /\ cnt' \in 0..CntMax
    BY <1>0, TimerAssumption DEF Reboot, TypeOK
  <1>6. TypeOK'
    BY <1>0, <1>1, <1>3, <1>4, <1>5, OffType DEF Reboot, TypeOK
  <1> QED BY <1>2, <1>6 DEF DevInv

\* Every step of every thread keeps the invariant.
LEMMA DevStep == DevInv /\ [Next]_vars => DevInv'
  <1>1. DevInv /\ UNCHANGED vars => DevInv'
    BY DEF DevInv, TypeOK, Sound, Known, Saving, vars
  <1> QED BY <1>1, CallersStep, PowerStep, RebootStep DEF Next

\* The settings, the parameter block, the pins and the counter keep their ranges; in
\* particular power_tim_cnt never passes its largest value.
THEOREM DeviceTypeCorrect == Spec => []TypeOK
  <1>1. DevInv => TypeOK
    BY DEF DevInv
  <1> QED BY <1>1, DevInit, DevStep, PTL DEF Spec

\* Whatever the phone and the keys send, and whenever the mains fail, the device is in
\* automatic or manual mode and so is the block it would boot from, unless the block was read
\* between the two writes of the very first save.
THEOREM ModeStaysKnown == Spec => []ModeIsKnown
  <1>1. DevInv => ModeIsKnown
    BY DEF DevInv, Sound, ModeIsKnown, Known
  <1> QED BY <1>1, DevInit, DevStep, PTL DEF Spec

--------------------------------------------------------------------------------
\* The settings that are in use are saved

\* Two settings have the same mode, ESD and PHT bytes.
Agree(d, e) == d.mode = e.mode /\ d.hp = e.hp /\ d.pht = e.pht

\* As long as no command overlapped another's: a written block agrees with the settings in use,
\* or is being saved, or a command is under way and the block agrees with the settings before
\* it, so that the comparison will find the change; a command that has not assigned anything yet
\* has a copy of the settings in use; and only one command is under way.
SavedInv ==
    overlap \/ /\ flash.written => \/ Agree(flash.data, dev)
                                   \/ Saving
                                   \/ ~Quiet /\ Agree(flash.data, bak)
               /\ \A t \in Callers : pc[t] = "set" => Agree(bak, dev)
               /\ ~(InCommand("wifi") /\ InCommand("disp"))

\* The power state, the speed and the timer can change without a save.
LEMMA OtherFields ==
  ASSUME NEW d \in Settings, NEW v
  PROVE  /\ Agree([d EXCEPT !.power = v], d) /\ Agree([d EXCEPT !.wind = v], d)
         /\ Agree([d EXCEPT !.timing = v], d)
  BY DEF Settings, Agree

\* A step that changes only such fields, and moves a thread that neither leaves a save nor
\* begins or ends a command.
LEMMA SavedKept ==
  ASSUME TypeOK, SavedInv, UNCHANGED <<flash, bak, overlap>>, Agree(dev', dev),
         NEW t \in Threads, NEW l \in Labels \ {"set"}, Goto(t, l),
         pc[t] \notin {"offData", "data"}, t \in Callers => (InCommand(t)' <=> InCommand(t))
  PROVE  SavedInv'
  <1>1. /\ pc'[t] = l /\ (Saving => Saving')
        /\ \A u \in Threads \ {t} : pc'[u] = pc[u]
    BY GotoFacts DEF TypeOK
  <1>2. \A u \in Callers : InCommand(u)' <=> InCommand(u)
    BY <1>1 DEF InCommand, Threads
  <1>3. \A u \in Callers : pc'[u] = "set" => pc[u] = "set"
    BY <1>1 DEF Threads
  <1>4. Quiet' <=> Quiet
    BY <1>2 DEF Quiet
  <1>5. (~(InCommand("wifi") /\ InCommand("disp")))' <=> ~(InCommand("wifi") /\ InCommand("disp"))
    BY <1>2 DEF Callers
  <1> QED BY <1>1, <1>3, <1>4, <1>5 DEF SavedInv, Agree

\* A command begins with a copy of the settings.
LEMMA SavedBegin ==
  ASSUME TypeOK, SavedInv, NEW t \in Callers, NEW c, Begin(t, c)
  PROVE  SavedInv'
  <1> SUFFICES ASSUME ~overlap' PROVE SavedInv'
    BY DEF SavedInv
  <1>1. /\ ~overlap /\ (\A u \in Callers \ {t} : ~InCommand(u)) /\ ~InCommand(t)
        /\ pc[t] \notin {"offData", "data"} /\ Goto(t, "set")
        /\ bak' = dev /\ UNCHANGED <<dev, flash>>
    BY DEF Begin, InCommand
  <1>2. t \in Threads /\ "set" \in Labels
    BY DEF Threads, Labels
  <1>3. /\ pc'[t] = "set" /\ (Saving => Saving')
        /\ \A u \in Threads \ {t} : pc'[u] = pc[u]
    BY <1>1, <1>2, GotoFacts DEF TypeOK
  <1>4. Quiet /\ InCommand(t)' /\ \A u \in Callers \ {t} : ~InCommand(u)'
    BY <1>1, <1>3 DEF Quiet, InCommand, Threads
  <1>5. flash'.written => \/ Agree(flash'.data, dev') \/ Saving'
                          \/ ~Quiet' /\ Agree(flash'.data, bak')
    BY <1>1, <1>3, <1>4 DEF SavedInv, Quiet, Agree
  <1>6. \A u \in Callers : pc'[u] = "set" => Agree(bak', dev')
    BY <1>1 DEF Agree
  <1>7. (~(InCommand("wifi") /\ InCommand("disp")))'
    BY <1>4 DEF Callers
  <1> QED BY <1>5, <1>6, <1>7 DEF SavedInv

\* The assignments, with a reload where the device is switched on.
LEMMA SavedSet ==
  ASSUME TypeOK, SavedInv, NEW t \in Callers, SetPower(t) \/ SetOther(t)
  PROVE  SavedInv'
  <1> SUFFICES ASSUME ~overlap' PROVE SavedInv'
    BY DEF SavedInv
  <1>1. /\ ~overlap /\ pc[t] = "set" /\ UNCHANGED <<bak, flash>> /\ dev \in Settings
        /\ t \in Threads /\ flash.data \in Settings
    BY DEF SetPower, SetOther, TypeOK, Threads
  <1>2. PICK l \in {"tell", "compare", "offFlag"} : Goto(t, l)
    BY <1>1, AfterType DEF SetPower, SetOther
  <1>3. l \in Labels
    BY DEF Labels
  <1>4. /\ pc'[t] = l /\ (Saving => Saving')
        /\ \A u \in Threads \ {t} : pc'[u] = pc[u]
    BY <1>1, <1>2, <1>3, GotoFacts DEF TypeOK
  <1>5. InCommand(t) /\ InCommand(t)' /\ \A u \in Callers \ {t} : ~InCommand(u) /\ ~InCommand(u)'
    <2>1. InCommand(t)
      BY <1>1 DEF InCommand
    <2>2. \A u \in Callers \ {t} : ~InCommand(u)
      BY <1>1, <2>1 DEF SavedInv, Callers
    <2> QED BY <1>2, <1>4, <2>1, <2>2 DEF InCommand, Threads
  <1>6. Agree(bak, dev) /\ ~Quiet'
    BY <1>1, <1>5 DEF SavedInv, Quiet
  <1>7. flash'.written => \/ Agree(flash'.data, dev') \/ Saving'
                          \/ ~Quiet' /\ Agree(flash'.data, bak')
    BY <1>1, <1>4, <1>6 DEF SavedInv, Agree
  <1>8. \A u \in Callers : pc'[u] # "set"
    BY <1>2, <1>4, <1>5 DEF InCommand
  <1>9. (~(InCommand("wifi") /\ InCommand("disp")))'
    BY <1>5 DEF Callers
  <1> QED BY <1>7, <1>8, <1>9 DEF SavedInv

\* The comparison finds what is not saved.
LEMMA SavedCompare ==
  ASSUME TypeOK, SavedInv, NEW t \in Callers, Compare(t)
  PROVE  SavedInv'
  <1> SUFFICES ASSUME ~overlap' PROVE SavedInv'
    BY DEF SavedInv
  <1>1. ~overlap /\ pc[t] = "compare" /\ UNCHANGED <<bak, dev>> /\ t \in Threads
    BY DEF Compare, Threads
  <1>2. PICK l \in {"data", "idle"} : Goto(t, l)
    BY DEF Compare, Return
  <1>3. l \in Labels
    BY DEF Labels
  <1>4. /\ pc'[t] = l /\ (Saving => Saving') /\ (l = "data" => Saving')
        /\ \A u \in Threads \ {t} : pc'[u] = pc[u]
    BY <1>1, <1>2, <1>3, GotoFacts DEF TypeOK
  <1>5. ~InCommand(t)'
    BY <1>4 DEF InCommand
  <1>6. flash'.written => Agree(flash'.data, dev') \/ Saving'
    <2>1. CASE Changed
      <3>1. Goto(t, "data")
        BY <2>1 DEF Compare
      <3>2. "data" \in Labels
        BY DEF Labels
      <3> QED BY <1>1, <3>1, <3>2, GotoFacts DEF TypeOK
    <2>2. CASE ~Changed
      <3>1. flash' = flash /\ bak = dev
        BY <2>2 DEF Compare, Changed
      <3> QED BY <1>1, <1>4, <3>1 DEF SavedInv, Agree
    <2> QED BY <2>1, <2>2
  <1>7. \A u \in Callers : pc'[u] = "set" => Agree(bak', dev')
    <2>1. \A u \in Callers : pc'[u] = "set" => pc[u] = "set"
      BY <1>2, <1>4 DEF Threads
    <2> QED BY <1>1, <2>1 DEF SavedInv, Agree
  <1>8. (~(InCommand("wifi") /\ InCommand("disp")))'
    BY <1>5 DEF Callers
  <1> QED BY <1>6, <1>7, <1>8 DEF SavedInv

\* The data of a save make up for everything before, unless a command is under way.
LEMMA SavedData ==
  ASSUME TypeOK, SavedInv, NEW t \in Threads, SaveData(t)
  PROVE  SavedInv'
  <1> SUFFICES ASSUME ~overlap' PROVE SavedInv'
    BY DEF SavedInv
  <1>1. /\ UNCHANGED <<bak, dev>> /\ flash'.data = dev
        /\ ~overlap \/ \A u \in Callers \ {t} : ~InCommand(u)
    BY DEF SaveData, TypeOK
  <1>2. PICK l \in {"offPins", "idle"} : Goto(t, l) /\ (l = "idle" => pc[t] = "data")
    BY DEF SaveData, Return
  <1>3. l \in Labels
    BY DEF Labels
  <1>4. /\ pc'[t] = l /\ \A u \in Threads \ {t} : pc'[u] = pc[u]
    BY <1>2, <1>3, GotoFacts DEF TypeOK
  <1>5. \A u \in Callers \ {t} : (InCommand(u)' <=> InCommand(u)) /\ pc'[u] = pc[u]
    BY <1>4 DEF InCommand, Threads
  <1>6. InCommand(t)' => InCommand(t)
    <2>1. pc[t] \in {"offData", "data"}
      BY DEF SaveData
    <2>2. CASE l = "idle"
      BY <1>4, <2>2 DEF InCommand
    <2>3. CASE pc[t] = "offData"
      BY <2>3 DEF InCommand
    <2>4. CASE l = "offPins" /\ pc[t] = "data"
      <3>1. Goto(t, "idle")
        BY <2>4 DEF SaveData, Return
      <3>2. "idle" \in Labels
        BY DEF Labels
      <3>3. pc'[t] = "idle"
        BY <3>1, <3>2, GotoFacts DEF TypeOK
      <3> QED BY <3>3 DEF InCommand
    <2> QED BY <1>2, <2>1, <2>2, <2>3, <2>4
  <1>7. Agree(flash'.data, dev')
    BY <1>1 DEF Agree
  <1>8. CASE ~overlap
    <2>1. \A u \in Callers : pc'[u] = "set" => Agree(bak', dev')
      BY <1>1, <1>2, <1>4, <1>5, <1>8 DEF SavedInv, Agree
    <2>2. (~(InCommand("wifi") /\ InCommand("disp")))'
      BY <1>5, <1>6, <1>8 DEF SavedInv, Callers
    <2> QED BY <1>7, <2>1, <2>2 DEF SavedInv
  <1>9. CASE \A u \in Callers \ {t} : ~InCommand(u)
    <2>1. \A u \in Callers : pc'[u] # "set"
      BY <1>2, <1>4, <1>5, <1>9 DEF InCommand
    <2>2. (~(InCommand("wifi") /\ InCommand("disp")))'
      BY <1>5, <1>9 DEF Callers
    <2> QED BY <1>7, <2>1, <2>2 DEF SavedInv
  <1> QED BY <1>1, <1>8, <1>9

\* The flag of a save is followed by its data.
LEMMA SavedFlag ==
  ASSUME TypeOK, SavedInv, NEW t \in Threads, SaveFlag(t)
  PROVE  SavedInv'
  <1> SUFFICES ASSUME ~overlap' PROVE SavedInv'
    BY DEF SavedInv
  <1>1. ~overlap /\ UNCHANGED <<bak, dev>> /\ pc[t] = "offFlag" /\ "offData" \in Labels
    BY DEF SaveFlag, Labels
  <1>2. /\ pc'[t] = "offData" /\ Saving'
        /\ \A u \in Threads \ {t} : pc'[u] = pc[u]
    BY <1>1, GotoFacts DEF SaveFlag, TypeOK
  <1>3. \A u \in Callers : (InCommand(u)' <=> InCommand(u)) /\ (pc'[u] = "set" => pc[u] = "set")
    BY <1>1, <1>2 DEF InCommand, Threads
  <1>4. (~(InCommand("wifi") /\ InCommand("disp")))'
    BY <1>1, <1>3 DEF SavedInv, Callers
  <1> QED BY <1>1, <1>2, <1>3, <1>4 DEF SavedInv, Agree

\* A step of the power monitor that keeps the three bytes.
LEMMA SavedMonitor ==
  ASSUME TypeOK, SavedInv, NEW l \in Labels \ {"offData", "data"}, Monitor(l),
         NEW m \in Labels \ {"set"}, Goto("power", m), Agree(dev', dev)
  PROVE  SavedInv'
  <1>1. "power" \in Threads /\ "power" \notin Callers /\ pc["power"] = l
    BY DEF Threads, Callers, Monitor
  <1> QED BY <1>1, SavedKept DEF Monitor

\* The threads keep the invariant.
LEMMA SavedStep == DevInv /\ SavedInv /\ [Next]_vars => SavedInv'
  <1> SUFFICES ASSUME DevInv, SavedInv, [Next]_vars PROVE SavedInv'
    OBVIOUS
  <1>0. TypeOK /\ Sound /\ dev \in Settings /\ flash.data \in Settings
    BY DEF DevInv, TypeOK
  <1>a. /\ "wifi" \in Callers /\ "disp" \in Callers /\ Callers \subseteq Threads
        /\ "power" \in Threads
    BY DEF Callers, Threads
  <1>b. {"idle", "query", "latch", "count", "check", "tell", "drive", "again", "motor", "offFlag",
         "compare"} \subseteq Labels \ {"set", "offData", "data"}
    BY DEF Labels
  <1>c. Agree(dev, dev) /\ \A v : /\ Agree([dev EXCEPT !.power = v], dev)
                                  /\ Agree([dev EXCEPT !.wind = v], dev)
                                  /\ Agree([dev EXCEPT !.timing = v], dev)
    BY <1>0, OtherFields DEF Agree
  <1>1. ASSUME NEW t \in Threads, OffPins(t) PROVE SavedInv'
    <2>1. /\ UNCHANGED <<flash, bak, overlap>> /\ Agree(dev', dev) /\ pc[t] = "offPins"
          /\ Goto(t, After(t))
      BY <1>1, <1>c DEF OffPins
    <2>2. After(t) \in Labels \ {"set"}
      BY DEF After, Threads, Callers, Labels
    <2>3. t \in Callers => pc'[t] \in {"tell", "compare"}
      BY <1>0, <2>1, <2>2, AfterType, GotoFacts DEF TypeOK
    <2>4. t \in Callers => (InCommand(t)' <=> InCommand(t))
      BY <2>1, <2>3 DEF InCommand
    <2> QED BY <1>0, <2>1, <2>2, <2>4, SavedKept
  <1>2. ASSUME NEW t \in Callers, Execute(t) PROVE SavedInv'
    BY <1>0, <1>1, <1>2, <1>a, SavedSet, SavedFlag, SavedData, SavedCompare DEF Execute
  <1>3. CASE Wifi
    <2>1. CASE WifiTell
      <3>1. /\ UNCHANGED <<flash, bak, overlap, dev>> /\ pc["wifi"] = "tell"
            /\ Goto("wifi", "compare")
        BY <2>1 DEF WifiTell
      <3>2. pc'["wifi"] = "compare"
        BY <1>0, <1>a, <1>b, <3>1, GotoFacts DEF TypeOK
      <3>3. InCommand("wifi")' <=> InCommand("wifi")
        BY <3>1, <3>2 DEF InCommand
      <3> QED BY <1>0, <1>a, <1>b, <1>c, <3>1, <3>3, SavedKept
    <2> QED BY <1>0, <1>2, <1>3, <1>a, <2>1, SavedBegin DEF Wifi
  <1>4. CASE Disp
    <2>1. CASE DispQuery \/ DispNothing
      <3>1. PICK l \in {"idle", "query"} : Goto("disp", l)
        BY <2>1 DEF DispQuery, DispNothing, Return
      <3>2. UNCHANGED <<flash, bak, overlap, dev>> /\ pc["disp"] \in {"idle", "query"}
        BY <2>1 DEF DispQuery, DispNothing
      <3>3. pc'["disp"] = l
        BY <1>0, <1>a, <1>b, <3>1, GotoFacts DEF TypeOK
      <3>4. InCommand("disp")' <=> InCommand("disp")
        BY <3>1, <3>2, <3>3 DEF InCommand
      <3> QED BY <1>0, <1>a, <1>b, <1>c, <3>1, <3>2, <3>4, SavedKept
    <2> QED BY <1>0, <1>2, <1>4, <1>a, <2>1, SavedBegin DEF Disp
  <1>5. CASE PowerMonitor
    <2>1. CASE PowerLatch
      BY <1>0, <1>b, <1>c, <2>1, SavedMonitor DEF PowerLatch
    <2>2. CASE PowerCount
      <3>1. Agree(dev', dev)
        BY <1>c, <2>2 DEF PowerCount
      <3> QED BY <1>0, <1>b, <2>2, <3>1, SavedMonitor DEF PowerCount
    <2>3. CASE PowerCheck
      <3>1. [dev EXCEPT !.power = 0, !.timing = 0] = [[dev EXCEPT !.power = 0] EXCEPT !.timing = 0]
        BY <1>0 DEF Settings
      <3>2. Agree([[dev EXCEPT !.power = 0] EXCEPT !.timing = 0], dev)
        BY <1>0, SwitchedType, OtherFields DEF Agree
      <3>3. Agree(dev', dev) /\ (Goto("power", "tell") \/ Goto("power", "drive"))
        BY <1>c, <2>3, <3>1, <3>2 DEF PowerCheck
      <3> QED BY <1>0, <1>b, <2>3, <3>3, SavedMonitor DEF PowerCheck
    <2>4. CASE PowerTell \/ DriveNothing \/ MotorAgain \/ MotorFrame
      BY <1>0, <1>b, <1>c, <2>4, SavedMonitor DEF PowerTell, DriveNothing, MotorAgain, MotorFrame
    <2>5. ASSUME NEW air \in Air, DriveAuto(air) PROVE SavedInv'
      BY <1>0, <1>b, <1>c, <2>5, SavedMonitor DEF DriveAuto
    <2>6. CASE DriveManual
      <3>1. Agree(dev', dev) /\ (Goto("power", "again") \/ Goto("power", "motor"))
        BY <1>c, <2>6 DEF DriveManual
      <3> QED BY <1>0, <1>b, <2>6, <3>1, SavedMonitor DEF DriveManual
    <2> QED BY <1>0, <1>1, <1>5, <1>a, <2>1, <2>2, <2>3, <2>4, <2>5, <2>6, SavedFlag, SavedData
            DEF PowerMonitor
  <1>6. CASE Reboot
    <2>1. flash' = flash /\ dev' = BootSettings(flash) /\ pc' = Start
      BY <1>6 DEF Reboot
    <2>2. flash.written => BootSettings(flash) = [flash.data EXCEPT !.power = 1]
      BY <1>0 DEF BootSettings, Sound, Settings
    <2>3. Agree([flash.data EXCEPT !.power = 1], flash.data)
      BY <1>0, OtherFields
    <2>4. flash'.written => Agree(flash'.data, dev')
      BY <2>1, <2>2, <2>3 DEF Agree
    <2>5. \A t \in Callers : pc'[t] = "idle"
      BY <2>1 DEF Start, Callers
    <2>6. (~(InCommand("wifi") /\ InCommand("disp")))'
      BY <1>a, <2>5 DEF InCommand
    <2> QED BY <2>4, <2>5, <2>6 DEF SavedInv
  <1>7. CASE UNCHANGED vars
    BY <1>7 DEF vars, SavedInv, Saving, Quiet, InCommand, Agree
  <1> QED BY <1>3, <1>4, <1>5, <1>6, <1>7 DEF Next

\* Whatever the phone and the keys send, and whenever the mains fail, the flash holds the mode,
\* ESD and PHT settings in use when no command and no save is under way, unless two commands
\* overlapped since the last save.
THEOREM SettingsStaySaved == Spec => []SettingsAreSaved
  <1>1. Init => SavedInv
    BY DEF Init, SavedInv, Start, Callers, InCommand
  <1>2. SavedInv => SettingsAreSaved
    BY DEF SavedInv, Agree, SettingsAreSaved
  <1> QED BY <1>1, <1>2, SavedStep, DevInit, DevStep, PTL DEF Spec

--------------------------------------------------------------------------------
\* The level of automatic mode

\* The grade of one room, from its two readings.
RoomGrade(r) ==
    IF Grade(r.pm, PmLimits) > Grade(r.co2, Co2Limits)
    THEN Grade(r.pm, PmLimits) ELSE Grade(r.co2, Co2Limits)

\* What the four passes ask of a room, in terms of its grade.
LEMMA GradeOfRoom ==
  ASSUME NEW r \in [pm : Int, co2 : Int]
  PROVE  /\ RoomGrade(r) \in 0..4
         /\ (r.pm > 134 \/ r.co2 > 2500) <=> RoomGrade(r) = 4
         /\ (r.pm > 96 \/ r.co2 > 1300) <=> RoomGrade(r) >= 3
         /\ (r.pm < 55 /\ r.co2 < 730) <=> RoomGrade(r) = 0
         /\ (r.pm < 91 /\ r.co2 < 1290) <=> RoomGrade(r) <= 1
  BY DEF RoomGrade, Grade, PmLimits, Co2Limits

\* A nonempty set of grades has a worst and a best one.
LEMMA WorstAndBest ==
  ASSUME NEW G \in SUBSET (0..4), G # {}
  PROVE  /\ \E g \in G : \A x \in G : x <= g
         /\ \E g \in G : \A x \in G : x >= g
  <1>1. G \subseteq {0, 1, 2, 3, 4}
    OBVIOUS
  <1>2. \E g \in G : \A x \in G : x <= g
    <2>1. CASE 4 \in G
      BY <1>1, <2>1
    <2>2. CASE 4 \notin G /\ 3 \in G
      BY <1>1, <2>2
    <2>3. CASE 4 \notin G /\ 3 \notin G /\ 2 \in G
      BY <1>1, <2>3
    <2>4. CASE 4 \notin G /\ 3 \notin G /\ 2 \notin G /\ 1 \in G
      BY <1>1, <2>4
    <2>5. CASE 4 \notin G /\ 3 \notin G /\ 2 \notin G /\ 1 \notin G
      <3>1. \A x \in G : x = 0
        BY <1>1, <2>5
      <3>2. 0 \in G
        BY <3>1, Zenon
      <3> QED BY <3>1, <3>2
    <2> QED BY <2>1, <2>2, <2>3, <2>4, <2>5
  <1>3. \E g \in G : \A x \in G : x >= g
    <2>1. CASE 0 \in G
      BY <1>1, <2>1
    <2>2. CASE 0 \notin G /\ 1 \in G
      BY <1>1, <2>2
    <2>3. CASE 0 \notin G /\ 1 \notin G /\ 2 \in G
      BY <1>1, <2>3
    <2>4. CASE 0 \notin G /\ 1 \notin G /\ 2 \notin G /\ 3 \in G
      BY <1>1, <2>4
    <2>5. CASE 0 \notin G /\ 1 \notin G /\ 2 \notin G /\ 3 \notin G
      <3>1. \A x \in G : x = 4
        BY <1>1, <2>5
      <3>2. 4 \in G
        BY <3>1, Zenon
      <3> QED BY <3>1, <3>2
    <2> QED BY <2>1, <2>2, <2>3, <2>4, <2>5
  <1> QED BY <1>2, <1>3

\* The reference, without its choices of the worst and the best grade.
LEMMA LevelOfGrades ==
  ASSUME NEW G \in SUBSET (0..4), G # {}
  PROVE  LevelOf(G) = IF 4 \in G THEN 3 ELSE IF 3 \in G THEN 2
                      ELSE IF 0 \in G THEN 0 ELSE IF 1 \in G THEN 1 ELSE 0
  <1> DEFINE worst == CHOOSE g \in G : \A x \in G : x <= g
             best  == CHOOSE g \in G : \A x \in G : x >= g
  <1>1. worst \in G /\ \A x \in G : x <= worst
    BY WorstAndBest
  <1>2. best \in G /\ \A x \in G : x >= best
    BY WorstAndBest
  <1>3. LevelOf(G) = IF worst > 2 THEN worst - 1 ELSE IF best = 1 THEN 1 ELSE 0
    BY DEF LevelOf
  <1> HIDE DEF worst, best
  <1>4. G \subseteq {0, 1, 2, 3, 4}
    OBVIOUS
  <1>5. CASE 4 \in G
    <2>1. worst = 4
      BY <1>1, <1>4, <1>5
    <2> QED BY <1>3, <1>5, <2>1
  <1>6. CASE 4 \notin G /\ 3 \in G
    <2>1. worst = 3
      BY <1>1, <1>4, <1>6
    <2> QED BY <1>3, <1>6, <2>1
  <1>7. CASE 4 \notin G /\ 3 \notin G
    <2>1. ~(worst > 2)
      BY <1>1, <1>4, <1>7
    <2>2. CASE 0 \in G
      <3>1. best = 0
        BY <1>2, <1>4, <2>2
      <3> QED BY <1>3, <1>7, <2>1, <2>2, <3>1
    <2>3. CASE 0 \notin G /\ 1 \in G
      <3>1. best = 1
        BY <1>2, <1>4, <2>3
      <3> QED BY <1>3, <1>7, <2>1, <2>3, <3>1
    <2>4. CASE 0 \notin G /\ 1 \notin G
      <3>1. best # 1
        BY <1>2, <2>4
      <3> QED BY <1>3, <1>7, <2>1, <2>4, <3>1
    <2> QED BY <2>2, <2>3, <2>4
  <1> QED BY <1>5, <1>6, <1>7

\* For any number of rooms and any readings, the four passes come to the reference.
THEOREM LevelIsReference ==
  ASSUME NEW air \in [Rooms -> [pm : Int, co2 : Int]]
  PROVE  LET grades == {RoomGrade(air[h]) : h \in Present(air)}
         IN  AutoLevel(air) = IF grades = {} THEN 0 ELSE LevelOf(grades)
  <1> DEFINE P == Present(air)
             G == {RoomGrade(air[h]) : h \in P}
  <1>1. P \subseteq Rooms
    BY DEF Present
  <1>2. \A h \in P : air[h] \in [pm : Int, co2 : Int]
    BY <1>1
  <1>3. G \in SUBSET (0..4)
    BY <1>2, GradeOfRoom
  <1>4. /\ (\E h \in P : air[h].pm > 134 \/ air[h].co2 > 2500) <=> 4 \in G
        /\ (\E h \in P : air[h].pm > 96 \/ air[h].co2 > 1300) <=> (3 \in G \/ 4 \in G)
        /\ (\E h \in P : air[h].pm < 55 /\ air[h].co2 < 730) <=> 0 \in G
        /\ (\E h \in P : air[h].pm < 91 /\ air[h].co2 < 1290) <=> (0 \in G \/ 1 \in G)
    <2>1. \A h \in P : /\ RoomGrade(air[h]) \in 0..4
                       /\ (air[h].pm > 134 \/ air[h].co2 > 2500) <=> RoomGrade(air[h]) = 4
                       /\ (air[h].pm > 96 \/ air[h].co2 > 1300) <=> RoomGrade(air[h]) >= 3
                       /\ (air[h].pm < 55 /\ air[h].co2 < 730) <=> RoomGrade(air[h]) = 0
                       /\ (air[h].pm < 91 /\ air[h].co2 < 1290) <=> RoomGrade(air[h]) <= 1
      BY <1>2, GradeOfRoom
    <2>2. \A g : g \in G <=> \E h \in P : RoomGrade(air[h]) = g
      OBVIOUS
    <2> HIDE DEF P, G
    <2>3. \A h \in P : RoomGrade(air[h]) >= 3 <=> RoomGrade(air[h]) \in {3, 4}
      BY <2>1
    <2>4. \A h \in P : RoomGrade(air[h]) <= 1 <=> RoomGrade(air[h]) \in {0, 1}
      BY <2>1
    <2> QED BY <2>1, <2>2, <2>3, <2>4
  <1>5. AutoLevel(air) = IF 4 \in G THEN 3 ELSE IF 3 \in G THEN 2
                         ELSE IF 0 \in G THEN 0 ELSE IF 1 \in G THEN 1 ELSE 0
    <2> HIDE DEF G
    <2> QED BY <1>4 DEF AutoLevel
  <1>6. CASE G = {}
    BY <1>5, <1>6
  <1>7. CASE G # {}
    BY <1>3, <1>5, <1>7, LevelOfGrades
  <1> QED BY <1>6, <1>7

\* For any number of rooms, the level that the power monitor chooses in automatic mode is the
\* one that the worst and the best air ask for.
THEOREM LevelCorrect == Spec => []LevelIsOfWorstOrBest
  <1>1. LevelsAtEdges
    <2> SUFFICES ASSUME NEW air \in [Rooms -> [pm : Edges(PmLimits), co2 : Edges(Co2Limits)]]
                 PROVE  LET grades == {RoomGrade(air[h]) : h \in Present(air)}
                        IN  AutoLevel(air) = IF grades = {} THEN 0 ELSE LevelOf(grades)
      BY DEF LevelsAtEdges, RoomGrade
    <2>1. Edges(PmLimits) \subseteq Int /\ Edges(Co2Limits) \subseteq Int
      BY DEF Edges, PmLimits, Co2Limits
    <2>2. air \in [Rooms -> [pm : Int, co2 : Int]]
      BY <2>1
    <2> QED BY <2>2, LevelIsReference
  <1>2. LevelIsOfWorstOrBest
    BY <1>1 DEF LevelIsOfWorstOrBest
  <1> QED BY <1>2, PTL

================================================================================
