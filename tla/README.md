# A verification project for the air cleaner firmware

The repository holds two firmwares. The **main board** (`src/code/bsp/stm32f10x`,
STM32F103, RT-Thread) drives the motor, the electrostatic filter (ESD) and the
photocatalytic lamp (PHT), reads five room sensors, talks to a Wi-Fi module and keeps its
settings in SPI flash. The **display board** (`src/ht1621_dispboard_code/User`, no
operating system) has the keys and the panel. The boards, the sensors and a DC motor
controller share one RS-485 line, on which the main board is the master.

This directory models the parts of that code where several threads, interrupts and devices
meet, checks the models with TLC and proves what TLAPS can prove of them for every size.

## Inventory

| Part | State | Operations | Meets | What makes it correct |
|---|---|---|---|---|
| Modbus master core (`mb_m.c`, `mbrtu_m.c`, `mbfuncholding_m.c`, `user_mb_app_m.c`) | receive and send state, position, buffers, destination address, error type, `mb_switch_flag`, register blocks | register read, vendor frame, poll, three callbacks | every bus user; interrupts | one transaction at a time; every request completes once; answers and registers belong to the request |
| RT-Thread port (`portevent_m.c`, `porttimer_m.c`, `portserial_m.c`) | event set, run semaphore, one-shot timer, transmit flag | post/get event, take/release bus, wait for completion | kernel IPC, UART, timer | no event is lost; the bus is released once per request |
| Bus users (`application.c` 152-875, 1215, 1248) | `modbus_mutex`, `rs485_send_buf_not_modbus` | disp, dispset, SysMonitor, dcm, `set_dispboard_function_mode`, `airclean_motor_set` | the master | threads with the mutex do not touch each other's frames |
| Settings and outputs (`application.c` 1055-1245, 1526-1701, 2104) | `device_work_data`, its backup copy, output pins | commands of phone and keys, automatic and manual drive | Wi-Fi, display and power threads; bus; flash | outputs follow the settings; off means off; modes are known |
| Shut-off timer (`application.c` 2293) | `power_tim_cnt`, `power_state_pre`, `timing_state` | count, decrement, expire | settings | runs out; stays in 0..12 |
| Parameter store (`wifi_mod_uart.c` 157-205) | flag and six bytes in flash | boot, load, save | SPI flash | what is in use survives a power cut |
| Automatic decision (`application.c` 1526) | sensor values | four passes over the rooms | settings | the level the thresholds ask for |
| Wi-Fi link (`wifi_mod_uart.c`) | byte-wise parser, one-place buffer, counting semaphore | receive, decode, reply | UART, settings | frames stay inside the buffer; only what was sent is executed; the last command wins |
| Wi-Fi factory reset (`wifi_mod_uart.c` 599) | receive thread, AT dialogue | handshake with timeouts | Wi-Fi link | ends, and the receive thread runs again |
| SPI flash driver (`bsp_spi_flash.c`) | chip | page split, read, write | parameter store | each byte written once, no page crossed |
| Fault monitor (`application.c` 2152-2212) | fault bits, last reported | poll pins, report | motor thread, display board | the bits come to agree with the inputs and the panel with the bits |
| Display board link (`User/main.c`) | receive buffer, pending keys, settings shown | receive interrupt, `cmd_uart_check`, replies | main board | a key acts once at most and is reported; the panel comes to show the settings |
| Display keys and panel (`User/Led/bsp_led.c`) | key states, timer digits, panel image | key scan, drawing | link | one press, one effect; the timer stays in 0 to 12 hours |

Hard behaviours: ten threads of five priorities preempt each other and share one settings
record without a lock; a request waits without a time limit for an event that a lower
priority thread must produce; events are bits that can merge; slaves answer late, wrongly,
too long or not at all; the mains can fail at any time. The list, with lines, is under
`hazards` in `PROJECT.json`.

## Modules

| Module | Models |
|---|---|
| `BusService` | what a requester may expect: requests are accepted one at a time, finished once, left |
| `ModbusMaster` | the master stack, its port and its users; shown to implement `BusService` |
| `ModbusMasterProofs` | theorems about `ModbusMaster` |
| `MCModbus` | instances for TLC (`MCModbus*.cfg`) |
| `DeviceControl` | settings, outputs, automatic level, shut-off timer and parameter block under phone, keys, power monitor and power cuts |
| `DeviceControlProofs` | theorems about `DeviceControl` |
| `MCDevice` | instances for TLC (`MCDevice*.cfg`) |
| `ParamStore`, `ParamStoreProofs`, `MCStore` | saving and loading the settings byte by byte on the SPI bus; the page split of the flash driver |
| `WifiLink`, `WifiLinkProofs`, `MCWifi` | the serial link to the Wi-Fi module, from bytes to commands, and `wifi_factory_set` |
| `DisplayLink`, `DisplayLinkProofs`, `MCDisplay` | both boards: requests, frames, fault monitor, keys reported, panel shown |
| `PanelKeys`, `MCKeys` | the key scanners of the display board and the timer digits |
| `PanelKeysProofs` | theorems about `PanelKeys` |

The modules cut the system where its parts meet through little: `ModbusMaster` shows that a
request ends and what it may disturb, and `DeviceControl` and `DisplayLink` use a request as
one step or a wait with a limit; `WifiLink` and `DisplayLink` say which commands arrive, and
`DeviceControl` what a command does; `ParamStore` shows that each
page write of an undisturbed save arrives as a whole, and `DeviceControl` has the two page
writes of a save as two steps; `PanelKeys` says when a press is one, and
`DisplayLink` takes it from there.

### ModbusMaster

A requester moves through the stages of its call: `mutex` (only those that take
`modbus_mutex`), `fill` (compose the vendor frame), `take` (semaphore), `post`, `wait`,
`woken`, `unlock`. The poll thread is suspended in `rt_event_recv` (`wait`), holds received
bits (`handle`), is about to release the bus (`release`) or sleeps its 10 ms (`delay`).
Received bytes, the one-shot timer and the transmitter thread are actions of their own.

What matters of the kernel is kept. `rt_event_send` and `rt_sem_release` hand over to a
waiter directly, by priority. A thread of higher priority runs before the poll thread
(`LowCanRun`), and the transmitter thread, which busy-waits at priority 10, keeps all lower
threads off the processor while it sends. `rt_event_recv` takes all pending bits at once; a
combination matches no case of `xMBMasterPortEventGet` and leaves `eEvent` uninitialised,
so the model chooses any value or none.

Data is abstracted: a frame is its composer or its slave; an answer is good, has a bad CRC,
is an exception or is a vendor frame, and has a length. Vendor frames are taken never to
pass the CRC check. `result` is reset when the call returns and `wire` when the send state
leaves XFWR: both only serve the properties.

`Locked` are the threads that hold `modbus_mutex` around a request; the firmware has both
kinds. The motor thread (`application.c:184`) and the `set_dc_motor_speed` of the Wi-Fi thread
(`application.c:1215`, a member of `Silent`: it composes and requests nothing) take no mutex
and overwrite `rs485_send_buf_not_modbus` while a display request is outstanding. The
properties about frames and answers (`ComposedFrameIsKept`, `LineCarriesOwnFrame`,
`AnswerIsOwn`) therefore say of a request made under the mutex that only these two can be the
cause when its bytes are not its own: never another thread with the mutex, a sensor, or an
answer left over from an earlier request.

The four assertions of `mbrtu_m.c` are modelled. Three belong to callbacks and hold
(`CallbackAssertions`); the fourth, of `eMBMasterRTUReceive`, fails for an answer that fills
the buffer exactly (`bus_full_answer`), and the board then stops (`Halted`, as in
`assert_failed` of `startup.c`). `BusService` has the stop too (`Stop`), and the liveness
properties except it.

Timing enters in three guards. The respond timeout (200 ms) outlasts the poll delay (10 ms);
the bytes of one answer follow within T35; the first delay of every thread (100 ms and more)
outlasts the start-up silence (4 ms). `Late` says whether a slave may answer after the
respond timeout: the passing runs have prompt slaves, `bus_late_hang` shows what a late one does,
and the theorems `TypeCorrect` and `FrameIsKept` include late ones. Bytes of a late answer that
are on the line when a transmission starts are lost. `modbus_mutex` is FIFO in the code; the model lets any waiter have it.

### DeviceControl

`dev`, `bak`, `flash`, `out`, `cnt` and `pre` are `device_work_data`,
`device_work_data_bak`, the parameter block, the pins, `power_tim_cnt` and
`power_state_pre`. The Wi-Fi decoder and the display thread both execute
`set_device_work_mode`: the copy to `device_work_data_bak` (`Begin`), the assignments
(`SetPower`, `SetOther`), the wait for the bus (`WifiTell`), the comparison (`Compare`), the
write of the flag and the write of the block (`SaveFlag`, `SaveData`) are steps of their own.
The Wi-Fi thread (priority 8) preempts the two others (priority 9) between any two of them, and
these share the processor in time slices (`CanRun`). The power monitor is split in the same way
between the note of the timer, its decrement, its check, its save and its waits.
`Reboot` is a power cut at any of these points.

Two histories name what the code does not promise. `overlap` is set when a command replaces
`device_work_data_bak` before the other thread has compared with it, and cleared by the next
complete save: in between a setting may be in use and not saved. `torn` is set when the block is
read between the two writes of the very first save, whose flag comes first: the blank block is
then taken for settings with mode 0xFF, which the boot sequence does not repair (it only looks
for mode 0).

The bus is reduced to its mutex: that a request ends is what the bus runs show. The display
thread holds the mutex while it executes a key; the other holders change nothing while they
hold it and are one step.
`motor_mutex` is used by the power monitor alone and is left out. A command that
`set_device_work_mode` rejects changes nothing and is no step. The flash chip (M25PE80, page
write 0x0A) replaces what it writes, so a save needs no erase.

The state frame (F2) that `get_display_board_data` can apply is left out: the display board
never sends one, the only calls of its `return_current_device_state` are commented out. The
readings of the rooms are chosen from `Air` at every decision; `AutoLevel` is the decision,
compared with a reference at both sides of every limit.

### ParamStore

`mem` are the cells of the chip, `chip` its write enable latch, its write-in-progress bit and
the transaction that chip select has opened. The threads of priority 8 preempt that of
priority 9 between any two bytes; what an instruction does that arrives in the middle of a
transaction of the other thread (data of a page write, or nothing) is modelled, and a read
of a chip that is not free may answer anything. A write cycle takes time (`WriteCycleEnds`),
and a power cut in it leaves the page as it was, blank or written. A command changes the
settings (`Change`) and saves them later (`Save`), after its wait for the bus; the power
monitor changes some of them (`Unsaved`: power state, speed and timer, `application.c:1251`,
`2339`) at any time without a save (`Drive`), in the middle of the save of another thread too.
What is promised of the flash is about the others (`Same`: mode, ESD and PHT). `clash` records
that one thread used the bus, or executed a command, in the middle of a save of another.
`BufferWrite` is the arithmetic of `SPI_FLASH_BufferWrite` with its unsigned bytes (`U8`), whose range is the page size in the
code and in the model. A load is one step: it only reads.

### WifiLink

`rx` is the parser of `wifi_rx_isr` (length, `wait_len`, `wait_len_cnt`, buffer), `slot` the
one-place buffer, `sem` `wifi_uart_sem`. The copy into `slot` may be interrupted after any
byte, and the decode thread checks the frame in place in one step and executes it in
another. `wifi_factory_set` takes the line from the receive thread (`pcR = "deleted"`),
reads answers byte by byte (`stray` when it reads anything else), counts silent waits and
creates the thread again; `rx_sem` keeps its count between the two AT commands, as in the code, so that the second wait may give up
early. The Wi-Fi module is external: it passes whole frames on, except in AT mode, where it
answers a command once, or not. The frames have the codes of the program and all the types
`wifi_receive_data_decode` knows (`Types`, 0xF7 included). A byte past the buffer
(`Overrun`) stops the receive thread in the model, because what the program does then is not
defined. `twice` records that one frame lost two bytes.

### PanelKeys

`key[k]` are `KeyStep`, `KeyDownTimes` and `KeyDoubleTimes` of `power_Key` and
`MainSwitch_Key`, which are one state machine written twice; `KeyState` is shared. The main
loop scans one key after the other, with a frame of the main board (`Frame`) or a timer key
(`SetTimer`) in between. `press` and `alone` are history: what the press of a key has led
to, and whether the other key was at rest all through it. The reset bit of the Wi-Fi key is
kept apart from the faults shown, as in the code (`device_work_changing_data`): a state frame
leaves it alone.

### DisplayLink

On the main board, requests hold the bus one at a time (`req`); a request ends with an
answer or with the respond timeout, and whatever request is under way reads the answer that
arrives. `MotorRead` and `MotorWrite` are the two halves of `fault_set_bit` in the motor
thread, which repeats for ever (every half second in the code). A pass of the fault monitor
that falls between the two halves loses its update; it is counted as a trouble, since the
window is a few instructions in 200 ms.

The line is shared: the display also hears what sensors and motor are asked and answer
(`ForeignExchange`, as often as they like). Bytes without a start code, or with one that is not
repeated, leave its receiver as it was. An exchange that ends in a start code, or has one twice
(`Misleads`), shifts or swallows the next frame; such exchanges are troubles. A display frame
that a thread without the mutex composed over (see `ModbusMaster`) reaches the display as such
foreign bytes.

On the display board, `serial_int1_receive` may run between `CheckBegin`,
`CheckCopy` and `CheckApply`, the parts of `cmd_uart_check`: the copy of the buffer and its
clearing are each split at one place (`Cuts`). A frame has the bytes the display looks at:
of the 33 bytes of a state frame the settings in `Order` and the faults.
`set_dispboard_function_mode` stores three values in the same byte, so the display gets the
data in the place of the type and an uninitialised byte (`Garbage`) as the data.

## Runs

| Run | Shows | Bounds |
|---|---|---|
| `bus_prompt` | refinement of `BusService` with fairness (every request is finished and left); the mutex returns | a locked and an unlocked vendor requester, a sensor reader, one sensor, receive buffer of 3, answers of up to 4 bytes: short, exact, full and overrun answers all occur |
| `bus_mixed` | safety with all bus users of the firmware: one user, one stage, callbacks, registers; frames and answers of locked requests are disturbed by unlocked threads at most | two locked display threads, the locked sensor reader, the unlocked motor thread of the lowest priority, the Wi-Fi thread that composes without the mutex; two sensors, frames of 2 bytes; sensors and display threads are symmetric |
| `bus_late_hang` | **violated**: a late answer hangs the next request | one requester |
| `bus_raw_format` | **violated**: a vendor frame is sent as a Modbus frame | two vendor requesters, one of them unlocked |
| `bus_full_answer` | **violated**: an answer that fills the buffer fails the assertion of `eMBMasterRTUReceive` | a display thread and a sensor reader |
| `device` | settings survive power cuts unless commands overlapped, modes known, the automatic level follows its reference, timer and commands end | three commands or power cuts, with power, ESD and timer from the phone and power, mode and ESD keys, so that both kinds of overlap and a torn first save occur; a unit of 2 passes; counter up to 6 (so that it saturates, and two units fit below it); bytes up to 13, one more than the largest timer setting; 384,708 states |
| `device_timing` | **violated**: the timer wraps to 255 | set and cancel |
| `device_motor` | **violated**: the motor runs on after power off | one power-off |
| `store` | page writes are split correctly, undisturbed saves arrive and end, a cut leaves no mixture | two threads, three commands, loads, cuts or changes by the power monitor: a save over a save with a cut in either; pages of 4 bytes, 3 settings of which one changes without a save, so that flag and settings share a page as in the code; 1,228,994 states; the split is checked for every address in two pages and every length up to three |
| `wifi` | the parser stays in its buffer, only sent commands are executed, the last one wins, the line is given back | four frames (a reset counts as two), up to two lost bytes; the codes of the program, a timer of 12 hours and the question 0xF7, the largest data and the largest type of the protocol, which can get in the place of a length; a buffer of 24, longer than any frame that one loss can fake; one silent wait. With three lost bytes the end code can become the length and losses can compensate in the sum: then neither holds, nor when `wifi_factory_set` takes bytes out of a frame (`stray`) |
| `keys` | digits in 0 to 12, one effect per press, counts stop, a counted press has an effect | six changes of pins, frames or timer keys: three presses, of both keys, with double presses; 3 scans for a long press, 2 for a double one; 352,279 states |
| `display` | frames stay whole, keys act once and are reported, panel and faults settle | settings power and mode, two keys, a phone command, a fault input and the pin of the motor against a motor that answers that it is well; two foreign exchanges, one of which misleads the receiver; two inputs or troubles (lost bytes, lost answers, late passes, misleading exchanges, passes within `fault_set_bit`) in any order, with all requests, foreign exchanges and answers of the motor at any time; 256,280 states |

The bus runs do not check deadlock: the board may really stop, in `assert_failed`
(`bus_full_answer`) or, with late answers, in a wait (`bus_late_hang`). `store` and `wifi` do
not either: when the inputs are used up all threads wait for the next one.

`FlashIsCurrent`, `CutKeepsSettings` and `SavesFinish` speak of saves that no other thread
disturbed: the driver has no lock, a disturbed save can put instruction bytes into the block,
and the run explores those states too. `OneEffectPerPress` and `CountStops` speak of presses
during which the other key is at rest: with both keys down the shared `KeyState` can make a
long press act again.

`PanelSettles` and `FaultsSettle` say what happens when inputs and troubles stop, while
requests, foreign traffic and the motor thread go on: every loss, shifted or interrupted frame
and lost update of `fault_state` is repaired by the periodic state frame and the next pass of
the fault monitor. Both leave the motor's bit out: the monitor writes it from a pin, the motor
thread from the controller's answer, and when these disagree, as they do in the run, it changes
for ever.

`SettingsAreSaved` holds except between an overlap of two commands and the next save, and
`ModeIsKnown` except after a torn first save; the run reaches both. `StaysInBuffer` holds while
no frame loses more than one byte: when the type and the length of a 0xF7 frame are lost, its
check sum 0xF8 becomes the length and the parser writes past its 100 bytes; the run reaches
that too. `LastCommandWins` needs three whole frames after a loss, because a length of 12 (an
hour in the place of the length) swallows two.

`TimerRunsOut` asks for the shut-off itself, for timers of 1 to 12 that are left alone by
commands and power cuts. A setting that wrapped to 255 (`device_timing`) never runs out: 255 is
also the value that means "nothing noted". It takes a cancel or a reload to get there.

## Fairness

Every thread that can run eventually runs, the timer expires, bytes on the line arrive, a
started transmission proceeds: RT-Thread always runs the highest ready thread and no thread
of the firmware spins except the transmitter, whose loop ends. No fairness is assumed of
slaves, of the phone, of the keys, nor of a thread's decision to start a request. In
`ModbusMaster` a thread that has the bus and the poll thread have strong fairness: threads of
higher priority interrupt them again and again, but sleep between their requests. The fault
monitor of `DisplayLink` has it too: it has the highest priority, so that it is not kept out of
the times at which the motor thread is elsewhere.
`DeviceControl` and `DisplayLink` assume strong fairness for the steps that wait for
`modbus_mutex`, because it is handed over in FIFO order. `ParamStore` assumes that the chip
ends its write cycles, `WifiLink` that the waits of `wifi_factory_set` have a limit (they
do: 3 seconds), `PanelKeys` and `DisplayLink` that the main loop of the display board goes
round. That loop does wait in one place: `Key_Scan` spins while an ESD, PHT or speed key is held
(`bsp_led.c:1028`, `1139`, `1169`), so the assumption includes that held keys are released;
meanwhile requests time out, which the model has as late passes. Losses, answers of the module and presses are never assumed.

## Proofs

All theorems hold for every value of the constants that satisfies the named assumptions
(`RequesterAssumption`, `BusAssumption`, `CommandAssumption`, `TimerAssumption`,
`KeyAssumption`, `StoreAssumption`, `LayoutAssumption`, `LinkAssumption`,
`DisplayAssumption`): any number of requesters, threads, rooms, commands, losses and power
cuts, and the sizes of the firmware among others.

- `TypeCorrect`: `TypeOK` of `ModbusMaster`, late slaves included.
- `BusIsSafe` (slaves not late): `BusHasOneUser`, `RequestIsInOneStage`,
  `CallbackAssertions` and `RegistersFromOwnSlave`. None of them is inductive: which
  interrupt may come next depends on the timer, the receive and send states, the pending
  bits and the line together. The inductive invariant `BusInv` therefore says that the
  master is in exactly one of seven modes (boot, rest, send, transmit, await, receive,
  judge), each of which fixes all of these, next to the bookkeeping of the semaphore and the
  fact that a valid answer on its way comes from the addressed slave. Each action moves
  between two modes, and the four properties follow from the mode.
- `BusImplementsService` (slaves not late): every step maps to a step of `BusService` or a
  stutter, from the same invariant.
- `FrameIsKept` (any mixture of threads with and without the mutex; slaves may be late):
  `ComposedFrameIsKept`, from an invariant on who holds the mutex.
- `FrameOnLineIsOwn` (any mixture; slaves not late): `LineCarriesOwnFrame`. From `BusInv` the
  waiting requester is the one in transmission, from the mutex invariant no other thread with
  the mutex composes meanwhile; `WireInv` adds that what is on the wire was composed by the
  waiting requester or a thread without the mutex.
- `AnswersAreOwn` (the vendor requesters with the mutex run before the poll thread, as the
  display threads do; any other threads, with or without the mutex; slaves not late): the action
  property `AnswerIsOwn`. The invariant `OwnInv` adds to the ones above that, while such a
  request waits, only the answer to a frame of its `Composers` is owed, on the line, in the
  receive buffer or pending as an event, and that a request woken with `MB_MRE_REV_DATA` has it
  in the buffer. It needs all the others: the mode says which of these may be, the semaphore
  that nobody else is in transmission, the wire what the slave understood. The assumption on
  priorities matters: a woken requester below the poll thread could find the answer of the next
  request.
- `DeviceTypeCorrect` and `ModeStaysKnown`: `TypeOK` and `ModeIsKnown` of `DeviceControl`. The
  mode of the saved block is needed for the step that loads it, and where a save stands for the
  step that reads a block whose flag is new and whose data is blank.
- `SettingsStaySaved`: `SettingsAreSaved`, for all commands and any interleaving. The invariant
  says that, while no overlap is open, a written block agrees with the settings in use or,
  while a command is under way, with the copy taken before it, so that the comparison at its end
  finds the difference; and that a save between its two writes will make it agree.
- `LevelIsReference` and `LevelCorrect`: the four passes over the rooms come to the level of
  the worst and the best grade, for any number of rooms and any readings;
  `LevelIsOfWorstOrBest` is the same at the limits.
- `KeysTypeCorrect` and `TimerDigitsStay`: `TypeOK` and `TimerDigits` of `PanelKeys`, which
  need each other: the digits become the timer when the device is switched off.
- `PressActsOnce`: `OneEffectPerPress` and `CountStops`. The invariant `PressInv` ties, for a
  press during which the other key is at rest, the step and the counts of the scanner to
  what the press has led to and to `KeyState`: no effect before the limit, one long effect
  at it and `KeyState` long from then on, none while a second press is awaited.

- `BufferWriteSplits`: the arithmetic of `SPI_FLASH_BufferWrite`, with unsigned bytes that
  wrap, covers every address and length of fewer pages than the byte `NumOfPage` can count,
  once and in order, without leaving a page. `StoreWritesAreSplit` is `WritesAreSplit`.
- `StoreTypeCorrect`: `TypeOK` of `ParamStore`, from the additional fact that a thread that
  saves has the whole plan or its last write left.
- `SavesArrive` and `PowerCutKeepsSettings`: `FlashIsCurrent` and `CutKeepsSettings`, for
  settings and flag in one page (`LayoutAssumption`, as in the firmware: addresses 2 and 10
  with pages of 256). The invariant `SaveInv` says that, while no save was disturbed, the
  store is at rest with a block that agrees with the settings in use in the bytes that only
  change with a save, or exactly one thread saves; the stage it is at fixes the state of the chip, how many bytes of the page it has
  received, and which of the two page writes the cells already hold.
- `WifiTypeCorrect`: `TypeOK` of `WifiLink`, with any number of lost bytes.
- `ParserStaysInBuffer` and `ExecutesOnlySent`: `StaysInBuffer` and `ExecutedWasSent` as
  long as no byte was lost, after any number of frames and resets. `LinkInv` says that what
  the parser has and what is on the line make up the frame of one sent command, or that the
  parser is empty and the line has a new frame or bytes without a start code (the rest of an
  answer to an AT command); `SlotInv` that the buffer of the decode thread holds a sent
  command and nobody writes to it. With losses both properties depend on the values of the
  bytes (two losses in one frame break the first, three the second), so that case is left to TLC.
- `DisplayTypeCorrect`: `TypeOK` of `DisplayLink`; in particular the receive interrupt never
  overruns its buffer, out of step or not.
- `KeysActAtMostOnce`: `KeysActOnce`. The invariant `KeyInv` counts: the presses executed,
  pending on the display board and on their way back are never more than those asked for.
- `FramesAreWhole`: `FrameIsWhole`. The invariant `StepInv` says that, untroubled, the bytes
  received and the bytes on the line are together the frame sent last, or that it has
  arrived as a whole in the buffer, the flag or the copy; or that the bytes are those of a
  foreign exchange that passes by (`Passing`: what is left of it cannot be taken for a start);
  and that nothing is left over when no request is under way.

Only model-checked: liveness (`ImplementsFairService`, `MutexIsReturned`, `TimerRunsOut`,
`CommandsFinish`, `SavesFinish`, `LastCommandWins`, `LineIsGivenBack`, `PressHasEffect`,
`KeysAreReported`, `PanelSettles`, `FaultsSettle`), which is out of the prover's reach, and
`StaysInBuffer` and `ExecutedWasSent` after one or two lost bytes. Every other invariant and
action property of a passing run is also a theorem.

## Disagreements with the code's own documentation

1. `mbconfig.h:115` promises that after the respond timeout the master can send another
   frame. If the slave answers late, the reception and the next send are two bits in one
   event, neither is recognised, and the requester waits for ever (`bus_late_hang`).
2. `mbfuncholding_m.c:296` says that the function sends data not in Modbus format. The late
   `mb_switch_flag=0` of the unlocked motor thread makes the next one go out as a Modbus
   frame (`bus_raw_format`).
3. `wifi_mod_uart.c:230` gives the timer byte as 0 or 1-12. A cancel between the check and
   the decrement makes it 255 (`device_timing`).
4. `application.c:2103` says that mode 0 is off. A power-off during the power monitor's wait
   for the bus is undone for the AC motor (`device_motor`).
5. `mbrtu_m.c:163` asserts that the receive position is below the size of the buffer. The
   receive state machine (line 332) lets it reach the size, so an answer that fills the buffer
   exactly stops the board (`bus_full_answer`).

## Not modelled

- The RT-Thread kernel, the ST and CMSIS libraries, the file systems, the network and GUI
  components and the board support packages of other boards: vendored code, by far the most
  lines of the repository. What the firmware needs of the kernel (events, semaphores,
  mutexes, priorities) is part of the modules that use it.
- Board initialisation and register access (pure I/O); the camera applications that remain
  in `applications/` but are not built; the stale copy `FreeModbus_2`.
- Erasing, identification and power-down of the flash chip: the firmware has no call of them.
- The HT1621 drawing code and the icons. The display board numbers fault bits 3 and 4 the
  other way round than the main board (`main.c:45`, `wifi_mod_uart.h:41`), which only
  changes the icon.
- The reply to the phone. Its check sum is added to an uninitialised variable
  (`wifi_mod_uart.c:82`), which the phone would notice and the firmware does not.
- The timer on its way between the boards: a state frame does not bring it to the panel and
  function frames are malformed, so `DisplayLink` has no setting for it; `PanelKeys` takes it
  as a possible setting of an F1 frame.
- No frame that today's display board sends calls `wifi_factory_set`; it is modelled as an
  operation that may be called at any time.

## Plan

1. Action properties worth stating as theorems from the invariants at hand: a request that
   is accepted is finished exactly once; the mutex is given back by its holder only.
2. The safety half of liveness: that a wait of the master always has its timer running or
   an event pending (slaves not late), so that only fairness is left to TLC.
3. A composition of `DisplayLink` and `DeviceControl`: from a press to the outputs.
