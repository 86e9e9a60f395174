------------------------------ MODULE ParamStore ------------------------------
(* The parameter store: device_sys_para_save and device_sys_para_get of        *)
(* wifi_mod_uart.c on top of the serial flash driver bsp_spi_flash.c.          *)
(*                                                                             *)
(* The threads that save and load the settings share the SPI bus without a     *)
(* lock: a thread of a higher priority may preempt another between any two     *)
(* bytes, and the mains may fail at any moment.  The chip itself (an M25PE80)  *)
(* is modelled from the instructions the driver sends to it.                   *)
EXTENDS Integers, Sequences

CONSTANTS
    Threads,     \* the threads that save and load the settings
    Urgent,      \* those of priority 8; the others have priority 9
    PageSize,    \* SPI_FLASH_PageSize, and the range of a u8 (both 256)
    Pages,       \* pages of the chip that are modelled
    FlagAddr,    \* SYS_PARA_FLAG_ADDR
    DataAddr,    \* SYS_PARA_START_ADDR
    DataLen,     \* the bytes of the settings (6)
    Unsaved,     \* those that also change without a save: power state, speed and timer
    Values,      \* values of a setting
    Valid,       \* the flag of a written block (0x86)
    Junk,        \* an instruction byte of another transaction
    Blank,       \* an erased byte
    None,        \* no settings
    MaxOps       \* bound on changes, loads and power cuts

Bytes == Values \cup {Valid, Junk, Blank}
Cells == 0..(Pages * PageSize - 1)

ASSUME StoreAssumption ==
    /\ PageSize \in Nat \ {0} /\ Pages \in Nat \ {0} /\ DataLen \in Nat \ {0}
    /\ FlagAddr \in Cells /\ DataAddr \in Cells /\ DataAddr + DataLen - 1 \in Cells
    /\ FlagAddr \notin DataAddr..(DataAddr + DataLen - 1)
    /\ Urgent \subseteq Threads /\ MaxOps \in Nat /\ Unsaved \subseteq 1..DataLen
    /\ Valid \notin Values \cup {Junk, Blank}
    /\ Values # {} /\ None \notin [1..DataLen -> Bytes]

VARIABLES
    mem,      \* the cells of the chip
    prior,    \* the cells before the write cycle that is under way
    chip,     \* write enable latch, write in progress, selected transaction
    ram,      \* the settings in device_work_data
    pc,       \* what each thread does
    todo,     \* the page writes that are left of its save
    sent,     \* data bytes sent of the first of them
    ops,      \* changes, loads and power cuts so far
    clash,    \* history: a thread used the bus, or changed the settings, in the middle of a
              \* save of another
    kept      \* history: the settings of the last save that was completed

vars == <<mem, prior, chip, ram, pc, todo, sent, ops, clash, kept>>

-------------------------------------------------------------------------------
\* SPI_FLASH_BufferWrite

\* The variables Addr, count, temp, NumOfPage and NumOfSingle are unsigned bytes.
U8(n) == n % PageSize

Page(a) == a \div PageSize

\* The flag (at 2) and the settings (six bytes at 10) lie in one page of 256 bytes.
ASSUME LayoutAssumption ==
    /\ PageSize > 3 /\ DataLen < PageSize
    /\ U8(DataAddr) + DataLen <= PageSize
    /\ Page(FlagAddr) = Page(DataAddr)

WholePages(addr, k) == [i \in 1..k |-> <<addr + (i - 1) * PageSize, PageSize>>]

\* [mutant] The room in the first page is counted from the wrong end.
BufferWrite_WrongCount(addr, n) ==
    LET Addr == U8(addr) IN
    IF Addr # 0 /\ n > Addr
    THEN << <<addr, Addr>>, <<addr + Addr, n - Addr>> >>
    ELSE << <<addr, n>> >>

\* The calls of SPI_FLASH_PageWrite, as <<address, length>>.
BufferWrite(addr, n) ==
    LET Addr  == U8(addr)
        count == U8(PageSize - Addr)
        pages == U8(n \div PageSize)
        rest  == n - count
        over  == U8(rest \div PageSize)
    IN  IF Addr = 0
        THEN IF pages = 0
             THEN << <<addr, n>> >>
             ELSE WholePages(addr, pages) \o << <<addr + pages * PageSize, U8(n)>> >>
        ELSE IF pages = 0
             THEN IF U8(n) > count
                  THEN << <<addr, count>>, <<addr + count, U8(U8(n) - count)>> >>
                  ELSE << <<addr, n>> >>
             ELSE << <<addr, count>> >> \o WholePages(addr + count, over) \o
                  (IF U8(rest) # 0 THEN << <<addr + count + over * PageSize, U8(rest)>> >>
                                   ELSE << >>)

\* [mutant] Each setting is written on its own (eeprom_byte_write).
SavePlan_ByteByByte ==
    BufferWrite(FlagAddr, 1) \o [i \in 1..DataLen |-> <<DataAddr + i - 1, 1>>]

\* device_sys_para_save: the flag first, then the settings.
SavePlan == BufferWrite(FlagAddr, 1) \o BufferWrite(DataAddr, DataLen)

-------------------------------------------------------------------------------
\* The chip

Deselected == [chip EXCEPT !.sel = "no", !.got = << >>]

\* A page write stores the bytes from the address on and wraps at the end of the page.
Programmed(a, bytes) ==
    LET cell(i) == Page(a) * PageSize + ((a + i - 1) % PageSize)
    IN  [c \in Cells |->
            IF \E i \in DOMAIN bytes : c = cell(i)
            THEN bytes[CHOOSE i \in DOMAIN bytes : c = cell(i)]
            ELSE mem[c]]

\* A byte that reaches the chip while it takes in data becomes data.
Taken(b) == IF chip.sel = "data" THEN [chip EXCEPT !.got = Append(@, b)] ELSE chip

\* Chip select goes high after the bytes got: the end of a page write starts its cycle.
Release(got) ==
    IF chip.sel = "data" /\ got # << >>
    THEN /\ mem' = Programmed(chip.at, got)
         /\ prior' = mem
         /\ chip' = [Deselected EXCEPT !.busy = TRUE, !.wel = FALSE]
    ELSE chip' = Deselected /\ UNCHANGED <<mem, prior>>

WriteCycleEnds ==
    /\ chip.busy
    /\ chip' = [chip EXCEPT !.busy = FALSE]
    /\ prior' = mem
    /\ UNCHANGED <<mem, ram, pc, todo, sent, ops, clash, kept>>

-------------------------------------------------------------------------------
\* The threads

\* The block as device_sys_para_get and device_state_init find it.
Block == [i \in 1..DataLen |-> mem[DataAddr + i - 1]]
Written == mem[FlagAddr] = Valid

Idle == \A t \in Threads : pc[t] = "idle"

\* Thread t is in the middle of a save.
Active(t) == pc[t] \notin {"idle", "changed"}

\* A thread of priority 9 runs only when no thread of priority 8 is ready.
Scheduled(t) == t \notin Urgent => \A u \in Urgent : ~Active(u)

\* Another thread is in the middle of its save.
Disturbs(t) == \E u \in Threads \ {t} : Active(u)

BusStep(t) ==
    /\ Scheduled(t)
    /\ clash' = (clash \/ Disturbs(t))
    /\ UNCHANGED <<ram, ops>>

Goto(t, l) == pc' = [pc EXCEPT ![t] = l]

\* The power monitor (priority 9) sets the speed and counts the timer down, and a boot or a
\* reload sets the power state: nothing of that is saved.
Drive(i, v) ==
    /\ \A u \in Urgent : ~Active(u)
    /\ ops < MaxOps /\ ops' = ops + 1
    /\ ram[i] # v /\ ram' = [ram EXCEPT ![i] = v]
    /\ UNCHANGED <<mem, prior, chip, pc, todo, sent, clash, kept>>

\* The settings are changed (set_device_work_mode, thread_entry_power_monitor); the thread may
\* have to wait for modbus_mutex before it saves them.
Change(t, settings) ==
    /\ pc[t] = "idle" /\ Scheduled(t) /\ ops < MaxOps
    /\ ops' = ops + 1
    /\ ram' = settings
    /\ Goto(t, "changed")
    /\ todo' = [todo EXCEPT ![t] = SavePlan]
    /\ clash' = (clash \/ Disturbs(t))
    /\ UNCHANGED <<mem, prior, chip, sent, kept>>

\* device_sys_para_save is called.
Save(t) ==
    /\ pc[t] = "changed" /\ BusStep(t)
    /\ Goto(t, "enable")
    /\ UNCHANGED <<mem, prior, chip, todo, sent, kept>>

\* SPI_FLASH_WriteEnable: selects, sends 0x06 and deselects.
WriteEnable(t) ==
    /\ pc[t] = "enable" /\ BusStep(t)
    /\ IF chip.sel = "no" /\ ~chip.busy
       THEN chip' = [chip EXCEPT !.wel = TRUE] /\ UNCHANGED <<mem, prior>>
       ELSE Release(Append(chip.got, Junk))
    /\ Goto(t, "begin")
    /\ UNCHANGED <<todo, sent, kept>>

\* SPI_FLASH_PageWrite: selects, sends the instruction and the address.
PageWriteBegin(t) ==
    /\ pc[t] = "begin" /\ BusStep(t)
    /\ chip' = IF chip.sel = "no" /\ ~chip.busy /\ chip.wel
               THEN [chip EXCEPT !.sel = "data", !.at = Head(todo[t])[1]]
               ELSE IF chip.sel = "no" THEN [chip EXCEPT !.sel = "ignored"] ELSE Taken(Junk)
    /\ Goto(t, "bytes")
    /\ sent' = [sent EXCEPT ![t] = 0]
    /\ UNCHANGED <<mem, prior, todo, kept>>

\* The byte for address a, read from device_work_data at that moment.
Source(a) == IF a = FlagAddr THEN Valid ELSE ram[a - DataAddr + 1]

PageWriteByte(t) ==
    /\ pc[t] = "bytes" /\ sent[t] < Head(todo[t])[2] /\ BusStep(t)
    /\ chip' = Taken(Source(Head(todo[t])[1] + sent[t]))
    /\ sent' = [sent EXCEPT ![t] = @ + 1]
    /\ UNCHANGED <<mem, prior, pc, todo, kept>>

\* Deselects, and the wait begins: SPI_FLASH_WaitForWriteEnd selects the status register.
PageWriteEnd(t) ==
    /\ pc[t] = "bytes" /\ sent[t] = Head(todo[t])[2] /\ BusStep(t)
    /\ Release(chip.got)
    /\ Goto(t, "wait")
    /\ UNCHANGED <<todo, sent, kept>>

WaitBegin(t) ==
    /\ pc[t] = "wait" /\ BusStep(t)
    /\ chip' = IF chip.sel = "no" THEN [chip EXCEPT !.sel = "status"] ELSE Taken(Junk)
    /\ Goto(t, "poll")
    /\ UNCHANGED <<mem, prior, todo, sent, kept>>

\* [mutant] The driver does not wait for the end of the write cycle.
StatusReady_NoWait == TRUE

\* [mutant] The test of the write-in-progress bit is inverted.
StatusReady_Inverted == chip.sel = "status" => chip.busy

\* The write-in-progress bit is clear.  When another thread has deselected the chip, the
\* line floats and any status may be read.
StatusReady == chip.sel = "status" => ~chip.busy

\* [mutant] The save returns after its first page write.
WaitForWriteEnd_Once(t) ==
    /\ pc[t] = "poll" /\ BusStep(t)
    /\ StatusReady
    /\ Release(chip.got)
    /\ todo' = [todo EXCEPT ![t] = Tail(@)]
    /\ Goto(t, "idle")
    /\ kept' = ram
    /\ UNCHANGED sent

WaitForWriteEnd(t) ==
    /\ pc[t] = "poll" /\ BusStep(t)
    /\ StatusReady
    /\ Release(chip.got)
    /\ todo' = [todo EXCEPT ![t] = Tail(@)]
    /\ Goto(t, IF Len(todo[t]) = 1 THEN "idle" ELSE "enable")
    /\ kept' = IF Len(todo[t]) = 1 THEN ram ELSE kept
    /\ UNCHANGED sent

\* SPI_FLASH_BufferRead: what the chip answers when it is not free is not defined.
Answers(a, n) ==
    IF chip.sel = "no" /\ ~chip.busy THEN {[i \in 1..n |-> mem[a + i - 1]]}
                                     ELSE [1..n -> Bytes]

\* device_sys_para_get: the flag, and the settings if it is set.
Load(t) ==
    /\ pc[t] = "idle" /\ Scheduled(t) /\ ops < MaxOps
    /\ ops' = ops + 1
    /\ clash' = (clash \/ Disturbs(t))
    /\ \E flag \in Answers(FlagAddr, 1) :
         IF flag[1] = Valid THEN ram' \in Answers(DataAddr, DataLen) ELSE UNCHANGED ram
    /\ Release(Append(chip.got, Junk))
    /\ UNCHANGED <<pc, todo, sent, kept>>

-------------------------------------------------------------------------------
\* Power

\* rt_main_thread_entry and device_state_init: zeros (here the first value, which the
\* program replaces by its defaults) unless the block is written.
Defaults == [i \in 1..DataLen |-> CHOOSE v \in Values : TRUE]
Boot(m) == IF m[FlagAddr] = Valid THEN [i \in 1..DataLen |-> m[DataAddr + i - 1]] ELSE Defaults

Free == [sel |-> "no", at |-> 0, got |-> << >>, wel |-> FALSE, busy |-> FALSE]

Init ==
    /\ mem = [c \in Cells |-> Blank] /\ prior = mem
    /\ chip = Free
    /\ ram = Boot(mem)
    /\ pc = [t \in Threads |-> "idle"]
    /\ todo = [t \in Threads |-> << >>] /\ sent = [t \in Threads |-> 0]
    /\ ops = 0 /\ clash = FALSE /\ kept = None

\* A write cycle that is cut short leaves the page as it was, erased, or written.
CutPages ==
    IF chip.busy
    THEN {prior, mem} \cup
         {[c \in Cells |-> IF Page(c) = Page(chip.at) THEN Blank ELSE mem[c]]}
    ELSE {mem}

PowerCut ==
    /\ ops < MaxOps /\ ops' = ops + 1
    /\ \E m \in CutPages :
         /\ mem' = m /\ prior' = m
         /\ ram' = Boot(m)
         /\ kept' = IF m[FlagAddr] = Valid /\ kept # None THEN Boot(m) ELSE None
    /\ chip' = Free
    /\ pc' = [t \in Threads |-> "idle"]
    /\ todo' = [t \in Threads |-> << >>] /\ sent' = [t \in Threads |-> 0]
    /\ UNCHANGED clash

-------------------------------------------------------------------------------
Step(t) ==
    \/ Save(t) \/ WriteEnable(t) \/ PageWriteBegin(t) \/ PageWriteByte(t) \/ PageWriteEnd(t)
    \/ WaitBegin(t) \/ WaitForWriteEnd(t)

Next ==
    \/ WriteCycleEnds \/ PowerCut
    \/ \E i \in Unsaved, v \in Values : Drive(i, v)
    \/ \E t \in Threads :
         \/ Step(t) \/ Load(t)
         \/ \E s \in [1..DataLen -> Values] : Change(t, s)

Spec == Init /\ [][Next]_vars

\* The chip ends its write cycles; a thread that is ready runs when no more urgent one does.
FairSpec == Spec /\ WF_vars(WriteCycleEnds) /\ \A t \in Threads : WF_vars(Step(t))

-------------------------------------------------------------------------------
\* Properties

\* Type invariant; in particular a thread has page writes left exactly while it saves.
TypeOK ==
    /\ mem \in [Cells -> Bytes] /\ prior \in [Cells -> Bytes]
    /\ chip \in [sel : {"no", "data", "status", "ignored"}, at : Cells, got : Seq(Bytes),
                 wel : BOOLEAN, busy : BOOLEAN]
    /\ ram \in [1..DataLen -> Bytes]
    /\ pc \in [Threads -> {"idle", "changed", "enable", "begin", "bytes", "wait", "poll"}]
    /\ sent \in [Threads -> 0..PageSize]
    /\ todo \in [Threads -> Seq(Cells \X (1..PageSize))]
    /\ \A t \in Threads : todo[t] = << >> <=> pc[t] = "idle"
    /\ ops \in 0..MaxOps /\ clash \in BOOLEAN /\ kept \in [1..DataLen -> Bytes] \cup {None}

\* The page writes for n bytes from addr stay in their pages and follow each other.
Split(addr, n) ==
    LET plan == BufferWrite(addr, n)
        start(i) == IF i = 1 THEN addr ELSE plan[i - 1][1] + plan[i - 1][2]
    IN  /\ \A i \in 1..Len(plan) :
             /\ plan[i][1] = start(i)
             /\ U8(plan[i][1]) + plan[i][2] <= PageSize
        /\ start(Len(plan) + 1) = addr + n
AllAreSplit == \A addr \in 0..(2 * PageSize), n \in 0..(3 * PageSize) : Split(addr, n)

\* SPI_FLASH_BufferWrite splits any buffer into page writes that never leave their page and
\* that together write every byte once and in order: from any address, of any length; and
\* the page writes of a save that is under way stay in their pages.
WritesAreSplit ==
    /\ AllAreSplit
    /\ \A t \in Threads : \A i \in DOMAIN todo[t] : U8(todo[t][i][1]) + todo[t][i][2] <= PageSize

\* The settings s and r agree in the bytes that only change with a save: mode, ESD and PHT.
Same(s, r) == \A i \in (1..DataLen) \ Unsaved : s[i] = r[i]

\* When nothing is left to be saved, a valid block holds the mode, ESD and PHT settings in use,
\* unless a save was disturbed by another thread on the SPI bus: every other save arrives,
\* whatever was changed, loaded or cut before, and whatever the power monitor changed in the
\* middle of it.  (The power state, the speed and the timer change without a save.)
FlashIsCurrent == Idle /\ ~clash /\ Written => Same(Block, ram)

\* A power cut at any moment of an undisturbed save leaves the mode, ESD and PHT settings that
\* were saved before, the new ones or the defaults, never a mixture: the block lies in one
\* page.  (A cut between the two writes of the first save of a blank chip leaves a valid flag
\* on a blank block.)
CutKeepsSettings ==
    [][PowerCut /\ kept # None /\ ~clash => \E s \in {kept, ram, Defaults} : Same(ram', s)]_vars

\* A save comes to its end when no other thread disturbs it: the status of the chip is
\* polled until its write cycle is over.
SavesFinish == \A t \in Threads : pc[t] # "idle" ~> (pc[t] = "idle" \/ clash)
===============================================================================
