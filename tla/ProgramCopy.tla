----------------------------- MODULE ProgramCopy -----------------------------
(***************************************************************************)
(* The two device drivers under fvc.c and the loops that use them: the     *)
(* W25Q flash driver (W25Q_Driver/Library/w25q_mem.c) on a chip that works *)
(* on after a command, and the SPI bootloader driver                       *)
(* (STM32_SPI_Bootloader/stm32_spi_bootloader.c) on a target that answers  *)
(* when it is ready, possibly after the driver has given up.               *)
(*                                                                         *)
(* A driver function is the sequence of its operations on the bus.  The    *)
(* main thread is at a label, pc, that calls one function; step is the     *)
(* operation that comes next, 0 once the function has returned ret.  An    *)
(* operation that fails ends it.  The content of a page is the set         *)
(* of its programmed (cleared) bits: an erased page is {}, programming     *)
(* adds to the set.  A read of a chip that is busy, or not in quad mode,   *)
(* finds the data lines floating, all ones or all zeros.  Records, HMAC    *)
(* and host are Fvc's.                                                     *)
(*                                                                         *)
(* The failures of the HAL on the flash are of two kinds: those a caller   *)
(* looks at, and those nobody notices, because the wait for an idle chip   *)
(* ends with an error as it does with an idle chip, or because the result  *)
(* of the call is ignored.  The content that is promised does not depend   *)
(* on the number of the first; of the second an update stands one.         *)
(***************************************************************************)
EXTENDS Integers, Sequences

CONSTANTS
  Bits,            \* the bits of a page
  MaxPages,        \* pages of either flash
  Programs,        \* programs, sequences of page contents
  None,            \* no operation, no message, no answer
  RetryLimit,      \* the 3 of "retry_counter > 3"
  MaxFlashFaults,  \* bound: HAL_QSPI calls that fail and are looked at
  MaxUnnoticed,    \* bound: those that nobody notices, from the start or an update on
  MaxLineFaults    \* bound: messages or answers damaged, lost or late on the target's SPI

Pages   == 1..MaxPages
Content == SUBSET Bits
Erased  == {}

\* What the flash holds, and what it may be busy with.
Cells == [page : [Pages -> Content], quad : BOOLEAN]
Works == [op : {"erase", "program", "quad"}, then : Cells]

\* What the driver can ask of the bootloader, and its messages as they arrive.
Commands == {"ERASE", "WRITE", "READ", "GO"}
Messages ==
  {<<"sync">>, <<"scope">>, <<"count">>, <<"damaged">>}
  \cup {<<"command", c>> : c \in Commands \cup {"GET"}}
  \cup {<<"address", i>> : i \in Pages} \cup {<<"block", d>> : d \in Content}

ASSUME ProgramsAssumption ==
  /\ Programs \subseteq Seq(Content)
  /\ \A p \in Programs : Len(p) \in Pages

ASSUME BoundsAssumption ==
  /\ MaxPages \in Nat \ {0}
  /\ {RetryLimit, MaxFlashFaults, MaxUnnoticed, MaxLineFaults} \subseteq Nat

ASSUME NoneAssumption == None \notin Works \cup Messages \cup {"ACK", "NACK"}

VARIABLES
  cells,      \* the W25Q: its pages and its quad enable bit
  wel,        \* its write enable latch
  work,       \* the operation it is busy with, op, and what cells then becomes
  prog,       \* the target's program flash
  app,        \* the target runs its application, not its bootloader
  rom,        \* what the bootloader expects next, the command it is in, its address
  inbox,      \* a message the bootloader has not dealt with yet
  reply,      \* an answer the driver has not polled yet
  spi,        \* the role of SPI2, that the bootloader and the supervisor share
  mode,       \* ctx.curr_mode
  supported,  \* supported_commands_list
  pc, step, ret,
  at,         \* the page a loop is at, or the call of the quad enabling
  retry,      \* retry_counter
  buff,       \* the page last read from either flash: buff, flash_data, validation_data
  match,      \* a validation's hash is so far that of the recorded program
  image,      \* the program that the EEPROM's records describe
  coming,     \* the program an update is storing
  status,     \* ctx.status
  task,       \* the caller of the copy
  flashFaults, unnoticed, lineFaults   \* what is left of the bounds

chip   == <<cells, wel, work>>
target == <<prog, app, rom, inbox, reply>>
local  == <<retry, buff, match>>
loop   == <<at, local>>
job    == <<image, coming, status, task>>
faults == <<flashFaults, unnoticed, lineFaults>>
board  == <<spi, mode>>
vars   == <<chip, target, board, supported, pc, step, ret, loop, job, faults>>


Padded(p) == [i \in Pages |-> IF i <= Len(p) THEN p[i] ELSE Erased]
Holds(f, p) == \A i \in 1..Len(p) : f[i] = p[i]

LineFault ==
  lineFaults > 0 /\ lineFaults' = lineFaults - 1 /\ UNCHANGED <<flashFaults, unnoticed>>

-----------------------------------------------------------------------------
(* The driver functions                                                    *)

W25Q_ReadID           == <<<<"register">>>>
W25Q_ReadStatusReg    == <<<<"register">>>>
W25Q_ReadStatusStruct == W25Q_ReadStatusReg \o W25Q_ReadStatusReg \o W25Q_ReadStatusReg
W25Q_WriteStatusReg   == <<<<"wait">>, <<"enable">>, <<"send", "quad">>>>
W25Q_WriteStatusRegs  == <<<<"wait">>, <<"enable">>, <<"send", "quad">>>>
W25Q_EraseChip        == <<<<"wait">>, <<"enable">>, <<"send", "erase">>, <<"wait">>>>
W25Q_ProgramRaw       == <<<<"wait">>, <<"enable">>, <<"send", "program">>, <<"wait">>>>
W25Q_ReadRaw          == <<<<"wait">>, <<"receive">>>>

\* The driver's copy of the quad enable bit stays 0, so the bit is always written.
W25Q_Init ==
  W25Q_ReadID \o W25Q_ReadStatusStruct \o W25Q_ReadStatusReg \o W25Q_WriteStatusReg
    \o W25Q_ReadStatusStruct

\* A message to the bootloader, and the wait for its answer.
Exchange(m) == <<<<"tx", m>>, <<"rx">>>>
Command(c)  == Exchange(<<"command", c>>)

bootloader_init_process == <<<<"reset">>>> \o Exchange(<<"sync">>)
get_version_and_supported_commands == Command("GET") \o <<<<"list">>>>
jmp_to_bootloader == bootloader_init_process \o get_version_and_supported_commands

read_prog_memory ==
  Command("READ") \o Exchange(<<"address", at>>) \o Exchange(<<"count">>) \o <<<<"data">>>>

\* Mutant: the erase is taken for done once its command is acknowledged.
erase_memory_command == Command("ERASE")

\* The whole flash: 0xFFFF sectors.
erase_memory == Command("ERASE") \o Exchange(<<"scope">>)

write_memory ==
  Command("WRITE") \o Exchange(<<"address", at>>) \o Exchange(<<"block", buff>>)

jmp_to_app == Command("GO") \o Exchange(<<"address", 1>>)

\* The function that the main thread calls.
Code ==
  CASE pc = "init"                               -> W25Q_Init
    [] pc = "quad" /\ at < 3                     -> W25Q_ReadStatusReg
    [] pc = "quad" /\ at = 3                     -> W25Q_WriteStatusRegs
    [] pc \in {"connect", "reconnect", "enter", "reenter"} -> jmp_to_bootloader
    [] pc = "scan"                               -> read_prog_memory
    [] pc = "go"                                 -> jmp_to_app
    [] pc = "clear"                              -> W25Q_EraseChip
    [] pc = "program"                            -> W25Q_ProgramRaw
    [] pc \in {"verify", "readback", "load"}     -> W25Q_ReadRaw
    [] pc = "erase"                              -> erase_memory
    [] pc = "write"                              -> write_memory

Doing(op)   == step > 0 /\ Code[step][1] = op
Operand     == Code[step][2]

Return(r)   == step' = 0 /\ ret' = r
Proceed     == IF step < Len(Code) THEN step' = step + 1 /\ UNCHANGED ret ELSE Return(TRUE)

-----------------------------------------------------------------------------
(* The W25Q chip and the operations of its driver                          *)

Busy    == work # None
Settled == IF Busy THEN work.then ELSE cells

ChipDone ==
  /\ Busy
  /\ cells' = work.then /\ work' = None /\ wel' = FALSE
  /\ UNCHANGED <<target, board, supported, pc, step, ret, loop, job, faults>>

\* The callers that look at no result: fvc_main for quad mode, the update handler for the
\* erase and for the page read back.
Ignored == pc \in {"quad", "clear", "readback"}

UnnoticedFault ==
  unnoticed > 0 /\ unnoticed' = unnoticed - 1 /\ UNCHANGED <<flashFaults, lineFaults>>

\* A call of the HAL on the flash fails.
FlashFault ==
  IF Ignored THEN UnnoticedFault
  ELSE flashFaults > 0 /\ flashFaults' = flashFaults - 1 /\ UNCHANGED <<unnoticed, lineFaults>>

\* while (W25Q_IsBusy() == W25Q_BUSY): an error of the HAL ends the wait like an idle
\* chip.
Wait ==
  /\ Doing("wait") /\ Proceed
  /\ \/ ~Busy /\ UNCHANGED faults
     \/ UnnoticedFault
  /\ UNCHANGED <<chip, target, board, supported, pc, loop, job>>

\* W25Q_WriteEnable: a busy chip ignores it.
WriteEnable ==
  /\ Doing("enable")
  /\ \/ wel' = (wel \/ ~Busy) /\ Proceed /\ UNCHANGED faults
     \/ Return(FALSE) /\ FlashFault /\ UNCHANGED wel
  /\ UNCHANGED <<cells, work, target, board, supported, pc, loop, job>>

\* The data of a page program.
Programmed == coming[at]

\* What the chip holds once it has carried out an instruction.
Effect(instruction) ==
  CASE instruction = "erase"   -> [cells EXCEPT !.page = [i \in Pages |-> Erased]]
    [] instruction = "program" -> [cells EXCEPT !.page[at] = @ \cup Programmed]
    [] instruction = "quad"    -> [cells EXCEPT !.quad = TRUE]

\* An instruction that changes the chip is ignored while the chip is busy or its latch
\* is not set, one on four lines while quad mode is off.
Obey ==
  IF Busy \/ ~wel \/ (Operand = "program" /\ ~cells.quad)
  THEN UNCHANGED work
  ELSE work' = [op |-> Operand, then |-> Effect(Operand)]

\* HAL_QSPI_Command and HAL_QSPI_Transmit of an instruction that changes the chip; when
\* the second fails the chip may have begun.
SendInstruction ==
  /\ Doing("send")
  /\ \/ Obey /\ Proceed /\ UNCHANGED faults
     \/ Return(FALSE) /\ FlashFault /\ (Obey \/ UNCHANGED work)
  /\ UNCHANGED <<cells, wel, target, board, supported, pc, loop, job>>

\* The identity and the status registers, whose values decide nothing here.
ReadRegister ==
  /\ Doing("register")
  /\ \/ Proceed /\ UNCHANGED faults
     \/ Return(FALSE) /\ FlashFault
  /\ UNCHANGED <<chip, target, board, supported, pc, loop, job>>

\* The data of W25Q_ReadRaw; a failure leaves the caller's buffer or fills it.
ReadPage ==
  LET found == IF Busy \/ ~cells.quad THEN {{}, Bits} ELSE {cells.page[at]} IN
  /\ Doing("receive")
  /\ \/ buff' \in found /\ Proceed /\ UNCHANGED faults
     \/ buff' \in found \cup {buff} /\ Return(FALSE) /\ FlashFault
  /\ UNCHANGED <<chip, target, board, supported, pc, at, retry, match, job>>

FlashDriver == Wait \/ WriteEnable \/ SendInstruction \/ ReadRegister \/ ReadPage

-----------------------------------------------------------------------------
(* The target's bootloader in ROM                                          *)

Expecting(e) == rom' = [rom EXCEPT !.expects = e]

\* Nobody listens: the target runs its application, or is held in reset.
RomLeft == rom' = [expects |-> "nothing", cmd |-> "GET", at |-> 1]

\* A page of the target that is not erased may refuse to be programmed.
Refuses(p, d) == prog[p] # Erased /\ d # Erased

\* The bootloader deals with a message: it acknowledges the one it expects and carries
\* it out, and refuses another or a damaged one, which the checksums show.
Answer(a) == reply' = a /\ inbox' = None

RomSync ==
  /\ inbox # None /\ rom.expects = "sync"
  /\ IF inbox[1] = "sync"
     THEN Answer("ACK") /\ Expecting("command")
     ELSE Answer(None) /\ UNCHANGED rom
  /\ UNCHANGED <<prog, app>>

RomCommand ==
  /\ inbox # None /\ rom.expects = "command" /\ inbox[1] = "command"
  /\ Answer("ACK")
  /\ rom' = [rom EXCEPT !.cmd = inbox[2],
                        !.expects = CASE inbox[2] = "GET"   -> "list"
                                      [] inbox[2] = "ERASE" -> "scope"
                                      [] OTHER              -> "address"]
  /\ UNCHANGED <<prog, app>>

RomAddress ==
  /\ inbox # None /\ rom.expects = "address" /\ inbox[1] = "address"
  /\ Answer("ACK")
  /\ IF rom.cmd = "GO" THEN RomLeft
     ELSE rom' = [rom EXCEPT !.at = inbox[2],
                             !.expects = IF rom.cmd = "WRITE" THEN "block" ELSE "count"]
  /\ app' = (rom.cmd = "GO")
  /\ UNCHANGED prog

RomErase ==
  /\ inbox # None /\ rom.expects = "scope" /\ inbox[1] = "scope"
  /\ prog' = [i \in Pages |-> Erased]
  /\ Answer("ACK") /\ Expecting("command")
  /\ UNCHANGED app

RomWrite ==
  /\ inbox # None /\ rom.expects = "block" /\ inbox[1] = "block"
  /\ \/ prog' = [prog EXCEPT ![rom.at] = @ \cup inbox[2]] /\ Answer("ACK")
     \/ Refuses(rom.at, inbox[2]) /\ Answer("NACK") /\ UNCHANGED prog
  /\ Expecting("command")
  /\ UNCHANGED app

RomCount ==
  /\ inbox # None /\ rom.expects = "count" /\ inbox[1] = "count"
  /\ Answer("ACK") /\ Expecting("data")
  /\ UNCHANGED <<prog, app>>

RomRefuses ==
  /\ inbox # None /\ rom.expects \notin {"sync", "nothing"} /\ inbox[1] # rom.expects
  /\ Answer("NACK") /\ Expecting("command")
  /\ UNCHANGED <<prog, app>>

Rom ==
  /\ reply = None
  /\ \/ RomSync \/ RomCommand \/ RomAddress \/ RomErase \/ RomWrite \/ RomCount
     \/ RomRefuses
  /\ UNCHANGED <<chip, board, supported, pc, step, ret, loop, job, faults>>

\* What a reset leaves of an erase or a write in progress.
Interrupted ==
  CASE inbox # None /\ rom.expects = "scope" /\ inbox[1] = "scope" ->
         {[i \in Pages |-> IF i \in s THEN Erased ELSE prog[i]] : s \in SUBSET Pages}
    [] inbox # None /\ rom.expects = "block" /\ inbox[1] = "block" ->
         {[prog EXCEPT ![rom.at] = @ \cup d] : d \in SUBSET inbox[2]}
    [] OTHER -> {prog}

-----------------------------------------------------------------------------
(* The operations of the bootloader driver                                 *)

\* The reset line is pulsed with BOOT0 high.  The delays, 100 ms, outlast the W25Q's
\* writing of a page or a status register, not its erasing.
ResetTarget ==
  /\ Doing("reset") /\ Proceed
  /\ Busy => work.op = "erase"
  /\ prog' \in Interrupted /\ app' = FALSE
  /\ rom' = [expects |-> "sync", cmd |-> "GET", at |-> 1]
  /\ inbox' = None /\ reply' = None
  /\ UNCHANGED <<chip, board, supported, pc, loop, job, faults>>

\* _send_command sends only commands of the list.
is_command_supported(c) == c \in supported \cup {"GET"}

IsCommand == Operand[1] = "command"

\* HAL_SPI_Transmit ends with a time-out on a slave, which nobody clocks.
Clocked == spi = "master"

\* One message.  An answer that is not polled is shifted out unseen, and a bootloader
\* that has not dealt with the last message misses this one.
Transmit ==
  /\ Doing("tx") /\ Proceed
  /\ IsCommand => is_command_supported(Operand[2]) /\ Clocked
  /\ reply' = None
  /\ \/ inbox' = (IF inbox = None /\ Clocked THEN Operand ELSE inbox) /\ UNCHANGED faults
     \/ inbox' \in {inbox, <<"damaged">>} /\ LineFault
  /\ UNCHANGED <<chip, prog, app, rom, board, supported, pc, loop, job>>

\* A command that is not sent, or that bsp_bootloader_transmit reports as not sent.
TransmitFails ==
  /\ Doing("tx") /\ IsCommand
  /\ IF is_command_supported(Operand[2]) /\ Clocked THEN LineFault ELSE UNCHANGED faults
  /\ Return(FALSE)
  /\ UNCHANGED <<chip, target, board, supported, pc, loop, job>>

\* _get_reponse_procedure finds an answer and returns it.
PollAck ==
  /\ Doing("rx") /\ reply = "ACK"
  /\ reply' = None /\ Proceed
  /\ UNCHANGED <<chip, prog, app, rom, inbox, board, supported, pc, loop, job, faults>>

PollNack ==
  /\ Doing("rx") /\ reply = "NACK"
  /\ reply' = None /\ Return(FALSE)
  /\ UNCHANGED <<chip, prog, app, rom, inbox, board, supported, pc, loop, job, faults>>

\* 100 polls without an answer: none will come, it is late, or it was lost.
PollTimeout ==
  /\ Doing("rx")
  /\ \/ reply = None /\ (inbox = None \/ rom.expects = "nothing") /\ UNCHANGED faults
     \/ LineFault
  /\ reply' = None /\ Return(FALSE)
  /\ UNCHANGED <<chip, prog, app, rom, inbox, board, supported, pc, loop, job>>

\* The list of commands and the second answer.  A length that is damaged or read too
\* early gives a list that lacks a command or all of them; the list is stored last.
ReceiveList ==
  /\ Doing("list") /\ rom.expects = "list"
  /\ Expecting("command") /\ Proceed
  /\ \/ supported' = Commands /\ UNCHANGED faults
     \/ supported' \in {{}} \cup {Commands \ {c} : c \in Commands} /\ LineFault
  /\ UNCHANGED <<chip, prog, app, inbox, reply, board, pc, loop, job>>

\* _receive_data: the data follow their mark 0xA5 at once or not at all, and nothing
\* checks them.  Damage does not make of them just what the recorded CRC-32 asks for.
ReceiveData ==
  /\ Doing("data") /\ rom.expects = "data"
  /\ Expecting("command") /\ Proceed
  /\ \/ buff' = prog[rom.at] /\ UNCHANGED faults
     \/ buff' \in Content \ {image[at]} /\ LineFault
  /\ UNCHANGED <<chip, prog, app, inbox, reply, board, supported, pc, at, retry, match, job>>

ReceiveNothing ==
  /\ Doing("list") \/ Doing("data")
  /\ IF rom.expects \in {"list", "data"} THEN LineFault ELSE UNCHANGED faults
  /\ Return(FALSE)
  /\ UNCHANGED <<chip, target, board, supported, pc, loop, job>>

BootloaderDriver ==
  ResetTarget \/ Transmit \/ TransmitFails \/ PollAck \/ PollNack \/ PollTimeout
  \/ ReceiveList \/ ReceiveData \/ ReceiveNothing

-----------------------------------------------------------------------------
(* The start: fvc_main, _default_board_init, _is_app_present_and_valid     *)

\* The role of SPI2: the bootloader is driven by a master, the supervisor is a slave of
\* the application.
MX_SPI2_Init        == spi = "master"
bsp_updater_init    == spi' = "master"
bsp_supervisor_init == spi' = "slave"

\* The main thread goes to label l and makes its call.
Goto(l, n) == pc' = l /\ at' = n /\ step' = 1 /\ ret' = FALSE
Rest(l)    == pc' = l /\ at' = 1 /\ step' = 0 /\ ret' = FALSE

\* On to l within the running functions, or out of them to the main loop: their local
\* variables are gone.
Step(l, n) == Goto(l, n) /\ UNCHANGED <<coming, task>>
Leave ==
  /\ Rest("idle")
  /\ retry' = 0 /\ buff' = Erased /\ match' = TRUE /\ coming' = image /\ task' = "none"

Returned(l) == pc = l /\ step = 0

\* Mutant: the result of W25Q_Init is not looked at.
InitializedUnchecked ==
  /\ Returned("init")
  /\ Step("quad", 1)
  /\ UNCHANGED <<chip, target, board, supported, local, image, status, faults>>

\* W25Q_Init returned.
Initialized ==
  /\ Returned("init")
  /\ \/ ret /\ Step("quad", 1)
     \/ ~ret /\ Rest("stopped") /\ UNCHANGED <<coming, task>>
  /\ UNCHANGED <<chip, target, board, supported, local, image, status, faults>>

\* The three calls that enable quad mode again, results ignored.
QuadEnabling ==
  /\ Returned("quad")
  /\ IF at < 3 THEN Step("quad", at + 1) ELSE Step("connect", 1)
  /\ UNCHANGED <<chip, target, board, supported, local, image, status, faults>>

\* The closing loop of main.
Stopped == pc = "stopped" /\ UNCHANGED vars

\* A target whose bootloader does not answer is held in reset.
Connected ==
  /\ Returned("connect")
  /\ IF ret
     THEN Step("scan", 1) /\ UNCHANGED <<target, local, status>>
     ELSE /\ Leave /\ status' = "BOOTLOADER_ERROR"
          /\ inbox' = None /\ reply' = None /\ RomLeft /\ UNCHANGED <<prog, app>>
  /\ UNCHANGED <<chip, board, supported, image, faults>>

\* A page read goes into the hash.
Hash == match' = (match /\ buff = image[at]) /\ UNCHANGED <<retry, buff>>

\* The end of _is_app_present_and_valid: the hash is the recorded one or not.
ScanEnd ==
  IF match /\ buff = image[at]
  THEN Step("go", 1) /\ Hash /\ UNCHANGED status
  ELSE Leave /\ status' = "PROGRAM_INVALID"

\* Mutant: the bootloader is not started again.
ScannedNoReset ==
  /\ Returned("scan")
  /\ \/ ~ret /\ Step("scan", at) /\ UNCHANGED <<local, status>>
     \/ ret /\ at < Len(image) /\ Step("scan", at + 1) /\ Hash /\ UNCHANGED status
     \/ ret /\ at = Len(image) /\ ScanEnd
  /\ UNCHANGED <<chip, target, board, supported, image, faults>>

\* A page of the target was read, or is read again after another start of the
\* bootloader, without limit.
Scanned ==
  /\ Returned("scan")
  /\ \/ ~ret /\ Step("reconnect", at) /\ UNCHANGED <<local, status>>
     \/ ret /\ at < Len(image) /\ Step("scan", at + 1) /\ Hash /\ UNCHANGED status
     \/ ret /\ at = Len(image) /\ ScanEnd
  /\ UNCHANGED <<chip, target, board, supported, image, faults>>

Reconnected ==
  /\ Returned("reconnect")
  /\ Step("scan", at)
  /\ UNCHANGED <<chip, target, board, supported, local, image, status, faults>>

supervisor_init == bsp_supervisor_init /\ mode' = "SUPERVISOR"

\* jmp_to_app returned; only the start looks at the result.
Gone ==
  /\ Returned("go")
  /\ IF task = "boot" /\ ~ret
     THEN status' = "EXECUTION_ERROR" /\ UNCHANGED board
     ELSE status' = "OK" /\ supervisor_init
  /\ Leave
  /\ UNCHANGED <<chip, target, supported, image, faults>>

-----------------------------------------------------------------------------
(* The store: _handle_update_program_request, packets and answers left out *)

\* An update: validation_data is all zeros, and retry_counter counts for all pages.
Update ==
  /\ pc = "idle"
  /\ coming' \in Programs
  /\ Goto("clear", 1) /\ task' = "update" /\ buff' = Bits
  /\ mode' = "UPDATER" /\ unnoticed' = MaxUnnoticed
  /\ UNCHANGED <<chip, target, spi, supported, retry, match, image, status, flashFaults,
                 lineFaults>>

\* W25Q_EraseChip, result ignored.
Cleared ==
  /\ Returned("clear")
  /\ Step("program", 1)
  /\ UNCHANGED <<chip, target, board, supported, local, image, status, faults>>

\* An error of W25Q_ProgramRaw is retried without limit.
ProgramDone ==
  /\ Returned("program")
  /\ Step(IF ret THEN "readback" ELSE "program", at)
  /\ UNCHANGED <<chip, target, board, supported, local, image, status, faults>>

\* Mutant: SPI2 stays what the supervisor made of it.
StoredAsSlave ==
  /\ IF at < Len(coming)
     THEN Step("program", at + 1) /\ UNCHANGED <<image, buff, board>>
     ELSE Step("enter", 1) /\ image' = coming /\ buff' = Bits /\ UNCHANGED board
  /\ UNCHANGED <<retry, match>>

\* The next page, or after the last one the record of the backup and the copy, whose
\* buffer is all zeros.
Stored ==
  /\ IF at < Len(coming)
     THEN Step("program", at + 1) /\ UNCHANGED <<image, buff, board>>
     ELSE /\ Step("enter", 1) /\ image' = coming /\ buff' = Bits
          /\ bsp_updater_init /\ mode' = "UPDATER"
  /\ UNCHANGED <<retry, match>>

\* Mutant: the page read back is not compared.
ReadBackUncompared ==
  /\ Returned("readback")
  /\ Stored
  /\ UNCHANGED <<chip, target, supported, status, faults>>

\* Mutant: one comparison more may fail.
ReadBackLate ==
  /\ Returned("readback")
  /\ \/ buff = Programmed /\ Stored
     \/ /\ buff # Programmed /\ UNCHANGED <<image, board>>
        /\ IF retry > RetryLimit
           THEN Leave
           ELSE Step("program", at) /\ retry' = retry + 1 /\ UNCHANGED <<buff, match>>
  /\ UNCHANGED <<chip, target, supported, status, faults>>

\* W25Q_ReadRaw, result ignored, and _compare_data.
ReadBack ==
  /\ Returned("readback")
  /\ \/ buff = Programmed /\ Stored
     \/ /\ buff # Programmed /\ UNCHANGED <<image, board>>
        /\ IF retry + 1 > RetryLimit
           THEN Leave
           ELSE Step("program", at) /\ retry' = retry + 1 /\ UNCHANGED <<buff, match>>
  /\ UNCHANGED <<chip, target, supported, status, faults>>

-----------------------------------------------------------------------------
(* The restore's validation, and the copy                                  *)

\* _handle_invalid_program.
Restore ==
  /\ pc = "idle" /\ status = "PROGRAM_INVALID"
  /\ Goto("verify", 1) /\ task' = "restore"
  /\ UNCHANGED <<chip, target, board, supported, local, image, coming, status, faults>>

\* validate_current_backup: a page of the backup was read, or is read again.
Verified ==
  /\ Returned("verify")
  /\ \/ ~ret /\ Step("verify", at) /\ UNCHANGED <<local, board>>
     \/ ret /\ at < Len(image) /\ Step("verify", at + 1) /\ Hash /\ UNCHANGED board
     \/ /\ ret /\ at = Len(image)
        /\ IF match /\ buff = image[at]
           THEN /\ Step("enter", 1) /\ buff' = Bits /\ UNCHANGED <<retry, match>>
                /\ bsp_updater_init /\ mode' = "UPDATER"
           ELSE Leave /\ UNCHANGED board
  /\ UNCHANGED <<chip, target, supported, image, status, faults>>

\* The update handler overwrites the status of a failed copy.
CopyFails(s) ==
  Leave /\ status' = IF task = "update" THEN "PROGRAM_INVALID" ELSE s

Entered ==
  /\ Returned("enter")
  /\ \/ ret /\ Step("erase", 1) /\ UNCHANGED <<local, status>>
     \/ ~ret /\ CopyFails("BOOTLOADER_ERROR")
  /\ UNCHANGED <<chip, target, board, supported, image, faults>>

EraseDone ==
  /\ Returned("erase")
  /\ \/ ret /\ Step("load", 1) /\ retry' = 0 /\ UNCHANGED <<buff, match, status>>
     \/ ~ret /\ CopyFails("BOOTLOADER_ERROR")
  /\ UNCHANGED <<chip, target, board, supported, image, faults>>

\* Mutant: the result of W25Q_ReadRaw is not looked at.
LoadedUnchecked ==
  /\ Returned("load")
  /\ Step("write", at)
  /\ UNCHANGED <<chip, target, board, supported, local, image, status, faults>>

\* A page that cannot be read is read again, without limit.
Loaded ==
  /\ Returned("load")
  /\ Step(IF ret THEN "write" ELSE "load", at)
  /\ UNCHANGED <<chip, target, board, supported, local, image, status, faults>>

WriteDone ==
  /\ Returned("write")
  /\ IF ~ret THEN Step("reenter", at) /\ UNCHANGED retry
     ELSE /\ retry' = 0
          /\ IF at < Len(image) THEN Step("load", at + 1) ELSE Step("go", 1)
  /\ UNCHANGED <<chip, target, board, supported, buff, match, image, status, faults>>

\* The bootloader was started again, with a result that nobody looks at.
Reentered ==
  /\ Returned("reenter")
  /\ IF retry + 1 > RetryLimit
     THEN CopyFails("PROGRAM_INVALID")
     ELSE /\ Step("load", at) /\ retry' = retry + 1
          /\ UNCHANGED <<buff, match, status>>
  /\ UNCHANGED <<chip, target, board, supported, image, faults>>

\* Power on: both flashes hold the recorded program, or one of them something else.
Init ==
  /\ image \in Programs /\ coming = image
  /\ \E q \in BOOLEAN, p \in Programs :
       /\ cells = [page |-> Padded(p), quad |-> q]
       /\ prog \in {Padded(image), Padded(p)}
  /\ wel = FALSE /\ work = None
  /\ app = FALSE /\ inbox = None /\ reply = None
  /\ rom = [expects |-> "nothing", cmd |-> "GET", at |-> 1]
  /\ supported = {} /\ retry = 0 /\ buff = Erased /\ match = TRUE
  /\ pc = "init" /\ at = 1 /\ step = 1 /\ ret = FALSE
  /\ status = "OK" /\ task = "boot" /\ MX_SPI2_Init /\ mode = "UPDATER"
  /\ flashFaults = MaxFlashFaults /\ unnoticed = MaxUnnoticed /\ lineFaults = MaxLineFaults

Booting == Initialized \/ QuadEnabling \/ Stopped \/ Connected \/ Scanned \/ Reconnected \/ Gone
Storing == Cleared \/ ProgramDone \/ ReadBack
Copying == Verified \/ Entered \/ EraseDone \/ Loaded \/ WriteDone \/ Reentered
Main    == FlashDriver \/ BootloaderDriver \/ Booting \/ Storing \/ Copying

Next == Main \/ Update \/ Restore \/ ChipDone \/ Rom
Spec == Init /\ [][Next]_vars

\* The main thread runs on, the chip ends what it began, and the bootloader deals with
\* what it received.
FairSpec == Spec /\ WF_vars(Main) /\ WF_vars(ChipDone) /\ WF_vars(Rom)

-----------------------------------------------------------------------------
(* Properties                                                              *)

Labels == {"init", "quad", "stopped", "connect", "scan", "reconnect", "go", "idle", "clear",
           "program", "readback", "verify", "enter", "erase", "load", "write", "reenter"}

\* Type invariant: every variable keeps its range; no counter outlives its
\* limit, and a loop stays within the program (fvc.c:178, 353-403, 279-302).
TypeOK ==
  /\ cells \in Cells /\ wel \in BOOLEAN /\ work \in Works \cup {None}
  /\ prog \in [Pages -> Content] /\ app \in BOOLEAN
  /\ rom \in [expects : {"nothing", "sync", "command", "list", "address", "scope", "block",
                         "count", "data"},
              cmd : Commands \cup {"GET"}, at : Pages]
  /\ inbox \in Messages \cup {None}
  /\ spi \in {"master", "slave"} /\ mode \in {"UPDATER", "SUPERVISOR"}
  /\ reply \in {None, "ACK", "NACK"} /\ supported \subseteq Commands
  /\ pc \in Labels /\ ret \in BOOLEAN
  /\ IF pc \in {"idle", "stopped"} THEN step = 0 ELSE step \in 0..Len(Code)
  /\ at \in 1..(IF pc = "quad" THEN 3 ELSE MaxPages)
  /\ retry \in 0..RetryLimit
  /\ buff \in Content /\ match \in BOOLEAN
  /\ image \in Programs /\ coming \in Programs
  /\ status \in {"OK", "BOOTLOADER_ERROR", "PROGRAM_INVALID", "EXECUTION_ERROR"}
  /\ task \in {"boot", "update", "restore", "none"}
  /\ flashFaults \in 0..MaxFlashFaults /\ unnoticed \in 0..MaxUnnoticed
  /\ lineFaults \in 0..MaxLineFaults

\* Once fvc_main has ended its start the chip is in quad mode, or will be when it ends
\* what it does: the two ignored-while-busy writes of the bit (w25q_mem.c:114-124,
\* fvc.c:774-777) do not both get lost, whatever two calls of the HAL fail.
QuadEnabled == pc \notin {"init", "quad", "stopped"} => Settled.quad

\* While a copy runs the external flash holds the recorded program, or will: neither an
\* instruction lost on a busy chip, nor a failed and ignored W25Q_EraseChip or
\* W25Q_ReadRaw (fvc.c:348, 375), nor a page left in the buffer from the last comparison
\* passes the comparison, and no validation passes on floating lines.
CopiesRecordedProgram ==
  pc \in {"enter", "erase", "load", "write", "reenter"} => Holds(Settled.page, image)

\* From the erase on, no page of the target holds a bit of another program: the erase
\* that is reported done was done, though answers may be late and the start of the
\* bootloader before a repeated write may have failed unnoticed (fvc.c:271-302).
NoMixture ==
  pc \in {"load", "write", "reenter"} =>
    \A i \in Pages : prog[i] \subseteq Padded(image)[i]

\* The GO command is given only to a target that holds the recorded program: neither a
\* copy nor the validation at start (fvc.c:158-225, 257-304) is deceived by a late, lost or
\* damaged answer, by data that nothing checks, or by a page read from a busy chip.
GoesWithProgram == pc = "go" => Holds(prog, image)

\* The bootloader is spoken to by a master, and the supervisor listens as a slave, never
\* while an update or a restore runs, and only to a target that holds the recorded
\* program: the two share SPI2 and ctx.curr_mode, each sets both for itself, and each
\* may follow a failure of the other (fvc.c:430-452, 716-728, BSP/bsp.c:169-217).
SpiRole ==
  /\ pc \in {"connect", "scan", "reconnect", "go", "enter", "erase", "load", "write",
              "reenter"} => spi = "master"
  /\ mode = "SUPERVISOR" => pc = "idle" /\ spi = "slave" /\ Holds(prog, image)

\* Whatever the main thread was asked to do it comes back to its loop: the reads, writes
\* and programs that are repeated without limit (fvc.c:178-205, 279-302, 371-377,
\* fvc_backup_management.c:99-118) end once devices and line stop failing.
ReturnsToLoop == pc # "idle" ~> pc \in {"idle", "stopped"}
=============================================================================
