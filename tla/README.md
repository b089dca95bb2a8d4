# Verification of the Firmware Version Controller

The Firmware Version Controller (FVC) is an STM32G4 board beside a *target* board. It
validates the target's program at power on and starts it, supervises it over SPI, accepts a
new program from a host over a serial line, buffers it in an external W25Q flash that then
serves as the backup, and copies it into the target through the target's SPI bootloader. A
Python tool is the host's side. This directory holds TLA+ models of that code, TLC
configurations that check them, and proofs that TLAPS checks. Paths below are relative to
`STM32/FVC_V1_0/Core/FVC/` unless they start with `Python/` or `Core/`.

## Inventory

| Part | State it keeps | Operations | What is hard |
|---|---|---|---|
| Controller main thread (`fvc.c`) | `ctx.status`, `ctx.curr_mode`, mailbox | boot validation, main loop, restore from the backup | power loss between any two steps, retries without limit, results ignored |
| Buffered update handler (`fvc.c:321-458`) | header, lengths, hashes, retry counter | erase, receive, program, authenticate, record, copy | a backup that is erased first, packets without sequence numbers, four EEPROM records of two programs |
| Backup validation (`fvc_backup_management.c`) | none | hash of the backup against its record | depends on both records |
| Supervisor (`fvc_supervisor.c`) | `sup->state`, variables on the heap, period, timer | handshake, configuration, rounds of checks, reset | the timer's interrupt writes the state the main thread is working on; blocking calls; state that outlives a session |
| EEPROM variables and emulation (`fvc_eeprom.c`, `EEPROM_Emul/`) | flash pages of variables, current page, counts of elements | start with recovery, read, write, page transfer | power loss inside a transfer, counts kept in three places, clean-up that nobody triggers |
| SPI bootloader driver (`STM32_SPI_Bootloader/`) | list of supported commands | connect, read, erase, write, go | answers lost, or late and taken for those of the next exchange |
| External flash driver (`W25Q_Driver/`) | the chip: pages, latch, quad bit, busy | set quad mode, erase, program, read | a busy chip ignores commands, an error ends the wait for it, programming only clears bits |
| Frame codec (`fvc_protocol.c`, `Python/fvc_protocol.py`) | none | serialise, deserialise | lengths taken from the frame before its checksum |
| Serial interface (`BSP/bsp.c`, `fvc.c:91-105`) | a one-slot mailbox | receive by interrupt, abort, re-arm | callback against main loop, reception that stays off |
| Host tool (`Python/main.py`, `Python/usart_process.py`) | queues, retransfer counter, events | request, send, wait for the end, board after board | 20 s timeouts, no sequence numbers, a read without timeout |
| Hashes, LED, generated start-up | - | - | not state machines of interest |

The parts meet in these places. The UART's callback writes the mailbox that `_process_msg`
reads. The timer's callback writes `sup->state`, which `supervisor_loop` reads and writes.
Boot, restore and update all use the bootloader driver, and with it the target's reset and
flash. The update writes the backup record first and the program record last; boot reads the
program record, restore reads both. The host sees only the acknowledgements.

What makes the parts correct: the target never runs a program that is not whole and
authenticated; an update that is reported finished is installed and backed up; power lost at
any moment leaves a program that the next boot finds; every request ends; a supervisee that is
silent or out of range is reset and one that refreshes correctly is not; memory of the
supervisor is accessed inside its block.

## Modules

| Module | Models |
|---|---|
| `Fvc.tla` | the controller's main thread with the buffered update, the restore, the mailbox, power losses and device faults |
| `FvcProofs.tla` | proofs about `Fvc` |
| `Supervisor.tla` | the supervisor's state machine against the timer's interrupt and an arbitrary supervisee |
| `SupervisorProofs.tla` | proofs about `Supervisor` |
| `EepromStore.tla` | what `Fvc` assumes of the EEPROM: atomic variables (abstract specification) |
| `Eeprom.tla` | the emulation under them, one step per flash line programmed or page erased; implements `EepromStore` |
| `EepromProofs.tla` | proofs about `Eeprom`: its shapes and counts |
| `EepromStoreProofs.tla` | proof that `Eeprom` implements `EepromStore` |
| `ProgramCopy.tla` | the two device drivers and the loops of `fvc.c` that use them, one step per operation on a bus |
| `ProgramCopyProofs.tla` | proofs about `ProgramCopy` |
| `HostUpdate.tla` | the host's processes and the board's update handler on a serial line with faults, and time |
| `HostUpdateProofs.tla` | proofs about `HostUpdate`: types, the order of frames, finished updates |
| `HostLimitProofs.tla` | its two retry limits and its times: proofs about the answers on their way and about repair |
| `ProgramTransfer.tla` | the frames of both codecs byte by byte, and a program's way from the file into the external flash |
| `ProgramTransferProofs.tla` | proofs about `ProgramTransfer`: the checksum, the codecs, the way of the program |
| `MC*.tla` | constants of their instances |

They are views of one system at different grains, and each leaves to another what it takes for
granted:

* `Fvc` has the persistent state and the power losses. Its accesses to EEPROM, external flash
  and target are atomic steps with a set of outcomes.
* `Eeprom` opens up the access to the EEPROM. `StoreSpec` is the refinement: for `Fvc` a write
  is stored, refused, or decided by the next start, and no other variable changes.
* `ProgramCopy` opens up the accesses to the two flashes. That a scan or a copy starts only the
  recorded program, which in `Fvc` rests on atomic steps, is there `GoesWithProgram`, with chips
  and answers that take their time.
* `HostUpdate` opens up the other end: in `Fvc` any packet may come at any time.
* `ProgramTransfer` opens up a packet: in `Fvc` it is a page, decoded or not.
* `Fvc` keeps of the supervisor only that it may reset the target (`SupervisorReset`); that a
  silent target *is* reset, which its liveness assumes, is `SilentIsReset` of `Supervisor`.
  `Supervisor` keeps of the controller only that it may leave `MODE_SUPERVISOR` between two calls
  and come back through `supervisor_init` (`EnterUpdater`, `StopTimer`, `SupervisorInit`,
  `ArmTimer`).

### Fvc

Every access to the target's flash (`prog`), the external flash (`ext`) or the EEPROM (`ee`),
every received packet and every decision between them is an action; `pc` says which comes next.
`tgt` is what the target does, `mail` the mailbox, `job` the decoded header, `got` what has been
received, `ret` the caller of `_copy_program_from_flash_to_memory`. The sections of the module
follow the functions: `_default_board_init` (`Connect` to `Launch`), the loop of `fvc_main`,
`_handle_update_program_request`, the copy and what its two callers do after it.

* **Data.** A program is a sequence of pages. One page stands for a 256-byte page and for a
  2048-byte packet. A CRC or HMAC is the data it is computed from, that is, free of
  collisions. `Images` are the programs a holder of the key may send. A header with an HMAC of
  nothing is, for the controller, one whose packets do not match, and packets are arbitrary.
* **Faults.** Each call on a device may fail, and a call that fails may have had its effect:
  erases leave any subset of the pages erased, writes leave the old, the new or a torn page.
  `MaxFaults` bounds how many fail in a behaviour.
* **Power loss.** `PowerLoss` may follow any step and strikes inside erases and writes
  (`CutTarget`, `CutExt`). It keeps flashes and EEPROM and resets the rest. `Damage` changes a
  page of the target with the power off, which is what the validation at boot is for.
* **EEPROM.** One variable's write is atomic here, and fails or not (`EepromStore`); a value 0
  into a variable never written is reported written and not stored, as `fvc_eeprom_write` does.

### Supervisor

`supervisor_loop` serves one state per call and may block for seconds in it, so a call is
divided where it blocks: `Dispatch` reads the state (`at`), a receive step takes what comes or
nothing, and the step after the response does the writes that follow it. The interrupt
(`Elapse`) comes between any two steps and writes `state`; what the call writes later wins. The
timer counts ticks, is clipped to its reload value and starts from it again when it elapses.
`heard` and `passed` are history: the last receive got something, and the variables found in
range since the last refresh command. A block of variables is `"null"`, `"live"` or `"freed"`
and still pointed to. Freeing a freed block either goes unnoticed or ends in
`HardFault_Handler`; use of a block that could not be allocated reads the vector table, and
faults if it writes.

### Eeprom

The state is the flash (`hdr`, the header lines of each page; `elem`, its elements; `ecc`, a line
with a double error) and the driver's variables. `EE_Init` is `PowerOn` to `EraseDone`, in the
order of its steps 1 to 8; `Write` begins `EE_WriteVariable32bits`; `LeavePage`, `EnterPage`,
`ProgramElement` and `NoRoom` are `VerifyPagesFullWriteVariable`; `SetReceive` to `Close` are
`PagesTransfer`. `Pending` names the flash operation that comes next, `Perform` does it, and
`PowerLoss` leaves what was there before it or, by `TornElement`, `TornErase`, `TornEcc`, a half of
it. A search that does not end is the state `"spin"`, the NMI's loop `"nmi"`. `last`, `asked` and
`answer` are history: what a reader would have found when the EEPROM was last ready, and the write
since; the refinement mapping takes them for the abstract variables.

Three things seen on the way are not properties. `EE_CleanUp` is never reached: a transfer ends
with `EE_CLEANUP_REQUIRED`, reported as a failure, and the old half is erased by the next start.
Until then a full current half refuses every write. `ReadVariable` does not end when every page is
in use and the variable is in none. Both take more writes between two starts (756 elements) than the
controller makes.

### ProgramCopy

A driver function is a sequence of bus operations (`W25Q_ProgramRaw == <<"wait">, <<"enable">>,
...`), the main thread a label (`pc`) at which it calls one of them (`Code`) and an action that
looks at what it returned: `Scanned`, `ReadBack`, `Loaded`, `WriteDone` and so on, each with the
branches, counters and ignored results of the code. The chip carries out an instruction some time
after it was sent (`ChipDone`) and ignores others until then; `work` is the instruction it is at and
what its cells become, so that `Settled` is the chip once it has ended. The bootloader in the target's
ROM is modelled from the driver and the messages it expects (`Rom`, external): it deals with a message
when it gets to it, possibly after the driver has given up; a reset cuts an erase or a write off.
A call of the HAL on the QSPI that fails is either one whose result the code looks at, which ends
the function with an error that its caller handles (`MaxFlashFaults` of them in a behaviour), or one
that nobody notices (`UnnoticedFault`): an error that ends a wait for the chip as if it were idle, or
a failure of a function whose caller ignores its result (`Ignored`: quad mode at the start, the erase
and the read back of an update). Of these `MaxUnnoticed` may happen during the start and as many in
each update. Messages and answers on the SPI are damaged, lost or late
(`MaxLineFaults`).

Bootloader and supervisor share SPI2. The bootloader drives it as a master, `supervisor_init` makes
it a slave, and every job begins by making it a master again (`spi`); `mode` is `ctx.curr_mode`, which
says whether the loop calls the supervisor.

Its jobs are the start (`init`, `quad`, `connect`, `scan`), the store of an update (`clear`,
`program`, `readback`), the validation of the backup (`verify`), the copy (`enter`, `erase`,
`load`, `write`, `reenter`) and `go`. Registers whose values decide nothing are left out.
`W25Q_ReadStatusStruct(NULL)` stores nothing, so the driver's copy of the quad bit stays 0 and the
bit is always written; the three calls after `W25Q_Init` write it once more. The delays of a reset,
100 ms, outlast a page program and a status register write and not a chip erase; this is the only
place where time is assumed (`ResetTarget`). Bytes damaged on the way from the target never form just the page that
the recorded CRC asks for. EEPROM, HMAC and power losses are `Fvc`'s.

### HostUpdate

`boardUpdateProcess` is `StartUpdate` to `FinalTimeout` (`state` is its variable of that name,
`at` where it waits), `parseDataProcess` is `Parse`, `SerialProcess` is `SerialWrite` and
`SerialRead`, the main process `CliEnd`, `ManagerEnds`, `Close`. A process's `txQueue` and the serial
process's are one queue here, as nothing else reads between them. The board is the update handler
of `fvc.c` with its mailbox, its blocking receive and its retry counter; what `Fvc` does with
memories is left to it and is here a success or a fault. One board is on the line; others are in the
list and never answer. Faults lose a frame, garble it, garble its length, split it in two, or overrun
an idle receiver, which disarms it (`deaf`). A length that was hit keeps the host's `ser.read` waiting
(`need`), and the board may copy past its buffers, after which nothing is promised of it (`"hung"`).

Time: a timeout elapses only when nobody can do anything else (`Quiet`, `Tick`), and an erase and a
copy may take any time, so the host's 20 s may end during either.

What the model shows and no property claims. For a list `<2, 1>`, the request for board 2 is executed
by board 1; its late answers are then taken for those to the request for board 1, whose update
usually fails: this is why `RepairsPackets` speaks of a board that begins the list. The end of the CLI
calls `set()` on dictionary keys (`Python/main.py:221-222`), which raises; the manager and with it all
processes end, whatever they are at. The 100 entries of a queue are never used up, since a packet
waits for the answer to the one before. SIGINT's handler has the same loop over keys.

### ProgramTransfer

Bytes are bytes here, and the checksum is the code's CRC-8, computed: the table is generated from its
polynomial, and equals the two tables in the code. The exclusive or of two bytes is the sum of the
weights of the bits that differ, which is what the proofs compute with. The host reads `MaxData` bytes
at a time, the board receives a request into a buffer of `CliLen` bytes and data into one of
`MaxData + 7`, both zeroed before; it copies the payload by the frame's length, computes the checksum
over that length and never looks at how many bytes came. A length that does not fit the buffers
leads to `"undefined"`, after which nothing is promised. `Hit` changes up to eight neighbouring bits
of one frame or answer. With these a hit that makes the length smaller can pass the checksum (a CRC-8
of a prefix is zero once in 256 times): this is the exception in `DamageIsRefused`. The HMAC
then finds it, which is part of `FlashHoldsProgram`. Debug and identification frames are left out.

## Runs

| Run | Shows | Distinct states |
|---|---|---|
| `fvc_safety` | the safety of `Fvc`, with two faults, one power loss, two frames | 202,050 |
| `fvc_liveness` | `RecoverableBoots`, `MailboxDrains`, with the empty image as well | 245,633 |
| `fvc_restore_record` | a counterexample to `RestoreIsRecorded` | stops early |
| `supervisor` | all properties of `Supervisor` but the next, two variables | 1,815,667 |
| `supervisor_free` | a counterexample to `FreedOnce` | stops early |
| `eeprom` | `ProgramsErasedLines`, `NoForcedCleanUp`, `StoreSpec`: two variables, eight pages, a power loss at any step and in the middle of it, then a switch-off | 606,421 |
| `eeprom_start` | `StoreSpec`, `StartsUp`: pages of two elements, and a flash operation that fails | 78,607 |
| `eeprom_lost` | a counterexample to `NothingLost`: two power losses in one transfer | stops early |
| `eeprom_nmi` | a counterexample to `PowerOnStarts` | stops early |
| `host` | the properties of `HostUpdate`, three faults, four lists of boards | 1,323,562 |
| `transfer` | the properties of `ProgramTransfer`, five programs, one hit | 288,766 |
| `copy` | the properties of `ProgramCopy`, one noticed and one unnoticed failure on the flash's bus, two on the target's line | 520,518 |

Properties of `Fvc`:

* `RunsWholeImage`: a target that runs or is supervised has a whole authenticated image.
* `FinishedMeansInstalled`: `TYPE_PROGRAM_UPDATE_FINISHED` is sent only when target and backup
  hold the image of the request.
* `RestoreInstallsBackup`: a restore starts what the backup record describes.
* `KeepsRecordedProgram`: no step and no power loss takes from a board its last usable program,
  except while an update is being buffered over a program that the EEPROM does not describe.
  The exception is real: `fvc.c:348` erases the backup without asking whether the program in
  the target is the recorded one.
* `RecoverableBoots` and `MailboxDrains`: a usable program is started after power on; every
  request ends. The first allows for a device that fails, a further power loss and an update
  that begins, since the code does not retry after these.

Properties of `Supervisor`:

* `BlockAccess`: variables are set and checked inside their block, never in a freed one.
* `DeadlineEarned`: a round of checks puts off the reset only if each variable was found in
  range in that very round. Flags survive failed and interrupted rounds; that they do no harm
  rests on the order of the checks.
* `SilentIsReset`: a supervisee that falls silent in any state is reset again and again. A
  timeout can be lost, when a call for an older state writes `state` after the interrupt did,
  but the counter runs on.

Properties of `Eeprom`:

* `StoreSpec`: it implements `EepromStore`, one power loss during a start, a write or a transfer
  included, until a flash operation fails.
* `ProgramsErasedLines`: the place that is programmed next, found by three counts kept apart, is
  an erased line, whatever a power loss left.
* `NoForcedCleanUp`: a write that leaves a full page finds the next one erased.
* `StartsUp`: every start ends ready, or the power is lost again, or a flash operation has failed.

Properties of `ProgramCopy`:

* `QuadEnabled`: after the start the chip is in quad mode; the two writes of the bit are not both
  lost.
* `CopiesRecordedProgram`: while a copy runs, the external flash holds the recorded program: no
  stale buffer, ignored result or floating line gets past the comparison or the validation.
* `NoMixture`: from the erase on, the target holds no bit of another program.
* `GoesWithProgram`: GO is given only to a target that holds the recorded program.
* `SpiRole`: no byte of a job is sent while SPI2 is a slave, and the supervisor listens as a slave,
  outside every job, to a target that holds the recorded program.
* `ReturnsToLoop`: every job ends, although four loops have no limit.

Properties of `HostUpdate`:

* `FinishedIsInstalled`: the host reports an update finished only for the board on the line and
  with the whole program in its target, whatever answers it has mistaken.
* `BoardGivesUpFirst`: the two retry limits fit: a host at its limit never faces a board that
  still waits for the packet, unless an answer was hit.
* `RepairsPackets`: lost and garbled packets are repaired within the board's limit.
* `ListEnds`: every list of boards comes to its end, even past boards that do not answer or hang.

Properties of `ProgramTransfer`:

* `FramesAgree`: each side takes from a frame what the other put into it.
* `DamageIsRefused`: a damaged frame is refused, the case of a shorter length excepted.
* `FlashHoldsProgram`: a transfer that ends well has left the program in the flash without gaps,
  with the packet count that the copy goes by.
* `DataIsRepaired`: a hit behind the length of a data packet is repaired by sending it again.

Bounds.

* `Fvc`: two pages, so that a copy has a first and a last page and can stop between them; images of
  two pages and one, so that a new program is longer or shorter than the old one; `RetryLimit` 1
  instead of 3 with two faults, so that the limit is passed; two frames, so that an update meets the
  leftovers of another; one power loss at any step of either. A header that announces no packets
  describes the empty image, which the code accepts and every flash holds: it is among the images of
  the liveness run and not of the safety run, where it would make `RunsWholeImage` true of any state;
  the theorems hold with and without it. With two faults, two cuts and three frames (2.5 million
  states) the same properties were also seen to hold.
* `Supervisor`: two variables, so that rounds fail in the middle; values 0 and 1, so that a silent
  line (0) may be in or out of range; periods below and above the reload value; three ticks; one
  failing allocation.
* `Eeprom`: one element to a page and two variables, so that a transfer fills several pages of a
  half of four, and can run out of room (`NoRoom`); in the other run two elements to a page, so that
  pages are left half full. Two values, which are interchangeable (`Symmetry`). One power loss, as the second one in the same transfer breaks the
  promise (`eeprom_lost`).
* `ProgramCopy`: the real retry limit, two pages, two bits to a page so that a page can be half
  programmed. One unnoticed failure of the flash's bus in an update is as many as
  `CopiesRecordedProgram` withstands: with two, TLC finds a page that was not erased or not
  programmed and still compares equal, as the comparison reads floating lines. Failures that the code
  notices, and those of the target's line, do no such harm in any number, which is proved; in the run
  there are one and two. With a third program the run passes as well, in three times the time.
* `HostUpdate`: 3 s are one unit; the host's limits of 5 and 3 are 2 and 1, and its order kept: the
  host sends a packet more often than the board refuses one, and one wait of the host outlasts all
  of the board's retries of one packet. The real limits were seen to satisfy the safety properties
  with two faults.
* `ProgramTransfer`: packets of four bytes, pages of two, programs of no packet, less than one, one,
  two and three packets, with the start byte and zeros among their bytes.

Fairness. The main thread is one loop without an operating system, so it keeps taking steps
(`WF_vars(Main)`, `WF_vars(Thread)`, `WF_vars(Running)`, `WF_vars(Board)`), and every receive has a
timeout. Time passes (`WF_vars(Clock)`, `WF_vars(Tick)`). A chip ends what it has begun, and a
bootloader that received a message deals with it (`ChipDone`, `Rom`); answers that never come are
faults, and those are bounded. The host's processes are scheduled by its operating system, each with
a fairness of its own. In `Fvc` a supervised target that does not run its application is reset
(strong fairness, as the supervisor is only called once per turn of the loop). No fairness is
assumed of a request, the supervisee, the user who ends the CLI, or faults.

Deadlock is checked in the runs of `Fvc`, `Supervisor` and `ProgramCopy`, where `Halt`, `Fault` and
`Stopped` are the states in which the program spins. It is not in the others: a board whose NMI does
not return, a tool that has ended, and a transfer that is over really stop.

## Disagreements found

* `RestoreIsRecorded`: after `"Firmware restored."` (`fvc.c:725`) the EEPROM still describes the
  program before. When an update loses power in its copy, the restore installs the new image;
  from then on every boot calls it invalid and copies it again, and the next update request
  erases its backup.
* `FreedOnce`: `supervision_variables` is freed and not cleared (`fvc_supervisor.c:149-152`); a
  configuration that goes on with a count of 0 or a timeout leads to a second `free`.
* `NothingLost`: a comment (`EEPROM_Emul/eeprom_emul.c:1611-1614`) says where a transfer resumes; its
  index counts dummies and torn elements, so after a second power loss in the same transfer it starts
  behind variables not yet transferred, and their last copies are erased.
* `PowerOnStarts`: step 1 of `EE_Init` relies on an NMI handler that clears a corrupted line
  (`eeprom_emul.c:242-246`); the handler of this build loops (`Core/Src/stm32g4xx_it.c:71-81`).

For `Fvc` these mean that its atomic EEPROM holds for boards that do not lose power again while the next
start resumes a transfer (`ImplementsStore` proves it for those that do not), and that an ECC error left by
a power loss stops them at `"nmi"`, where nothing is lost and nothing starts. A transfer comes once in 756
writes.

## Proofs

TLAPS proves, for every value of the constants that the assumptions allow:

| Module | Theorem | Property |
|---|---|---|
| `FvcProofs` | `TypeCorrect` | the type invariant |
| | `WholeImageRuns` | `RunsWholeImage` |
| | `FinishedIsInstalled` | `FinishedMeansInstalled` |
| | `RestoreIsBackup` | `RestoreInstallsBackup` |
| | `RecordedProgramKept` | `KeepsRecordedProgram` |
| `SupervisorProofs` | `SupervisorTyped` | the type invariant |
| | `BlockAccessed` | `BlockAccess` |
| | `RefreshEarned` | `DeadlineEarned` |
| `EepromProofs` | `TypeCorrect` | the type invariant, until a flash operation fails |
| | `OnlyErasedLines` | `ProgramsErasedLines`, until a flash operation fails |
| | `CleanUpNotForced` | `NoForcedCleanUp`, until a flash operation fails |
| | `FlashWorks` | all three in every state, with `MaxFaults = 0` |
| `EepromStoreProofs` | `ImplementsStore` | `StoreSpec`, with no `RecoveryCut` |
| | `OneCut` | `StoreSpec`, with `MaxCuts <= 1` |
| | `NothingIsLost` | `NothingLost`, with no `RecoveryCut` and `MaxFaults = 0` |
| | `OneCutLosesNothing` | `NothingLost`, with `MaxCuts <= 1` and `MaxFaults = 0` |
| `ProgramCopyProofs` | `TypeCorrect` | the type invariant |
| | `QuadModeStays` | `QuadEnabled` |
| | `CopiesOnlyRecorded` | `CopiesRecordedProgram`, with `MaxUnnoticed <= 1` |
| | `NeverMixes` | `NoMixture`, with `MaxUnnoticed <= 1` |
| | `RunsOnlyRecorded` | `GoesWithProgram`, with `MaxUnnoticed <= 1` |
| | `RolesOfSpi` | `SpiRole`, with `MaxUnnoticed <= 1` |
| `HostUpdateProofs` | `TypeCorrect` | the type invariant |
| | `FinishedMeansInstalled` | `FinishedIsInstalled`, for lists with the board once |
| `HostLimitProofs` | `BoardGivesUp` | `BoardGivesUpFirst`, for lists with the board once and `RetryLimit < MaxRetransfers` |
| | `PacketsRepaired` | `RepairsPackets`, with `LimitsFit` |
| `ProgramTransferProofs` | `BurstsAreSeen` | (the checksum; used by the others) |
| | `TransferTypes` | the type invariant |
| | `CodecsAgree` | `FramesAgree` |
| | `DamageIsNoticed` | `DamageIsRefused` |
| | `ProgramArrives` | `FlashHoldsProgram` |
| | `DamageIsRepaired` | `DataIsRepaired` |

The assumptions are those of the modules, which TLC evaluates on every run. `Fvc`: pages, images
that fit the flash, marks that are distinct from data, a retry limit and bounds that are numbers.
`Supervisor`: `MaxVars` in 1..255, 0 among the values, an initial period within the reload value.
`Eeprom`: at least one variable and one element in a page, marks of a line that are distinct from
variables; any sizes, any numbers of power losses. `ProgramCopy`: programs that fit the flash, any numbers of failures. `HostUpdate`: any lists, packets,
limits, times and numbers of faults. `ProgramTransfer`: packets that a length of two bytes can
announce and that are whole pages when full, a mailbox that holds a request, programs whose packets four
bytes can count, hits within eight neighbouring bits; at most 255 programs, since the byte that stands
for the HMAC has to tell them apart. What a theorem needs besides is its hypothesis.

*Controller.* None of the properties is inductive: that a running target holds a whole image
depends on what the scan or the copy has established before it starts it. `IInv` of `FvcProofs` adds
four parts. `TargetInv`: the target is in its bootloader while it is rewritten, and the mode is
UPDATER. `ScanInv`: a scan runs over a recorded program and ends with one that matches.
`BufferInv`: what has been received is in the external flash, and once authenticated it is the
image of the header. `CopyInv`: a copy reads an intact recorded backup, and its first `addr`
pages are in the target. `FvcProofs` proves typing action by action, then one lemma per part
(`TargetStep`, `ScanStep`, `BufferStep`, `CopyStep`), and `StepInv` combines them.
`RecordedProgramKept` needs `IInv` and, besides, `KeepsStep`: in each phase the one flash that is
written is not the one that holds the recorded program.

*Supervisor.* `SInv` adds `ControlInv` (during a call only the interrupt writes the state),
`BlockInv` (a freed block counts no variables) and `RoundInv` (variables pass in order, so the
flag of the last one is set only between finding it in range and the look at all flags).
`AllCheckedPassed` is the step from there to `DeadlineEarned`; steps that touch neither
configuration nor checks share the lemma `QuietStep`.

*EEPROM.* A power loss may come at any line of a transfer, of the recovery of one, or of the
recovery of that, so the invariant must say what the flash can look like then. `Known` names three
shapes, besides a ring never written: page `c` is active (`Settled`), receives a transfer
(`Moving`), or is full with the next page not begun (`Gap`); in each the half of `c` is written up
to `c` (`Front`) and the other half is as erasing or marking left it. A page half erased may read as
active or receiving; that it is not taken for one rests on the order in which pages are erased, the
first of the half first, so that behind it all are still marked (`Torn`, `ErasesOn`,
`TornUnreliable`). `SettledReliable`, `MovingReliable`, `GapReceives` and `GapActivates` show that
the tests of `EE_Init` tell the shapes apart, and one lemma for each action that its shape is kept;
`TornElementKnown` and `TornEraseKnown` do so for the middle of one. `Places` adds what holds at
each `pc`. `Counted` ties `nb` and `next` to the flash, `Counts` and `CountsBefore` compute both
from a page and back. A transfer fits into a half (`Room`) because an index is copied only for a
variable not written yet and `PagesNumber` leaves a half more elements than there are variables; but
dummies of recoveries take room as well, so after enough power losses it may not fit, and then ends
through `NoRoomStep`. Nothing is said of a flash whose operation has failed: after one the old half
may be marked only in part, and TLC finds a later start that programs a line of a marked page once
more.

*The store.* `EepromStoreProofs` adds to the shapes what is in them. `Latest(e, P, i)` is the newest
data of variable `i` in the pages of `P`; `ReadsReady` and `ReadsMoving` show that `ReadVariable`
finds it in the half of page `c` and, behind it, in the other. `FlashData` is what a start may count
on: an active page gives every variable as it was last, the one being written with or without the
write (`Kept`); a receiving page and a gap give that only together with the other half (`Fresh`,
`Sourced`), and the number of elements written bounds the variables that still need the other half
(`Resumable`), so that a transfer resumed from that number steps over none of them. `Data` says the
same of each `pc` and of the index and the counts there (`Progress`). One lemma for each action
shows that `Data` is kept and that the step is one of `EepromStore` or none (`Seen`): an
acknowledged write is stored (`PlainData`), the end of a transfer or of a start decides the write
that was under way (`ReadyData`, `WithOrWithout`). `Resumable` is where the code falls short:
`ResumeIndex` allows for the dummy of a recovery and for one torn element, so a power loss after the
dummy of a recovery was begun and before the recovery has been through all variables (`RecoveryCut`)
leaves a number too great. `eeprom_lost` is such a case. `ImplementsStore` excludes just these power
losses and no others; `OneCut` needs no such hypothesis, because before the first power loss there
is no transfer to resume (`Clean`).

*Drivers.* The invariant says, for each operation of a driver function, what the chip and the
bootloader may be at. `CoreInv` holds whatever fails: typing, loops within their program, and the quad
bit, whose first write meets an idle chip. The rest needs `MaxUnnoticed <= 1`, which is exact (see
the bounds): the failure that nobody notices is either before the read back, which then finds it, or in
it, and then the page was programmed. `IdleInv` says when the chip is idle, `StoreInv` what an update
has stored, `BackupInv` that what was compared and validated is what is copied. `MailInv` is the
argument about late answers: at each step the mailbox holds only messages of the exchange under way
or of the one before, the bootloader is behind by at most one of them, and an `ACK` to an address
means that the bootloader has that address, so that a write that is acknowledged was written to the page it
was meant for. `TargetInv` then has the pages already read or written, `RoleInv` the roles of SPI2.
One lemma per driver function lists its operations (`ScanCode`, ...), one per action shows a part kept.

*Host and board.* A `FINISHED` may be late, be taken for another answer, and wait in three queues.
That it still means an installed program rests on the order of the frames: `OneBlock`, the packets of
the board's update come in one block behind its request; `FedInv`, once the board has received a packet
no further request of its own can bring another; `OnceInv`, so it is fed in one update only and what
is installed is not touched again; `FinishedInv`, a `FINISHED` in any queue (`say`, `up`, `rxq`)
means that the program is installed. The hypothesis `NamedOnce` is that of the tool, which keeps one
event and one pair of queues for each identity (`Python/main.py:191-194`). It is needed:
for `<<2, 3, 1, 1>>`, with three faults, TLC finds that acknowledgements meant for the boards
before let the second update of board 1 run through while its packets are refused, and the `FINISHED`
of the first is taken for its own after a copy has failed. For `<<1, 1>>` alone the run finds nothing.

*Retry limits.* The tool counts the refusals (`NACK`) of one packet up to `_max_retransfers`, 5; the
board counts all failures of an update, and forgives 3. That the board is the first to give up is not
inductive, as what the tool counts may be answers from long ago. `RetryInv` looks at the answers on their way
in one sequence, `InFlight == rxq \o (up \o say)`, and counts refusals from an acknowledgement on:
one on its way, or the last one that the tool has taken, with what it has counted since.
`RunInv`: no more refusals in a row follow than the board forgives, unless the board has left the update
behind for good (`Spent`: hung, or without a request before it or on its way). `LastInv` is what makes it
inductive: when nothing but refusals follows, a board that receives has counted all of them in
`retry_counter`, and a board in its main loop, whose refusals are counted by nobody, is `Spent`. The silent
end of a failed copy keeps it because the packets of the update have come before (`FedInv`). The answers
move between the queues in their order (`PassesOn`), what the board adds is one of five kinds (`BoardAdds`,
`LineAdds`), and what the tool takes is the oldest (`AnswerTaken`, `AnswerCounts`). The hypothesis on
the limits is that of the code, 3 < 5. `NamedOnce` serves the argument; for lists with the board twice TLC
has found no violation.

*Repair.* `RepairInv` says how far the first update of a list is, for the tool, the line and the board
at once, as long as the conditions of `RepairsPackets` hold: nobody has begun (`AtRest`), the request is
on its way or executed (`Asked`), the board has just the packets that were acknowledged (`Reached`), or
one more packet is on the line, has arrived, is missing, or was refused (`Sent`). What makes it inductive is
a relation of three counters and of two timers. Each refusal of a packet takes a hit, so
`retr <= bretry <= Hits`, and with `Hits <= RetryLimit < MaxRetransfers` neither side gives up. A missing
packet is refused when the board's time is up; both timers began with the packet and run together, so
`bt < ht` stays true until then, and the tool never sees its own time end. Only an erase or a copy, which the
board's timer does not bound, can outlast the tool; there the invariant ends with `ht = 0`. The hypothesis
`LimitsFit` is the order of the code's values: 3 < 5 failures, 3 s < 20 s, and a wait for the end that is not 0.
The list may name the board twice.

*Frames and transfer.* The proofs go from bits to bytes to frames to the program. `Xor` is a sum over
eight bits, so its laws (`XorAssoc`, `XorCancel`, `XorSwap`) are proved bit by bit. The table is linear
(`TableXor`) and injective (`TableInjective`), because one shift is; a shift of eight places doubles
with its argument, so a pattern of at most eight bits, wherever it lies in two bytes, is not lost when
these two have gone through the table (`BurstKernel`). `BurstIsSeen` carries that to sequences of any
length: the checksum before the hit is the same, behind it two different values stay different
(`StepInjective`), zeros behind a frame included, since the board's buffer may be longer than what came.
The checksum is a recursive function, so these are inductions over its length; `Induct` states induction
as a fact about a set of naturals and follows from the well-foundedness of `<`. `HostFrame` and
`BoardFrame` say what the codecs make, `FrameTaken`, `DamageRefused` and `AnswerRefused` what the
other side does with it, hit or not. The invariant `Inv` of the transfer is `Types`, `Line` (what is on
the line is a frame of the last packet or an answer, or one of these with one hit) and `Way`: how far the
transfer is. `Board(o)` there says that the board has counted the packets of the first `o` bytes of the
program, and has all of them or fewer than `o` bytes: a hit frame that ended early passes the checksum now
and then, and what it left out is never made up for (`PartTaken`). The end compares the HMAC of what was
received with the one of the request; a request that ended early leaves the zeros of its buffer there,
which is no program's HMAC. `Unhurt` goes along with it: without a hit on a length, a request or an
answer the board knows the request and has every byte, so it does not stop early (`NoMoreStep`).

`IInv`, `SInv`, `Inv` and the invariants of the drivers and of the host were checked by TLC on small
instances before they were proved. Only model-checked:

* every liveness property: liveness under fairness is out of the prover's reach;
* the four counterexamples.

## Not modelled

* The unbuffered update, `create_firmware_backup`, protocol version 1: compiled out by
  `CFG_BUFFORING_MODE 1` and its neighbours, as are the blocks of `_is_app_present_and_valid` under
  `CFG_CREATE_BACKUP_AT_START`.
* Functions without a caller: most of the vendored flash driver (sectors, sleep, locks, single
  lines, typed reads and writes), the bootloader commands that `fvc.c` does not give, `EE_CleanUp`.
  Without a caller there is no order of calls to check.
* Hash arithmetic of CRC-32 and HMAC-SHA256 (`SHA256/` is vendored), which the models take as free of
  collisions.
* Frames that update nothing: identification, debug output, the command line. The parallel mode of
  the update manager, which `main(False)` leaves off.
* LED, generated start-up but for the roles of SPI2, interrupt code but for the NMI and the timer, `Python/main_old.py`
  (superseded).
* A packet count larger than the flash: what the device does past its end is not in the code.

## Plan

1. `Fvc` and `Supervisor` with their proofs: done.
2. `EepromStore` and `Eeprom` with the refinement: done, checked.
3. `HostUpdate`, `ProgramTransfer`, `ProgramCopy`: done, checked.
4. `ProgramCopyProofs`, `HostUpdateProofs`, `HostLimitProofs`, `EepromProofs`: done.
5. `EepromStoreProofs`, the refinement step by step, and `ProgramTransferProofs`: done.
6. `RepairsPackets`, with an invariant of both sides' counters and timers: done.
