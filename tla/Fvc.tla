-------------------------------- MODULE Fvc --------------------------------
(***************************************************************************)
(* The firmware version controller's main thread (FVC/fvc.c and            *)
(* FVC/fvc_backup_management.c, built with CFG_BUFFORING_MODE = 1): boot   *)
(* validation of the target's program, the buffered update handler, the    *)
(* restore from the backup in the external flash, and the main loop.       *)
(*                                                                         *)
(* Three memories survive a power loss: the target's program flash         *)
(* (prog), the external W25Q flash that buffers and backs up a program     *)
(* (ext), and the emulated EEPROM (ee).  Each access to one of them is a   *)
(* step of its own, and the power can be lost between any two steps and    *)
(* in the middle of an erase or of a page write.                           *)
(*                                                                         *)
(* A program image is a sequence of pages.  One page stands for the 256    *)
(* bytes of a flash page and for a 2048-byte data packet alike, so one     *)
(* packet programs one page.  The CRC-32 and the HMAC-SHA256 are taken to  *)
(* be free of collisions: the recorded hash of a program is the program.   *)
(***************************************************************************)
EXTENDS Integers, Sequences

CONSTANTS
  Data,        \* contents of a flash page
  Blank,       \* an erased page (all 0xFF)
  Torn,        \* a page whose programming went wrong or was cut off
  MaxPages,    \* pages of either flash memory
  Images,      \* programs a host holding the HMAC key may send
  NoData,      \* an EEPROM variable never written (EE_NO_DATA)
  NoFrame,     \* an empty mailbox
  OtherFrame,  \* a frame that is malformed or asks for nothing
  RetryLimit,  \* the 3 of "retry_counter > 3"
  MaxFaults,   \* bound: device faults in a behaviour
  MaxCuts,     \* bound: power losses
  MaxFrames    \* bound: frames that reach the mailbox

ASSUME PagesAssumption  == MaxPages \in Nat \ {0}
ASSUME DataAssumption   == Blank \in Data /\ Torn \in Data
ASSUME ImagesAssumption ==
  /\ Images \subseteq Seq(Data)
  /\ \A img \in Images : Len(img) <= MaxPages
ASSUME MarkAssumption   ==
  /\ NoData \notin Images /\ NoData \notin Nat
  /\ NoFrame \notin Images /\ OtherFrame \notin Images /\ NoFrame # OtherFrame
ASSUME BoundAssumption  ==
  /\ RetryLimit \in Nat
  /\ MaxFaults \in Nat /\ MaxCuts \in Nat /\ MaxFrames \in Nat

VARIABLES
  prog,    \* the target's program flash
  ext,     \* the external flash: buffer and backup
  ee,      \* the emulated EEPROM's variables
  tgt,     \* the target: "off", "held" in reset, in its "boot"loader, or running its "app"
  pc,      \* where the main thread is
  status,  \* ctx.status
  mode,    \* ctx.curr_mode
  mail,    \* ctx.interface_cli_data and ctx.interface_cli_data_present
  job,     \* the decoded update header: the image its packet count and HMAC describe
  got,     \* program data received so far: prog_len, prog_hash and the HMAC's input
  addr,    \* the loop counter of a scan or a copy, in pages
  retry,   \* retry_counter
  upd,     \* update_status
  ret,     \* who called _copy_program_from_flash_to_memory
  faults, cuts, frames   \* what is left of the three bounds

nv   == <<prog, ext, ee>>
ctx  == <<status, mode>>
rx   == <<job, got>>
loc  == <<addr, retry, upd, ret>>
env  == <<cuts, frames>>
vars == <<nv, tgt, pc, ctx, mail, rx, loc, faults, env>>

Pages == 1..MaxPages
Flash == [Pages -> Data]

\* The hash recorded with a length of n pages is that of the first n pages of f.
Matches(f, n, h) == n = Len(h) /\ \A i \in 1..n : f[i] = h[i]

\* An EEPROM program record (length and hash) is present, and f holds its program.
Present(n, h)    == n # NoData /\ h # NoData
Records(f, n, h) == Present(n, h) /\ Matches(f, n, h)

\* Some of the pages of f are erased: the outcome of an interrupted or failed erase.
PartErased(f) == {[i \in Pages |-> IF i \in S THEN Blank ELSE f[i]] : S \in SUBSET Pages}

Goto(l)  == pc' = l
Fault    == faults > 0 /\ faults' = faults - 1
NoFault  == UNCHANGED faults

-----------------------------------------------------------------------------
(* Emulated EEPROM                                                         *)

Fields  == {"ver", "plen", "phash", "blen", "bhash"}
Lengths == {"plen", "blen"}

\* fvc_eeprom_write.  A variable never written reads as the buffer's initial 0, so a
\* length 0 is reported written without being stored.  EE_CLEANUP_REQUIRED stores the
\* value and is reported as a failure.
EepromWrite(x, v, done) ==
  IF ee[x] = v \/ (ee[x] = NoData /\ x \in Lengths /\ v = 0)
  THEN done /\ NoFault /\ UNCHANGED ee
  ELSE \/ ee' = [ee EXCEPT ![x] = v] /\ NoFault
       \/ ~done /\ Fault /\ UNCHANGED ee

ProgramPresent == Present(ee["plen"], ee["phash"])
BackupPresent  == Present(ee["blen"], ee["bhash"])
ProgramIntact  == Records(prog, ee["plen"], ee["phash"])
BackupIntact   == Records(ext, ee["blen"], ee["bhash"])

-----------------------------------------------------------------------------
(* SPI bootloader of the target.  A call that fails may have had its       *)
(* effect: the acknowledgement is what got lost.                           *)

\* jmp_to_bootloader pulses the reset with BOOT0 high, whatever it returns.
JmpToBootloader(ok) ==
  /\ tgt' = "boot"
  /\ IF ok THEN NoFault ELSE Fault

JmpToApp(ok) ==
  IF ok THEN tgt' = "app" /\ NoFault
        ELSE tgt' \in {"boot", "app"} /\ Fault

-----------------------------------------------------------------------------
(* Start-up                                                                *)

PowerOn ==
  /\ pc = "off"
  /\ Goto("init")
  /\ tgt' = "held"
  /\ UNCHANGED <<nv, ctx, mail, rx, loc, faults, env>>

\* fvc_main up to _default_board_init: a failing EE_Init or W25Q_Init stops the board.
Initialize ==
  /\ pc = "init"
  /\ \/ Goto("connect") /\ NoFault
     \/ Goto("halt") /\ Fault
  /\ UNCHANGED <<nv, tgt, ctx, mail, rx, loc, env>>

\* main's closing loop, once fvc_main has returned.
Halt == pc = "halt" /\ UNCHANGED vars

\* _default_board_init: reaching the bootloader.
Connect ==
  /\ pc = "connect"
  /\ \/ JmpToBootloader(TRUE) /\ Goto("present") /\ UNCHANGED status
     \/ /\ tgt' = "held" /\ Fault
        /\ status' = "BOOTLOADER_ERROR" /\ Goto("loop")
  /\ UNCHANGED <<nv, mode, mail, rx, loc, env>>

\* _is_app_present_and_valid: the record of the current program.
CheckPresent ==
  /\ pc = "present"
  /\ IF ProgramPresent
     THEN addr' = 0 /\ Goto("scan") /\ UNCHANGED status
     ELSE status' = "PROGRAM_INVALID" /\ Goto("loop") /\ UNCHANGED addr
  /\ UNCHANGED <<nv, tgt, mode, mail, rx, retry, upd, ret, faults, env>>

\* One page of the target read back and hashed; a failed read reconnects and retries.
ScanPage ==
  /\ pc = "scan" /\ addr < ee["plen"]
  /\ \/ addr' = addr + 1 /\ NoFault /\ UNCHANGED tgt
     \/ tgt' = "boot" /\ Fault /\ UNCHANGED addr
  /\ UNCHANGED <<nv, pc, ctx, mail, rx, retry, upd, ret, env>>

\* Mutant: the record is there, its hash is not compared.
ScanDoneUnhashed ==
  /\ pc = "scan" /\ addr = ee["plen"]
  /\ Goto("launch")
  /\ UNCHANGED <<nv, tgt, ctx, mail, rx, loc, faults, env>>

ScanDone ==
  /\ pc = "scan" /\ addr = ee["plen"]
  /\ IF ProgramIntact
     THEN Goto("launch") /\ UNCHANGED status
     ELSE Goto("loop") /\ status' = "PROGRAM_INVALID"
  /\ UNCHANGED <<nv, tgt, mode, mail, rx, loc, faults, env>>

Launch ==
  /\ pc = "launch"
  /\ \E ok \in BOOLEAN :
       /\ JmpToApp(ok)
       /\ status' = IF ok THEN "OK" ELSE "EXECUTION_ERROR"
       /\ mode'   = IF ok THEN "SUPERVISOR" ELSE mode
  /\ Goto("loop")
  /\ UNCHANGED <<nv, mail, rx, loc, env>>

-----------------------------------------------------------------------------
(* The main loop: _handle_invalid_program, _process_msg, supervisor_loop   *)

\* _handle_invalid_program up to validate_current_backup's reads of the EEPROM.
HandleInvalidProgram ==
  /\ pc = "loop"
  /\ IF status = "PROGRAM_INVALID" /\ BackupPresent /\ ProgramPresent
     THEN Goto("check") /\ addr' = 0
     ELSE Goto("msg") /\ UNCHANGED addr
  /\ UNCHANGED <<nv, tgt, ctx, mail, rx, retry, upd, ret, faults, env>>

\* validate_current_backup(false): one page of the backup hashed; a failed read retries.
CheckPage ==
  /\ pc = "check" /\ addr < ee["blen"]
  /\ \/ addr' = addr + 1 /\ NoFault
     \/ UNCHANGED addr /\ Fault
  /\ UNCHANGED <<nv, tgt, pc, ctx, mail, rx, retry, upd, ret, env>>

\* Mutant: the backup's hash is compared with the program's record.
CheckDoneOfProgram ==
  /\ pc = "check" /\ addr = ee["blen"]
  /\ IF Records(ext, ee["plen"], ee["phash"])
     THEN Goto("copy") /\ mode' = "UPDATER" /\ ret' = "restore"
     ELSE Goto("msg") /\ UNCHANGED <<mode, ret>>
  /\ UNCHANGED <<nv, tgt, status, mail, rx, addr, retry, upd, faults, env>>

CheckDone ==
  /\ pc = "check" /\ addr = ee["blen"]
  /\ IF BackupIntact
     THEN Goto("copy") /\ mode' = "UPDATER" /\ ret' = "restore"
     ELSE Goto("msg") /\ UNCHANGED <<mode, ret>>
  /\ UNCHANGED <<nv, tgt, status, mail, rx, addr, retry, upd, faults, env>>

\* _process_msg: nothing to do, a frame that asks for nothing, or an update request.
ProcessMsg ==
  /\ pc = "msg"
  /\ \/ mail = NoFrame /\ Goto("sup") /\ UNCHANGED <<mode, mail, job>>
     \/ mail = OtherFrame /\ Goto("sup") /\ mail' = NoFrame /\ UNCHANGED <<mode, job>>
     \/ /\ mail \in Images /\ Goto("erase_ext")
        /\ mode' = "UPDATER" /\ job' = mail /\ UNCHANGED mail
  /\ UNCHANGED <<nv, tgt, status, got, loc, faults, env>>

\* supervisor_loop as far as the target's program goes: nothing, or, once the
\* supervision timer has elapsed, a reset; the target then starts from its flash, BOOT0
\* being low.
SupervisorIdle ==
  /\ pc = "sup" /\ Goto("loop")
  /\ UNCHANGED <<nv, tgt, ctx, mail, rx, loc, faults, env>>

SupervisorReset ==
  /\ pc = "sup" /\ mode = "SUPERVISOR"
  /\ tgt' = "app" /\ Goto("loop")
  /\ UNCHANGED <<nv, ctx, mail, rx, loc, faults, env>>

\* The UART's callback: a frame enters the mailbox, or finds it full and is answered
\* with a NACK.  Reception is off during an update (bsp_interface_abort_receive_IT).
Buffering == {"erase_ext", "recv", "prog", "auth", "rec_blen", "rec_bhash"}
Copying   == {"copy", "erase", "write"}
Finishing == {"go", "rec_ver", "rec_plen", "rec_phash"}
Updating  == pc \in Buffering \/ (pc \in Copying \cup Finishing /\ ret = "update")

InterfaceCallback ==
  /\ pc # "off" /\ ~Updating
  /\ mail = NoFrame /\ frames > 0
  /\ frames' = frames - 1
  /\ mail' \in Images \cup {OtherFrame}
  /\ UNCHANGED <<nv, tgt, pc, ctx, rx, loc, faults, cuts>>

-----------------------------------------------------------------------------
(* _handle_update_program_request, buffered                                *)

\* Mutant: the mailbox keeps its frame.
EndOfRequestKept == Goto("sup") /\ UNCHANGED mail

\* Back to the main loop through the end of _process_msg, which empties the mailbox.
EndOfRequest == Goto("sup") /\ mail' = NoFrame

\* W25Q_EraseChip, result ignored; then the ACK that asks for the first packet.
EraseExt ==
  /\ pc = "erase_ext"
  /\ \/ ext' = [i \in Pages |-> Blank] /\ NoFault
     \/ ext' \in PartErased(ext) /\ Fault
  /\ got' = <<>> /\ retry' = 0 /\ upd' = FALSE
  /\ Goto("recv")
  /\ UNCHANGED <<prog, ee, tgt, ctx, mail, job, addr, ret, env>>

\* One data packet: the host's next one, a repeated one or a late one.  Frames carry no
\* sequence number, so any page is taken for the next.
ReceivePacket ==
  /\ pc = "recv" /\ Len(got) < Len(job)
  /\ \E p \in Data : got' = Append(got, p)
  /\ Goto("prog")
  /\ UNCHANGED <<nv, tgt, ctx, mail, job, loc, faults, env>>

\* Mutant: one more failure is accepted.
ReceiveFailsLate ==
  /\ pc = "recv" /\ Len(got) < Len(job)
  /\ retry' = retry + 1
  /\ IF retry' > RetryLimit + 1
     THEN EndOfRequest
     ELSE UNCHANGED <<pc, mail>>
  /\ UNCHANGED <<nv, tgt, ctx, rx, addr, upd, ret, faults, env>>

\* Nothing within 3 s, or a frame that does not decode or is for another board.
ReceiveFails ==
  /\ pc = "recv" /\ Len(got) < Len(job)
  /\ retry' = retry + 1
  /\ IF retry' > RetryLimit
     THEN EndOfRequest
     ELSE UNCHANGED <<pc, mail>>
  /\ UNCHANGED <<nv, tgt, ctx, rx, addr, upd, ret, faults, env>>

AllReceived ==
  /\ pc = "recv" /\ Len(got) = Len(job)
  /\ Goto("auth")
  /\ UNCHANGED <<nv, tgt, ctx, mail, rx, loc, faults, env>>

\* Programming the external flash cannot turn a page that is not erased into another.
Programmed(old, new) == IF old \in {Blank, new} THEN new ELSE Torn

\* The last packet programmed and read back.  An error of W25Q_ProgramRaw is retried
\* without limit, a page that reads back wrong counts against the retry limit.
ProgramPage ==
  LET n == Len(got) IN
  /\ pc = "prog"
  /\ \/ ext' = [ext EXCEPT ![n] = Programmed(@, got[n])] /\ NoFault
     \/ ext' = [ext EXCEPT ![n] = Torn] /\ Fault
  /\ IF ext'[n] = got[n]
     THEN Goto("recv") /\ UNCHANGED <<mail, retry>>
     ELSE /\ retry' = retry + 1
          /\ IF retry' > RetryLimit
             THEN EndOfRequest
             ELSE UNCHANGED <<pc, mail>>
  /\ UNCHANGED <<prog, ee, tgt, ctx, rx, addr, upd, ret, env>>

ProgramPageError ==
  /\ pc = "prog" /\ Fault
  /\ UNCHANGED <<nv, tgt, pc, ctx, mail, rx, loc, env>>

\* Mutant: any HMAC is good.
AuthenticateAny ==
  /\ pc = "auth"
  /\ Goto("rec_blen") /\ upd' = TRUE
  /\ UNCHANGED <<nv, tgt, ctx, mail, rx, addr, retry, ret, faults, env>>

\* The HMAC of what was received against the one of the header.
Authenticate ==
  /\ pc = "auth"
  /\ IF got = job
     THEN Goto("rec_blen") /\ upd' = TRUE /\ UNCHANGED mail
     ELSE EndOfRequest /\ UNCHANGED upd
  /\ UNCHANGED <<nv, tgt, ctx, rx, addr, retry, ret, faults, env>>

RecordBackupLen ==
  /\ pc = "rec_blen"
  /\ \E done \in BOOLEAN :
       EepromWrite("blen", Len(got), done) /\ upd' = (upd /\ done)
  /\ Goto("rec_bhash")
  /\ UNCHANGED <<prog, ext, tgt, ctx, mail, rx, addr, retry, ret, env>>

\* Mutant: the copy starts whatever became of the record.
RecordBackupHashUnchecked ==
  /\ pc = "rec_bhash"
  /\ \E done \in BOOLEAN : EepromWrite("bhash", got, done) /\ upd' = (upd /\ done)
  /\ Goto("copy") /\ mode' = "UPDATER" /\ ret' = "update"
  /\ UNCHANGED <<prog, ext, tgt, status, mail, rx, addr, retry, env>>

RecordBackupHash ==
  /\ pc = "rec_bhash"
  /\ \E done \in BOOLEAN :
       EepromWrite("bhash", got, done) /\ upd' = (upd /\ done)
  /\ IF upd'
     THEN Goto("copy") /\ mode' = "UPDATER" /\ ret' = "update" /\ UNCHANGED mail
     ELSE EndOfRequest /\ UNCHANGED <<mode, ret>>
  /\ UNCHANGED <<prog, ext, tgt, status, rx, addr, retry, env>>

-----------------------------------------------------------------------------
(* _copy_program_from_flash_to_memory, and what its two callers do next    *)

\* A failing copy leaves its status in a restore; the update handler overwrites it.
CopyFails(s) ==
  /\ status' = IF ret = "update" THEN "PROGRAM_INVALID" ELSE s
  /\ IF ret = "update" THEN EndOfRequest ELSE Goto("msg") /\ UNCHANGED mail

StartCopy ==
  /\ pc = "copy"
  /\ \/ ~BackupPresent /\ CopyFails("PROGRAM_INVALID") /\ NoFault /\ UNCHANGED tgt
     \/ /\ BackupPresent /\ JmpToBootloader(TRUE)
        /\ Goto("erase") /\ UNCHANGED <<status, mail>>
     \/ BackupPresent /\ JmpToBootloader(FALSE) /\ CopyFails("BOOTLOADER_ERROR")
  /\ UNCHANGED <<nv, mode, rx, loc, env>>

EraseTarget ==
  /\ pc = "erase"
  /\ \/ /\ prog' = [i \in Pages |-> Blank] /\ NoFault
        /\ addr' = 0 /\ retry' = 0 /\ Goto("write") /\ UNCHANGED <<status, mail>>
     \/ /\ prog' \in PartErased(prog) /\ Fault
        /\ CopyFails("BOOTLOADER_ERROR") /\ UNCHANGED <<addr, retry>>
  /\ UNCHANGED <<ext, ee, tgt, mode, rx, upd, ret, env>>

WritePage ==
  /\ pc = "write" /\ addr < ee["blen"]
  /\ prog' = [prog EXCEPT ![addr + 1] = ext[addr + 1]]
  /\ addr' = addr + 1 /\ retry' = 0
  /\ UNCHANGED <<ext, ee, tgt, pc, ctx, mail, rx, upd, ret, faults, env>>

\* A page read from the external flash that fails is read again.
WriteReadError ==
  /\ pc = "write" /\ addr < ee["blen"] /\ Fault
  /\ UNCHANGED <<nv, tgt, pc, ctx, mail, rx, loc, env>>

WriteFails ==
  /\ pc = "write" /\ addr < ee["blen"] /\ Fault
  /\ \E p \in {prog[addr + 1], ext[addr + 1], Torn} : prog' = [prog EXCEPT ![addr + 1] = p]
  /\ retry' = retry + 1
  /\ tgt' = "boot"
  /\ IF retry' > RetryLimit
     THEN CopyFails("PROGRAM_INVALID")
     ELSE UNCHANGED <<pc, status, mail>>
  /\ UNCHANGED <<ext, ee, mode, rx, addr, upd, ret, env>>

\* Mutant: one page short.
CopyDoneEarly ==
  /\ pc = "write" /\ addr + 1 >= ee["blen"]
  /\ Goto("go")
  /\ UNCHANGED <<nv, tgt, ctx, mail, rx, loc, faults, env>>

CopyDone ==
  /\ pc = "write" /\ addr = ee["blen"]
  /\ Goto("go")
  /\ UNCHANGED <<nv, tgt, ctx, mail, rx, loc, faults, env>>

\* jmp_to_app, result ignored.  A restore is then over, and supervised.
Go ==
  /\ pc = "go"
  /\ \E ok \in BOOLEAN : JmpToApp(ok)
  /\ IF ret = "restore"
     THEN Goto("msg") /\ status' = "OK" /\ mode' = "SUPERVISOR"
     ELSE Goto("rec_ver") /\ UNCHANGED ctx
  /\ UNCHANGED <<nv, mail, rx, loc, env>>

RecordVersion ==
  /\ pc = "rec_ver"
  /\ \E done \in BOOLEAN : EepromWrite("ver", job, done)
  /\ Goto("rec_plen")
  /\ UNCHANGED <<prog, ext, tgt, ctx, mail, rx, loc, env>>

RecordLen ==
  /\ pc = "rec_plen"
  /\ \E done \in BOOLEAN : EepromWrite("plen", Len(got), done)
  /\ Goto("rec_phash")
  /\ UNCHANGED <<prog, ext, tgt, ctx, mail, rx, loc, env>>

\* The last record, TYPE_PROGRAM_UPDATE_FINISHED and supervisor_init.
FinishUpdate ==
  /\ pc = "rec_phash"
  /\ \E done \in BOOLEAN : EepromWrite("phash", got, done)
  /\ status' = "OK" /\ mode' = "SUPERVISOR"
  /\ EndOfRequest
  /\ UNCHANGED <<prog, ext, tgt, rx, loc, env>>

-----------------------------------------------------------------------------
(* The environment                                                         *)

\* What a power loss in the middle of the current operation leaves in each flash.
CutTarget ==
  IF pc = "erase" THEN PartErased(prog)
  ELSE IF pc = "write" /\ addr < ee["blen"]
       THEN {prog, [prog EXCEPT ![addr + 1] = Torn]}
       ELSE {prog}

CutExt ==
  IF pc = "erase_ext" THEN PartErased(ext)
  ELSE IF pc = "prog" THEN {ext, [ext EXCEPT ![Len(got)] = Torn]} ELSE {ext}

PowerLoss ==
  /\ pc # "off" /\ cuts > 0
  /\ cuts' = cuts - 1
  /\ prog' \in CutTarget /\ ext' \in CutExt
  /\ Goto("off") /\ tgt' = "off"
  /\ status' = "OK" /\ mode' = "UPDATER"
  /\ mail' = NoFrame /\ job' = <<>> /\ got' = <<>>
  /\ addr' = 0 /\ retry' = 0 /\ upd' = FALSE /\ ret' = "restore"
  /\ UNCHANGED <<ee, faults, frames>>

\* The target's flash changes behind the controller's back while the power is off.
Damage ==
  /\ pc = "off" /\ Fault
  /\ \E i \in Pages : prog' = [prog EXCEPT ![i] = Torn]
  /\ UNCHANGED <<ext, ee, tgt, pc, ctx, mail, rx, loc, env>>

\* A board fresh from the factory: nothing recorded, both flashes erased.
Init ==
  /\ prog = [i \in Pages |-> Blank] /\ ext = [i \in Pages |-> Blank]
  /\ ee = [x \in Fields |-> NoData]
  /\ pc = "off" /\ tgt = "off" /\ status = "OK" /\ mode = "UPDATER"
  /\ mail = NoFrame /\ job = <<>> /\ got = <<>>
  /\ addr = 0 /\ retry = 0 /\ upd = FALSE /\ ret = "restore"
  /\ faults = MaxFaults /\ cuts = MaxCuts /\ frames = MaxFrames

Startup == Initialize \/ Connect \/ CheckPresent \/ ScanPage \/ ScanDone \/ Launch \/ Halt
Loop    == HandleInvalidProgram \/ CheckPage \/ CheckDone \/ ProcessMsg
           \/ SupervisorIdle \/ SupervisorReset
Buffer  == EraseExt \/ ReceivePacket \/ ReceiveFails \/ AllReceived \/ ProgramPage
           \/ ProgramPageError \/ Authenticate \/ RecordBackupLen \/ RecordBackupHash
Copy    == StartCopy \/ EraseTarget \/ WritePage \/ WriteReadError \/ WriteFails \/ CopyDone
Finish  == Go \/ RecordVersion \/ RecordLen \/ FinishUpdate

\* The steps of the controller, and those of its surroundings.
Main    == Startup \/ Loop \/ Buffer \/ Copy \/ Finish
Outside == PowerOn \/ InterfaceCallback \/ PowerLoss \/ Damage
Next    == Main \/ Outside

Spec     == Init /\ [][Next]_vars

\* The main thread keeps running, and a supervised target that does not run its
\* application, and so is silent, is reset (SilentIsReset of Supervisor).
FairSpec == Spec /\ WF_vars(Main) /\ SF_vars(tgt # "app" /\ SupervisorReset)

-----------------------------------------------------------------------------
(* Properties                                                              *)

Labels == {"off", "init", "halt", "connect", "present", "scan", "launch",
           "loop", "check", "msg", "sup"} \cup Buffering \cup Copying \cup Finishing

EepromOK ==
  /\ ee = [x \in Fields |-> ee[x]]
  /\ \A x \in Lengths : ee[x] \in (0..MaxPages) \cup {NoData}
  /\ \A x \in Fields \ Lengths : ee[x] \in Images \cup {NoData}

\* Type invariant: every variable keeps its range: what the EEPROM calls the hash
\* of a program is the hash of one that a key holder sent, a received program fits the
\* flash, and no retry counter passes its limit by more than one.
TypeOK ==
  /\ prog \in Flash /\ ext \in Flash
  /\ EepromOK
  /\ tgt \in {"off", "held", "boot", "app"}
  /\ pc \in Labels
  /\ status \in {"OK", "BOOTLOADER_ERROR", "PROGRAM_INVALID", "EXECUTION_ERROR"}
  /\ mode \in {"UPDATER", "SUPERVISOR"}
  /\ mail \in Images \cup {NoFrame, OtherFrame}
  /\ job \in Images \cup {<<>>}
  /\ got \in Seq(Data) /\ Len(got) <= MaxPages
  /\ addr \in 0..MaxPages /\ retry \in 0..(RetryLimit + 1)
  /\ upd \in BOOLEAN /\ ret \in {"update", "restore"}
  /\ faults \in 0..MaxFaults /\ cuts \in 0..MaxCuts /\ frames \in 0..MaxFrames

\* The target's flash holds a whole image that a key holder sent.
HoldsImage == \E img \in Images : Matches(prog, Len(img), img)

\* Whatever faults, power cuts and stray packets came before, a target that runs its
\* application (started by the GO command or by the supervisor's reset) has a complete
\* authenticated image in its flash, never a partial or a mixed one (fvc.c:158-225,
\* 257-304, 412-452).
RunsWholeImage == tgt = "app" \/ mode = "SUPERVISOR" => HoldsImage

\* When the host is told TYPE_PROGRAM_UPDATE_FINISHED (fvc.c:449) the target holds the
\* image of this request's header, and so does the backup the EEPROM describes.
FinishedMeansInstalled ==
  [][pc = "rec_phash" /\ pc' = "sup" =>
       /\ Matches(prog, Len(job), job)
       /\ Records(ext, ee["blen"], ee["bhash"]) /\ ee["bhash"] = job]_vars

\* A power loss now leaves the next boot something to run: the recorded program in the
\* target, or a recorded backup that _handle_invalid_program accepts.
Recoverable == ProgramIntact \/ (ProgramPresent /\ BackupIntact)

\* No step of the controller and no power loss takes from a board its last usable
\* program, except those of an update that buffers a new program while the EEPROM does
\* not describe the one in the target (fvc.c:348 erases the backup without asking).
\* While it does, the order of erasing, recording and copying (fvc.c:348-446) is safe.
KeepsRecordedProgram ==
  [][Recoverable /\ ~Recoverable' =>
       pc = "off" \/ (pc \in Buffering /\ ~ProgramIntact)]_vars

\* A restore copies the verified backup: once the application is started the target
\* holds the image of the backup record (fvc.c:721-725).
RestoreInstallsBackup ==
  [][pc = "go" /\ ret = "restore" /\ pc' = "msg" =>
       Records(prog, ee["blen"], ee["bhash"]) /\ BackupIntact]_vars

\* The end of a boot that could not start the target for want of a device.
DeviceError == pc = "halt" \/ status \in {"BOOTLOADER_ERROR", "EXECUTION_ERROR"}

\* A board that still has a usable program when power comes back starts its target,
\* from the flash or after a restore, unless a device fails, power is lost again or the
\* host begins an update: the unbounded retries of fvc.c:178-205 and 283-302 and the
\* repeated restores end, and a GO command that failed unnoticed (fvc.c:723) is made up
\* for by the supervisor.
RecoverableBoots ==
  (pc = "init" /\ Recoverable)
    ~> (tgt = "app" \/ DeviceError \/ pc = "off" \/ Updating)

\* Every frame in the mailbox is dealt with and the mailbox emptied (fvc.c:692-710):
\* an update request ends whatever the host does.
MailboxDrains == mail # NoFrame ~> (mail = NoFrame \/ pc = "halt")

\* What "Firmware restored." (fvc.c:725) says: the record of the current program, which
\* the next boot validates (fvc.c:163, 214), describes the restored program.
RestoreIsRecorded ==
  [][pc = "go" /\ ret = "restore" /\ pc' = "msg" => ProgramIntact]_vars

-----------------------------------------------------------------------------
(* The inductive invariant behind RunsWholeImage, FinishedMeansInstalled,  *)
(* KeepsRecordedProgram and RestoreInstallsBackup (proved in FvcProofs)    *)

\* The first n pages of the external flash hold the first n received.
Buffered(n) == \A i \in 1..n : ext[i] = got[i]

\* A running, supervised or powered-off target, and a target being rewritten.
TargetInv ==
  /\ RunsWholeImage
  /\ pc = "off" => tgt = "off" /\ mode = "UPDATER"
  /\ pc \in Copying => mode = "UPDATER"
  /\ pc \in {"erase", "write"} => tgt = "boot"

\* What the two scans have established so far.
ScanInv ==
  /\ pc = "scan" => ProgramPresent /\ addr <= ee["plen"]
  /\ pc = "launch" => ProgramIntact
  /\ pc = "check" => BackupPresent /\ addr <= ee["blen"]

\* What an update has buffered so far, authenticated and recorded.
BufferInv ==
  /\ Updating => job \in Images
  /\ pc \in {"recv", "prog"} => Len(got) <= Len(job) /\ retry <= RetryLimit
  /\ pc \in {"recv", "auth", "rec_blen", "rec_bhash"} => Buffered(Len(got))
  /\ pc = "prog" => Len(got) > 0 /\ Buffered(Len(got) - 1)
  /\ pc \in {"rec_blen", "rec_bhash"} => got = job
  /\ pc = "rec_bhash" /\ upd =>
       ee["blen"] = Len(got) \/ (ee["blen"] = NoData /\ Len(got) = 0)

\* The backup a copy reads, and how far it has got.
CopyInv ==
  /\ pc \in Copying \cup Finishing /\ BackupPresent => BackupIntact
  /\ pc \in {"erase", "write"} \cup Finishing => BackupPresent
  /\ pc \in Copying \cup Finishing /\ ret = "update" =>
       got = job /\ ee["bhash"] = job
  /\ pc = "write" =>
       /\ addr <= ee["blen"] /\ \A i \in 1..addr : prog[i] = ext[i]
       /\ retry <= RetryLimit
  /\ pc \in Finishing => Records(prog, ee["blen"], ee["bhash"])
  /\ pc \in Finishing \ {"go"} => ret = "update"

IInv == TypeOK /\ TargetInv /\ ScanInv /\ BufferInv /\ CopyInv
=============================================================================
