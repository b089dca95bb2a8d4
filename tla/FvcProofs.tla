----------------------------- MODULE FvcProofs -----------------------------
(* Machine-checked proofs about Fvc, for every size of the flashes, every   *)
(* set of images and every bound on faults, power cuts and frames.          *)
EXTENDS Fvc, SequenceTheorems, TLAPS

USE PagesAssumption, DataAssumption, ImagesAssumption, MarkAssumption, BoundAssumption
USE DEF vars, nv, ctx, rx, loc, env, Goto, Fault, NoFault

-----------------------------------------------------------------------------
(* Type correctness                                                        *)

\* fvc_eeprom_write keeps the EEPROM well typed when it is given a value of the
\* variable's type.
LEMMA EepromWriteType ==
  ASSUME EepromOK, NEW x \in Fields, NEW v, NEW done \in BOOLEAN,
         x \in Lengths => v \in 0..MaxPages,
         x \notin Lengths => v \in Images,
         EepromWrite(x, v, done)
  PROVE  EepromOK'
BY DEF EepromOK, EepromWrite, Fields, Lengths

\* A recorded length is a number of pages of the flash.
LEMMA LengthType ==
  ASSUME EepromOK, NEW x \in Lengths, ee[x] # NoData
  PROVE  ee[x] \in 0..MaxPages
BY DEF EepromOK

\* A partial erase leaves a flash memory.
LEMMA PartErasedType ==
  ASSUME NEW f \in Flash, NEW g \in PartErased(f)
  PROVE  g \in Flash
BY DEF PartErased, Flash

LEMMA TypeStartup == IInv /\ Startup => TypeOK'
<1> SUFFICES ASSUME IInv, Startup PROVE TypeOK'
  OBVIOUS
<1>1. CASE Initialize
  BY <1>1 DEF Initialize, IInv, TypeOK, EepromOK, Flash, Pages, Labels, Buffering, Copying, Finishing
<1>2. CASE Connect
  BY <1>2, SMTT(30) DEF Connect, JmpToBootloader, IInv, TypeOK, EepromOK, Flash, Pages, Labels, Buffering, Copying, Finishing
<1>3. CASE CheckPresent
  BY <1>3 DEF CheckPresent, IInv, TypeOK, EepromOK, Flash, Pages, Labels, Buffering, Copying, Finishing
<1>4. CASE ScanPage
  <2>1. ee["plen"] \in 0..MaxPages
    BY <1>4, LengthType DEF ScanPage, IInv, TypeOK, ScanInv, ProgramPresent, Present, Lengths
  <2>2. addr' \in 0..MaxPages
    BY <1>4, <2>1 DEF ScanPage, IInv, TypeOK
  <2> QED
    BY <1>4, <2>2, SMTT(30) DEF ScanPage, IInv, TypeOK, EepromOK
<1>5. CASE ScanDone
  BY <1>5 DEF ScanDone, IInv, TypeOK, EepromOK, Flash, Pages, Labels, Buffering, Copying, Finishing
<1>6. CASE Launch
  BY <1>6, SMTT(30) DEF Launch, JmpToApp, IInv, TypeOK, EepromOK, Flash, Pages, Labels, Buffering, Copying, Finishing
<1>7. CASE Halt
  BY <1>7 DEF Halt, IInv, TypeOK, EepromOK, Flash, Pages, Labels, Buffering, Copying, Finishing
<1>8. QED
  BY <1>1, <1>2, <1>3, <1>4, <1>5, <1>6, <1>7 DEF Startup

LEMMA TypeLoop == IInv /\ Loop => TypeOK'
<1> SUFFICES ASSUME IInv, Loop PROVE TypeOK'
  OBVIOUS
<1>1. CASE HandleInvalidProgram
  BY <1>1 DEF HandleInvalidProgram, IInv, TypeOK, EepromOK, Flash, Pages, Labels, Buffering, Copying, Finishing
<1>2. CASE CheckPage
  <2>1. ee["blen"] \in 0..MaxPages
    BY <1>2, LengthType DEF CheckPage, IInv, TypeOK, ScanInv, BackupPresent, Present, Lengths
  <2>2. addr' \in 0..MaxPages
    BY <1>2, <2>1 DEF CheckPage, IInv, TypeOK
  <2> QED
    BY <1>2, <2>2, SMTT(30) DEF CheckPage, IInv, TypeOK, EepromOK
<1>3. CASE CheckDone
  BY <1>3 DEF CheckDone, IInv, TypeOK, EepromOK, Flash, Pages, Labels, Buffering, Copying, Finishing
<1>4. CASE ProcessMsg
  BY <1>4 DEF ProcessMsg, IInv, TypeOK, EepromOK, Flash, Pages, Labels, Buffering, Copying, Finishing
<1>5. CASE SupervisorIdle
  BY <1>5 DEF SupervisorIdle, IInv, TypeOK, EepromOK, Flash, Pages, Labels, Buffering, Copying, Finishing
<1>6. CASE SupervisorReset
  BY <1>6 DEF SupervisorReset, IInv, TypeOK, EepromOK, Flash, Pages, Labels, Buffering, Copying, Finishing
<1>7. QED
  BY <1>1, <1>2, <1>3, <1>4, <1>5, <1>6 DEF Loop

LEMMA TypeBuffer == IInv /\ Buffer => TypeOK'
<1> SUFFICES ASSUME IInv, Buffer PROVE TypeOK'
  OBVIOUS
<1>1. CASE EraseExt
  <2>1. ext' \in Flash
    <3>1. [i \in Pages |-> Blank] \in Flash
      BY DEF Flash
    <3>2. ext \in Flash
      BY DEF IInv, TypeOK
    <3> QED
      BY <1>1, <3>1, <3>2, PartErasedType DEF EraseExt
  <2>2. got' \in Seq(Data) /\ Len(got') = 0
    BY <1>1 DEF EraseExt
  <2>3. retry' \in 0..(RetryLimit + 1)
    BY <1>1 DEF EraseExt
  <2>4. upd' \in BOOLEAN /\ pc' \in Labels
    BY <1>1 DEF EraseExt, Labels, Buffering
  <2>5. faults' \in 0..MaxFaults
    BY <1>1 DEF EraseExt, IInv, TypeOK
  <2> QED
    BY <1>1, <2>1, <2>2, <2>3, <2>4, <2>5, SMTT(30) DEF EraseExt, IInv, TypeOK, EepromOK
<1>2. CASE ReceivePacket
  BY <1>2, AppendProperties, LenProperties DEF ReceivePacket, IInv, TypeOK, EepromOK, Flash, Pages, Labels, Buffering, Copying, Finishing, BufferInv, Updating
<1>3. CASE ReceiveFails
  BY <1>3, SMTT(30) DEF ReceiveFails, EndOfRequest, IInv, TypeOK, EepromOK, Flash, Pages, Labels, Buffering, Copying, Finishing, BufferInv
<1>4. CASE AllReceived
  BY <1>4 DEF AllReceived, IInv, TypeOK, EepromOK, Flash, Pages, Labels, Buffering, Copying, Finishing
<1>5. CASE ProgramPage
  <2>1. Len(got) \in Pages /\ got[Len(got)] \in Data
    BY <1>5, ElementOfSeq, LenProperties DEF ProgramPage, IInv, TypeOK, BufferInv, Pages
  <2>2. ext' \in Flash
    BY <1>5, <2>1 DEF ProgramPage, Programmed, IInv, TypeOK, Flash
  <2>3. retry' \in 0..(RetryLimit + 1) /\ pc' \in {"prog", "recv", "sup"}
           /\ mail' \in {mail, NoFrame}
    BY <1>5 DEF ProgramPage, EndOfRequest, IInv, TypeOK, BufferInv
  <2> QED
    BY <1>5, <2>2, <2>3, SMTT(30) DEF ProgramPage, IInv, TypeOK, EepromOK, Labels, Buffering
<1>6. CASE ProgramPageError
  BY <1>6, SMTT(30) DEF ProgramPageError, IInv, TypeOK, EepromOK, Flash, Pages, Labels, Buffering, Copying, Finishing
<1>7. CASE Authenticate
  <2>1. upd' \in BOOLEAN
    <3>1. upd' = TRUE \/ UNCHANGED upd
      BY <1>7 DEF Authenticate
    <3>2. upd \in BOOLEAN
      BY DEF IInv, TypeOK
    <3> QED
      BY ONLY <3>1, <3>2, Zenon
  <2>2. pc' \in {"rec_blen", "sup"} /\ mail' \in {mail, NoFrame}
    BY <1>7 DEF Authenticate, EndOfRequest, Goto
  <2>3. pc' \in Labels
    BY ONLY <2>2 DEF Labels, Buffering
  <2>4. UNCHANGED <<nv, tgt, ctx, rx, addr, retry, ret, faults, env>>
    BY <1>7 DEF Authenticate
  <2> QED
    BY <2>1, <2>2, <2>3, <2>4, SMTT(30) DEF IInv, TypeOK, EepromOK
<1>8. CASE RecordBackupLen
  <2>1. PICK done \in BOOLEAN : EepromWrite("blen", Len(got), done)
    BY <1>8 DEF RecordBackupLen
  <2>2. EepromOK'
    BY <2>1, EepromWriteType DEF IInv, TypeOK, Fields, Lengths
  <2>3. faults' \in 0..MaxFaults
    BY <2>1 DEF EepromWrite, IInv, TypeOK
  <2> QED
    BY <1>8, <2>2, <2>3, SMTT(30) DEF RecordBackupLen, EndOfRequest, IInv, TypeOK, EepromOK, Flash, Pages, Labels, Buffering, Copying, Finishing
<1>9. CASE RecordBackupHash
  <2>1. PICK done \in BOOLEAN : EepromWrite("bhash", got, done)
    BY <1>9 DEF RecordBackupHash
  <2>4. got \in Images
    BY <1>9 DEF RecordBackupHash, IInv, BufferInv, Updating, Buffering, Finishing
  <2>2. EepromOK'
    BY <2>1, <2>4, EepromWriteType DEF IInv, TypeOK, Fields, Lengths
  <2>3. faults' \in 0..MaxFaults
    BY <2>1 DEF EepromWrite, IInv, TypeOK
  <2> QED
    BY <1>9, <2>2, <2>3 DEF RecordBackupHash, EndOfRequest, IInv, TypeOK, EepromOK, Flash, Pages, Labels, Buffering, Copying, Finishing
<1>10. QED
  BY <1>1, <1>2, <1>3, <1>4, <1>5, <1>6, <1>7, <1>8, <1>9 DEF Buffer

LEMMA TypeCopy == IInv /\ Copy => TypeOK'
<1> SUFFICES ASSUME IInv, Copy PROVE TypeOK'
  OBVIOUS
<1>1. CASE StartCopy
  BY <1>1, SMTT(30) DEF StartCopy, JmpToBootloader, CopyFails, EndOfRequest, IInv, TypeOK, EepromOK, Flash, Pages, Labels, Buffering, Copying, Finishing
<1>2. CASE EraseTarget
  BY <1>2, PartErasedType, SMTT(30) DEF EraseTarget, CopyFails, EndOfRequest, IInv, TypeOK, EepromOK, Flash, Pages, Labels, Buffering, Copying, Finishing
<1>3. CASE WritePage
  <2>1. ee["blen"] \in 0..MaxPages
    BY <1>3, LengthType DEF WritePage, IInv, TypeOK, CopyInv, BackupPresent, Present, Lengths
  <2>5. addr \in 0..MaxPages /\ addr < ee["blen"] /\ addr' = addr + 1
    BY <1>3 DEF WritePage, IInv, TypeOK
  <2>2. addr' \in 0..MaxPages
    BY ONLY PagesAssumption, <2>1, <2>5
  <2>3. addr + 1 \in Pages
    BY ONLY PagesAssumption, <2>1, <2>5 DEF Pages
  <2>4. prog' \in Flash
    BY <1>3, <2>3 DEF WritePage, IInv, TypeOK, Flash
  <2> QED
    BY <1>3, <2>2, <2>4, SMTT(30) DEF WritePage, IInv, TypeOK, EepromOK
<1>4. CASE WriteReadError
  BY <1>4, SMTT(30) DEF WriteReadError, IInv, TypeOK, EepromOK, Flash, Pages, Labels, Buffering, Copying, Finishing
<1>5. CASE WriteFails
  <2>1. ee["blen"] \in 0..MaxPages
    BY <1>5, LengthType DEF WriteFails, IInv, TypeOK, CopyInv, BackupPresent, Present, Lengths
  <2>6. addr \in 0..MaxPages /\ addr < ee["blen"] /\ UNCHANGED addr
    BY <1>5 DEF WriteFails, IInv, TypeOK
  <2>2. addr' \in 0..MaxPages
    BY ONLY <2>6
  <2>3. addr + 1 \in Pages
    BY ONLY PagesAssumption, <2>1, <2>6 DEF Pages
  <2>4. prog' \in Flash
    BY <1>5, <2>3 DEF WriteFails, IInv, TypeOK, Flash
  <2>5. /\ retry' \in 0..(RetryLimit + 1) /\ pc' \in {"write", "sup", "msg"}
        /\ mail' \in {mail, NoFrame} /\ status' \in {status, "PROGRAM_INVALID"}
    BY <1>5, SMTT(30) DEF WriteFails, CopyFails, EndOfRequest, IInv, TypeOK, CopyInv
  <2>7. tgt' = "boot" /\ faults' \in 0..MaxFaults /\ pc' \in Labels
    BY <1>5, <2>5, SMTT(30) DEF WriteFails, IInv, TypeOK, Labels, Copying
  <2>8. UNCHANGED <<ext, ee, mode, rx, addr, upd, ret, env>>
    BY <1>5 DEF WriteFails
  <2> QED
    BY <2>2, <2>4, <2>5, <2>7, <2>8 DEF IInv, TypeOK, EepromOK
<1>6. CASE CopyDone
  BY <1>6 DEF CopyDone, IInv, TypeOK, EepromOK, Flash, Pages, Labels, Buffering, Copying, Finishing
<1>7. QED
  BY <1>1, <1>2, <1>3, <1>4, <1>5, <1>6 DEF Copy

LEMMA TypeFinish == IInv /\ Finish => TypeOK'
<1> SUFFICES ASSUME IInv, Finish PROVE TypeOK'
  OBVIOUS
<1>1. CASE Go
  BY <1>1, SMTT(30) DEF Go, JmpToApp, IInv, TypeOK, EepromOK, Flash, Pages, Labels, Buffering, Copying, Finishing
<1>2. CASE RecordVersion
  <2>1. PICK done \in BOOLEAN : EepromWrite("ver", job, done)
    BY <1>2 DEF RecordVersion
  <2>4. job \in Images
    BY <1>2 DEF RecordVersion, IInv, BufferInv, CopyInv, Updating, Buffering, Finishing
  <2>2. EepromOK'
    BY <2>1, <2>4, EepromWriteType DEF IInv, TypeOK, Fields, Lengths
  <2>3. faults' \in 0..MaxFaults
    BY <2>1 DEF EepromWrite, IInv, TypeOK
  <2> QED
    BY <1>2, <2>2, <2>3, SMTT(30) DEF RecordVersion, EndOfRequest, IInv, TypeOK, EepromOK, Flash, Pages, Labels, Buffering, Copying, Finishing
<1>3. CASE RecordLen
  <2>1. PICK done \in BOOLEAN : EepromWrite("plen", Len(got), done)
    BY <1>3 DEF RecordLen
  <2>2. EepromOK'
    BY <2>1, EepromWriteType DEF IInv, TypeOK, Fields, Lengths
  <2>3. faults' \in 0..MaxFaults
    BY <2>1 DEF EepromWrite, IInv, TypeOK
  <2> QED
    BY <1>3, <2>2, <2>3 DEF RecordLen, EndOfRequest, IInv, TypeOK, EepromOK, Flash, Pages, Labels, Buffering, Copying, Finishing
<1>4. CASE FinishUpdate
  <2>1. PICK done \in BOOLEAN : EepromWrite("phash", got, done)
    BY <1>4 DEF FinishUpdate
  <2>4. got \in Images
    BY <1>4 DEF FinishUpdate, IInv, BufferInv, CopyInv, Updating, Buffering, Finishing
  <2>2. EepromOK'
    BY <2>1, <2>4, EepromWriteType DEF IInv, TypeOK, Fields, Lengths
  <2>3. faults' \in 0..MaxFaults
    BY <2>1 DEF EepromWrite, IInv, TypeOK
  <2> QED
    BY <1>4, <2>2, <2>3 DEF FinishUpdate, EndOfRequest, IInv, TypeOK, EepromOK, Flash, Pages, Labels, Buffering, Copying, Finishing
<1>5. QED
  BY <1>1, <1>2, <1>3, <1>4 DEF Finish

LEMMA TypeOutside == IInv /\ Outside => TypeOK'
<1> SUFFICES ASSUME IInv, Outside PROVE TypeOK'
  OBVIOUS
<1>1. CASE PowerOn
  BY <1>1 DEF PowerOn, IInv, TypeOK, EepromOK, Flash, Pages, Labels, Buffering, Copying, Finishing
<1>2. CASE InterfaceCallback
  BY <1>2, SMTT(30) DEF InterfaceCallback, IInv, TypeOK, EepromOK, Flash, Pages, Labels, Buffering, Copying, Finishing
<1>3. CASE PowerLoss
  <2>1. prog' \in Flash
    BY <1>3, PartErasedType DEF PowerLoss, CutTarget, IInv, TypeOK, EepromOK, Flash, Pages, Labels, Buffering, Copying, Finishing
  <2>2. ext' \in Flash
    BY <1>3, PartErasedType DEF PowerLoss, CutExt, IInv, TypeOK, EepromOK, Flash, Pages, Labels, Buffering, Copying, Finishing
  <2>3. got' \in Seq(Data) /\ Len(got') = 0
    BY <1>3 DEF PowerLoss
  <2>4. cuts' \in 0..MaxCuts
    BY <1>3 DEF PowerLoss, IInv, TypeOK
  <2>5. retry' \in 0..(RetryLimit + 1) /\ addr' \in 0..MaxPages /\ pc' \in Labels
    BY <1>3 DEF PowerLoss, Labels
  <2>6. upd' \in BOOLEAN /\ ret' \in {"update", "restore"} /\ job' = <<>>
    BY <1>3 DEF PowerLoss
  <2>7. tgt' = "off" /\ status' = "OK" /\ mode' = "UPDATER" /\ mail' = NoFrame
    BY <1>3 DEF PowerLoss
  <2>8. UNCHANGED <<ee, faults, frames>>
    BY <1>3 DEF PowerLoss
  <2> QED
    BY <2>1, <2>2, <2>3, <2>4, <2>5, <2>6, <2>7, <2>8, SMTT(30) DEF IInv, TypeOK, EepromOK
<1>4. CASE Damage
  BY <1>4, SMTT(30) DEF Damage, IInv, TypeOK, EepromOK, Flash, Pages, Labels, Buffering, Copying, Finishing
<1>5. QED
  BY <1>1, <1>2, <1>3, <1>4 DEF Outside

-----------------------------------------------------------------------------
(* What the target holds                                                   *)

\* A program that matches a record of the EEPROM is an image of the host.
LEMMA RecordedIsImage ==
  ASSUME EepromOK, NEW n \in {"plen", "blen"}, NEW h \in {"phash", "bhash"},
         Records(prog, ee[n], ee[h])
  PROVE  HoldsImage
<1>1. ee[h] \in Images /\ ee[n] = Len(ee[h])
  BY DEF EepromOK, Records, Present, Matches, Fields, Lengths
<1> QED
  BY <1>1 DEF Records, Matches, HoldsImage

\* Steps that leave the target's flash alone.
LEMMA ProgUnchanged ==
  ASSUME UNCHANGED prog PROVE HoldsImage' <=> HoldsImage
BY DEF HoldsImage, Matches

\* No step starts, resets or supervises a target whose flash is not whole, nor touches the
\* flash of one that runs or is supervised.
LEMMA TargetStep == IInv /\ Next => TargetInv'
<1> SUFFICES ASSUME IInv, Next PROVE TargetInv'
  OBVIOUS
<1> USE ProgUnchanged DEF TargetInv, RunsWholeImage, Copying
<1>1. CASE Startup
  <2>1. CASE Launch
    <3>1. HoldsImage
      BY <2>1, RecordedIsImage DEF Launch, IInv, TypeOK, ScanInv, ProgramIntact
    <3> QED
      BY <2>1, <3>1 DEF Launch, JmpToApp
  <2>2. CASE Initialize \/ Connect \/ CheckPresent \/ ScanPage \/ ScanDone \/ Halt
    BY <2>2 DEF IInv, Initialize, Connect, JmpToBootloader, CheckPresent, ScanPage, ScanDone, Halt
  <2> QED
    BY <1>1, <2>1, <2>2 DEF Startup
<1>2. CASE Loop
  BY <1>2 DEF IInv, Loop, HandleInvalidProgram, CheckPage, CheckDone, ProcessMsg,
              SupervisorIdle, SupervisorReset
<1>3. CASE Buffer
  BY <1>3 DEF IInv, Buffer, EraseExt, ReceivePacket, ReceiveFails, AllReceived, ProgramPage,
              ProgramPageError, Authenticate, RecordBackupLen, RecordBackupHash, EndOfRequest
<1>4. CASE Copy
  <2>1. CASE StartCopy
    BY <2>1 DEF IInv, StartCopy, JmpToBootloader, CopyFails, EndOfRequest
  <2>2. CASE EraseTarget
    BY <2>2 DEF IInv, EraseTarget, CopyFails, EndOfRequest
  <2>3. CASE WritePage \/ WriteReadError \/ CopyDone
    BY <2>3 DEF IInv, WritePage, WriteReadError, CopyDone
  <2>4. CASE WriteFails
    BY <2>4 DEF IInv, WriteFails, CopyFails, EndOfRequest
  <2> QED
    BY <1>4, <2>1, <2>2, <2>3, <2>4 DEF Copy
<1>5. CASE Finish
  <2>1. HoldsImage
    BY <1>5, RecordedIsImage DEF Finish, Go, RecordVersion, RecordLen, FinishUpdate, Finishing,
                                 IInv, TypeOK, CopyInv
  <2> QED
    BY <1>5, <2>1 DEF Finish, Go, RecordVersion, RecordLen, FinishUpdate, EndOfRequest, JmpToApp
<1>6. CASE Outside
  BY <1>6 DEF IInv, Outside, PowerOn, InterfaceCallback, PowerLoss, Damage
<1> QED
  BY <1>1, <1>2, <1>3, <1>4, <1>5, <1>6 DEF Next, Main

-----------------------------------------------------------------------------
(* What scans, buffering and copying have established                      *)

\* fvc_eeprom_write touches no other variable, and when it reports success the variable
\* holds the value, but for the length 0 that is not stored.
LEMMA EepromWriteEffect ==
  ASSUME EepromOK, NEW x \in Fields, NEW v, NEW done \in BOOLEAN,
         EepromWrite(x, v, done)
  PROVE  /\ \A y \in Fields \ {x} : ee'[y] = ee[y]
         /\ done => ee'[x] = v \/ (ee'[x] = NoData /\ x \in Lengths /\ v = 0)
         /\ ee'[x] \in {ee[x], v}
BY DEF EepromOK, EepromWrite

\* The two scans stay within the recorded length, and what follows them is intact.
LEMMA ScanStep == IInv /\ Next => ScanInv'
<1> SUFFICES ASSUME IInv, Next PROVE ScanInv'
  OBVIOUS
<1> USE DEF ScanInv, ProgramPresent, BackupPresent, ProgramIntact, Records, Present
<1>1. CASE Startup
  <2>1. CASE CheckPresent
    BY <2>1, LengthType, SMTT(30) DEF CheckPresent, IInv, TypeOK, Lengths
  <2>2. CASE ScanPage
    <3>1. ee["plen"] \in 0..MaxPages /\ addr \in 0..MaxPages
      BY <2>2, LengthType DEF ScanPage, IInv, TypeOK, Lengths
    <3> QED
      BY <2>2, <3>1 DEF ScanPage, IInv
  <2>3. CASE ScanDone
    BY <2>3 DEF ScanDone, IInv, Matches
  <2>4. CASE Initialize \/ Connect \/ Launch \/ Halt
    BY <2>4 DEF Initialize, Connect, Launch, Halt, JmpToBootloader, IInv
  <2> QED
    BY <1>1, <2>1, <2>2, <2>3, <2>4 DEF Startup
<1>2. CASE Loop
  <2>1. CASE HandleInvalidProgram
    BY <2>1, LengthType DEF HandleInvalidProgram, IInv, TypeOK, Lengths
  <2>2. CASE CheckPage
    <3>1. ee["blen"] \in 0..MaxPages /\ addr \in 0..MaxPages
      BY <2>2, LengthType DEF CheckPage, IInv, TypeOK, Lengths
    <3> QED
      BY <2>2, <3>1 DEF CheckPage, IInv
  <2>3. CASE CheckDone \/ ProcessMsg \/ SupervisorIdle \/ SupervisorReset
    BY <2>3 DEF CheckDone, ProcessMsg, SupervisorIdle, SupervisorReset
  <2> QED
    BY <1>2, <2>1, <2>2, <2>3 DEF Loop
<1>3. CASE Buffer
  BY <1>3 DEF Buffer, EraseExt, ReceivePacket, ReceiveFails, AllReceived, ProgramPage,
              ProgramPageError, Authenticate, RecordBackupLen, RecordBackupHash, EndOfRequest
<1>4. CASE Copy
  BY <1>4 DEF Copy, StartCopy, EraseTarget, WritePage, WriteReadError, WriteFails, CopyDone,
              CopyFails, EndOfRequest
<1>5. CASE Finish
  BY <1>5 DEF Finish, Go, RecordVersion, RecordLen, FinishUpdate, EndOfRequest
<1>6. CASE Outside
  BY <1>6 DEF IInv, Outside, PowerOn, InterfaceCallback, PowerLoss, Damage, Matches
<1> QED
  BY <1>1, <1>2, <1>3, <1>4, <1>5, <1>6 DEF Next, Main

\* The external flash holds what was received, and what is recorded was authenticated.
LEMMA BufferStep == IInv /\ Next => BufferInv'
<1> SUFFICES ASSUME IInv, Next PROVE BufferInv'
  OBVIOUS
<1> USE DEF BufferInv, Buffered, Updating, Buffering, Copying, Finishing
<1>1. CASE Startup
  BY <1>1 DEF Startup, Initialize, Connect, CheckPresent, ScanPage, ScanDone, Launch, Halt, IInv
<1>2. CASE Loop
  BY <1>2 DEF Loop, HandleInvalidProgram, CheckPage, CheckDone, ProcessMsg,
              SupervisorIdle, SupervisorReset, IInv, TypeOK
<1>3. CASE Buffer
  <2>1. CASE EraseExt
    BY <2>1 DEF EraseExt, IInv
  <2>2. CASE ReceivePacket
    BY <2>2, AppendProperties, LenProperties DEF ReceivePacket, IInv, TypeOK
  <2>3. CASE ReceiveFails \/ AllReceived \/ ProgramPageError
    BY <2>3, SMTT(30) DEF ReceiveFails, AllReceived, ProgramPageError, EndOfRequest, IInv, TypeOK
  <2>4. CASE ProgramPage
    <3>1. Len(got) \in Nat /\ Len(got) > 0 /\ Len(got) <= MaxPages /\ Len(got) <= Len(job)
            /\ Buffered(Len(got) - 1) /\ job \in Images
      BY <2>4, LenProperties DEF ProgramPage, IInv, TypeOK
    <3>2. \A i \in 1..(Len(got) - 1) : ext'[i] = ext[i]
      BY <2>4, <3>1 DEF ProgramPage, IInv, TypeOK, Flash, Pages
    <3>3. retry \in Nat /\ retry <= RetryLimit
      BY <2>4 DEF ProgramPage, IInv, TypeOK
    <3>4. CASE ext'[Len(got)] = got[Len(got)]
      BY <2>4, <3>1, <3>2, <3>3, <3>4 DEF ProgramPage
    <3>5. CASE ext'[Len(got)] # got[Len(got)]
      BY <2>4, <3>1, <3>2, <3>3, <3>5 DEF ProgramPage, EndOfRequest
    <3> QED
      BY <3>4, <3>5
  <2>5. CASE Authenticate
    BY <2>5 DEF Authenticate, EndOfRequest, IInv
  <2>6. CASE RecordBackupLen
    BY <2>6, EepromWriteEffect DEF RecordBackupLen, IInv, TypeOK, Fields
  <2>7. CASE RecordBackupHash
    BY <2>7 DEF RecordBackupHash, EndOfRequest, IInv
  <2> QED
    BY <1>3, <2>1, <2>2, <2>3, <2>4, <2>5, <2>6, <2>7 DEF Buffer
<1>4. CASE Copy
  BY <1>4 DEF Copy, StartCopy, EraseTarget, WritePage, WriteReadError, WriteFails, CopyDone,
              CopyFails, EndOfRequest, IInv
<1>5. CASE Finish
  BY <1>5 DEF Finish, Go, RecordVersion, RecordLen, FinishUpdate, EndOfRequest, IInv
<1>6. CASE Outside
  BY <1>6 DEF IInv, Outside, PowerOn, InterfaceCallback, PowerLoss, Damage
<1> QED
  BY <1>1, <1>2, <1>3, <1>4, <1>5, <1>6 DEF Next, Main

\* A copy reads an intact backup, and leaves its program in the target.
LEMMA CopyStep == IInv /\ Next => CopyInv'
<1> SUFFICES ASSUME IInv, Next PROVE CopyInv'
  OBVIOUS
<1> USE DEF CopyInv, Copying, Finishing, BackupPresent, BackupIntact, Records, Present
<1>1. CASE Startup
  BY <1>1 DEF Startup, Initialize, Connect, CheckPresent, ScanPage, ScanDone, Launch, Halt, IInv
<1>2. CASE Loop
  BY <1>2 DEF Loop, HandleInvalidProgram, CheckPage, CheckDone, ProcessMsg,
              SupervisorIdle, SupervisorReset, IInv, Matches
<1>3. CASE Buffer
  <2>1. CASE RecordBackupHash /\ pc' = "copy"
    <3>1. PICK done \in BOOLEAN :
            EepromWrite("bhash", got, done) /\ upd' = (upd /\ done)
      BY <2>1 DEF RecordBackupHash
    <3>2. upd /\ done
      BY <2>1, <3>1 DEF RecordBackupHash, EndOfRequest, IInv, TypeOK
    <3>3. /\ got = job /\ job \in Images /\ Buffered(Len(got)) /\ ext' = ext /\ got' = got
          /\ job' = job
      BY <2>1 DEF RecordBackupHash, IInv, BufferInv, Updating, Buffering
    <3>4. ee'["bhash"] = got /\ ee'["blen"] = ee["blen"]
      <4>1. EepromOK /\ "bhash" \in Fields /\ "blen" \in Fields \ {"bhash"}
        BY DEF IInv, TypeOK, Fields
      <4>2. /\ \A y \in Fields \ {"bhash"} : ee'[y] = ee[y]
            /\ done => ee'["bhash"] = got
                          \/ (ee'["bhash"] = NoData /\ "bhash" \in Lengths /\ got = 0)
        BY ONLY <3>1, <4>1, EepromWriteEffect
      <4>3. "bhash" \notin Lengths
        BY DEF Lengths
      <4> QED
        BY ONLY <3>2, <4>1, <4>2, <4>3
    <3>5. ee["blen"] = Len(got) \/ ee["blen"] = NoData
      BY <2>1, <3>2 DEF RecordBackupHash, IInv, BufferInv
    <3> QED
      BY <2>1, <3>3, <3>4, <3>5 DEF RecordBackupHash, Matches, Buffered
  <2>2. CASE EraseExt \/ ReceivePacket \/ ReceiveFails \/ AllReceived \/ ProgramPage
             \/ ProgramPageError \/ Authenticate \/ RecordBackupLen
             \/ (RecordBackupHash /\ pc' # "copy")
    BY <2>2 DEF EraseExt, ReceivePacket, ReceiveFails, AllReceived, ProgramPage,
                ProgramPageError, Authenticate, RecordBackupLen, RecordBackupHash,
                EndOfRequest
  <2> QED
    BY <1>3, <2>1, <2>2 DEF Buffer
<1>4. CASE Copy
  <2>1. CASE StartCopy
    BY <2>1 DEF StartCopy, CopyFails, EndOfRequest, IInv, Matches
  <2>2. CASE EraseTarget
    BY <2>2, LengthType DEF EraseTarget, CopyFails, EndOfRequest, IInv, TypeOK, Lengths, Matches
  <2>3. CASE WritePage
    <3>1. /\ ee["blen"] \in 0..MaxPages /\ addr \in 0..MaxPages /\ addr < ee["blen"]
          /\ \A i \in 1..addr : prog[i] = ext[i]
      BY <2>3, LengthType DEF WritePage, IInv, TypeOK, Lengths
    <3>2. \A i \in 1..(addr + 1) : prog'[i] = ext[i]
      BY <2>3, <3>1 DEF WritePage, IInv, TypeOK, Flash, Pages
    <3> QED
      BY <2>3, <3>1, <3>2 DEF WritePage, IInv, Matches
  <2>4. CASE WriteReadError
    BY <2>4 DEF WriteReadError, IInv, Matches
  <2>5. CASE WriteFails
    <3>1. /\ ee["blen"] \in 0..MaxPages /\ addr \in 0..MaxPages /\ addr < ee["blen"]
          /\ \A i \in 1..addr : prog[i] = ext[i]
      BY <2>5, LengthType DEF WriteFails, IInv, TypeOK, Lengths
    <3>2. \A i \in 1..addr : prog'[i] = ext[i]
      BY <2>5, <3>1 DEF WriteFails, IInv, TypeOK, Flash, Pages
    <3> QED
      BY <2>5, <3>1, <3>2, SMTT(30) DEF WriteFails, CopyFails, EndOfRequest, IInv, TypeOK, Matches
  <2>6. CASE CopyDone
    BY <2>6 DEF CopyDone, IInv, Matches
  <2> QED
    BY <1>4, <2>1, <2>2, <2>3, <2>4, <2>5, <2>6 DEF Copy
<1>5. CASE Finish
  <2>1. CASE Go
    BY <2>1 DEF Go, IInv, TypeOK, Matches
  <2>2. CASE RecordVersion
    BY <2>2, EepromWriteEffect DEF RecordVersion, IInv, TypeOK, Fields, Matches
  <2>3. CASE RecordLen
    BY <2>3, EepromWriteEffect DEF RecordLen, IInv, TypeOK, Fields, Matches
  <2>4. CASE FinishUpdate
    BY <2>4 DEF FinishUpdate, EndOfRequest
  <2> QED
    BY <1>5, <2>1, <2>2, <2>3, <2>4 DEF Finish
<1>6. CASE Outside
  BY <1>6 DEF IInv, Outside, PowerOn, InterfaceCallback, PowerLoss, Damage, Matches, Updating
<1> QED
  BY <1>1, <1>2, <1>3, <1>4, <1>5, <1>6 DEF Next, Main

-----------------------------------------------------------------------------
(* The invariant, and the properties it implies                            *)

LEMMA InitInv == Init => IInv
<1> SUFFICES ASSUME Init PROVE IInv
  OBVIOUS
<1>1. prog \in Flash /\ ext \in Flash
  BY DEF Init, Flash
<1>2. EepromOK
  BY DEF Init, EepromOK, Fields, Lengths
<1>3. got \in Seq(Data) /\ Len(got) <= MaxPages
  BY DEF Init
<1>4. addr \in 0..MaxPages /\ retry \in 0..(RetryLimit + 1)
  BY DEF Init
<1>7. upd \in BOOLEAN
  BY Zenon DEF Init
<1>8. pc \in Labels
  BY DEF Init, Labels
<1>5. faults \in 0..MaxFaults /\ cuts \in 0..MaxCuts /\ frames \in 0..MaxFrames
  BY DEF Init
<1>6. TypeOK
  BY <1>1, <1>2, <1>3, <1>4, <1>5, <1>7, <1>8 DEF Init, TypeOK
<1> QED
  BY <1>6 DEF Init, IInv, TargetInv, RunsWholeImage, ScanInv, BufferInv, CopyInv, Updating,
              Buffering, Copying, Finishing

LEMMA StepInv == IInv /\ [Next]_vars => IInv'
<1>1. IInv /\ Next => TypeOK'
  BY TypeStartup, TypeLoop, TypeBuffer, TypeCopy, TypeFinish, TypeOutside DEF Next, Main
<1>2. IInv /\ Next => IInv'
  BY <1>1, TargetStep, ScanStep, BufferStep, CopyStep DEF IInv
<1>3. IInv /\ UNCHANGED vars => IInv'
  <2> SUFFICES ASSUME IInv, UNCHANGED vars PROVE IInv'
    OBVIOUS
  <2>1. TypeOK'
    BY DEF IInv, TypeOK, EepromOK
  <2>2. TargetInv'
    BY ProgUnchanged DEF IInv, TargetInv, RunsWholeImage
  <2>3. ScanInv'
    BY DEF IInv, ScanInv, ProgramPresent, BackupPresent, ProgramIntact, Records, Present,
           Matches
  <2>4. BufferInv'
    BY DEF IInv, BufferInv, Updating, Buffered
  <2>5. CopyInv'
    BY DEF IInv, CopyInv, BackupPresent, BackupIntact, Records, Present, Matches
  <2> QED
    BY <2>1, <2>2, <2>3, <2>4, <2>5 DEF IInv
<1> QED
  BY <1>2, <1>3

\* The inductive invariant holds throughout.
THEOREM InductiveInvariant == Spec => []IInv
BY InitInv, StepInv, PTL DEF Spec

\* Every variable keeps its range: in particular what the EEPROM records is the hash of
\* an authenticated image, and the retry counters stay within their limit plus one.
THEOREM TypeCorrect == Spec => []TypeOK
<1>1. IInv => TypeOK
  BY DEF IInv
<1> QED
  BY <1>1, InductiveInvariant, PTL

\* A target that runs its application has a complete authenticated image in its flash,
\* for any number of faults, power cuts and updates.
THEOREM WholeImageRuns == Spec => []RunsWholeImage
<1>1. IInv => RunsWholeImage
  BY DEF IInv, TargetInv
<1> QED
  BY <1>1, InductiveInvariant, PTL

\* The end of an update is reported only when the requested image is in the target and
\* in the recorded backup.
THEOREM FinishedIsInstalled == Spec => FinishedMeansInstalled
<1> DEFINE A == pc = "rec_phash" /\ pc' = "sup" =>
                  /\ Matches(prog, Len(job), job)
                  /\ Records(ext, ee["blen"], ee["bhash"]) /\ ee["bhash"] = job
<1>1. IInv /\ [Next]_vars => [A]_vars
  BY DEF IInv, CopyInv, BackupIntact, Finishing, Records, Matches
<1> QED
  BY <1>1, InductiveInvariant, PTL DEF Spec, FinishedMeansInstalled

\* What a restore starts is the verified backup.
THEOREM RestoreIsBackup == Spec => RestoreInstallsBackup
<1> DEFINE A == pc = "go" /\ ret = "restore" /\ pc' = "msg" =>
                  Records(prog, ee["blen"], ee["bhash"]) /\ BackupIntact
<1>1. IInv /\ [Next]_vars => [A]_vars
  BY DEF IInv, CopyInv, Finishing
<1> QED
  BY <1>1, InductiveInvariant, PTL DEF Spec, RestoreInstallsBackup

-----------------------------------------------------------------------------
(* No step loses the last usable program                                   *)

\* The one step that needs an argument per phase of an update: a flash is only written
\* while the other memory's record is intact.
LEMMA KeepsStep ==
  ASSUME IInv, Next, Recoverable, pc # "off", pc \in Buffering => ProgramIntact
  PROVE  Recoverable'
<1> USE DEF Recoverable, ProgramIntact, ProgramPresent, BackupIntact, Records, Present
<1>1. ASSUME UNCHANGED nv PROVE Recoverable'
  BY <1>1 DEF Matches
<1>2. ASSUME UNCHANGED <<prog, ee>>, ProgramIntact PROVE Recoverable'
  BY <1>2 DEF Matches
<1>3. ASSUME UNCHANGED <<ext, ee>>, BackupIntact PROVE Recoverable'
  BY <1>3 DEF Matches
<1>10. ASSUME UNCHANGED prog, ee'["plen"] = ee["plen"], ee'["phash"] = ee["phash"], ProgramIntact
       PROVE  Recoverable'
  BY ONLY <1>10 DEF Matches
<1>11. ASSUME UNCHANGED ext, ee'["blen"] = ee["blen"], ee'["bhash"] = ee["bhash"],
              BackupIntact, ProgramPresent'
       PROVE  Recoverable'
  BY ONLY <1>11 DEF Matches
<1>12. ProgramPresent
  OBVIOUS
<1>4. CASE Startup
  BY <1>4, <1>1 DEF Startup, Initialize, Connect, CheckPresent, ScanPage, ScanDone, Launch, Halt
<1>5. CASE Loop
  BY <1>5, <1>1 DEF Loop, HandleInvalidProgram, CheckPage, CheckDone, ProcessMsg,
                    SupervisorIdle, SupervisorReset
<1>6. CASE Buffer
  <2>1. pc \in Buffering
    BY <1>6 DEF Buffer, EraseExt, ReceivePacket, ReceiveFails, AllReceived, ProgramPage,
                ProgramPageError, Authenticate, RecordBackupLen, RecordBackupHash, Buffering
  <2>2. CASE RecordBackupLen
    <3>1. PICK done \in BOOLEAN : EepromWrite("blen", Len(got), done)
      BY <2>2 DEF RecordBackupLen
    <3>2. ee'["plen"] = ee["plen"] /\ ee'["phash"] = ee["phash"]
      BY ONLY IInv, <3>1, EepromWriteEffect DEF IInv, TypeOK, Fields
    <3> QED
      BY ONLY <1>10, <2>1, <2>2, <3>2, pc \in Buffering => ProgramIntact DEF RecordBackupLen
  <2>3. CASE RecordBackupHash
    <3>1. PICK done \in BOOLEAN : EepromWrite("bhash", got, done)
      BY <2>3 DEF RecordBackupHash
    <3>2. ee'["plen"] = ee["plen"] /\ ee'["phash"] = ee["phash"]
      BY ONLY IInv, <3>1, EepromWriteEffect DEF IInv, TypeOK, Fields
    <3> QED
      BY ONLY <1>10, <2>1, <2>3, <3>2, pc \in Buffering => ProgramIntact DEF RecordBackupHash
  <2>4. CASE ~RecordBackupLen /\ ~RecordBackupHash
    BY <1>2, <1>6, <2>1, <2>4 DEF Buffer, EraseExt, ReceivePacket, ReceiveFails, AllReceived,
                                  ProgramPage, ProgramPageError, Authenticate
  <2> QED
    BY <2>2, <2>3, <2>4
<1>7. CASE Copy
  <2>1. CASE StartCopy
    BY <1>1, <2>1 DEF StartCopy
  <2>2. CASE ~StartCopy
    <3>1. pc \in {"erase", "write"} /\ UNCHANGED <<ext, ee>>
      BY <1>7, <2>2 DEF Copy, EraseTarget, WritePage, WriteReadError, WriteFails, CopyDone
    <3>2. BackupIntact
      BY <3>1 DEF IInv, CopyInv, Copying
    <3> QED
      BY <1>3, <3>1, <3>2
  <2> QED
    BY <2>1, <2>2
<1>8. CASE Finish
  <2>1. pc \in Finishing
    BY <1>8 DEF Finish, Go, RecordVersion, RecordLen, FinishUpdate, Finishing
  <2>2. BackupIntact
    BY <2>1 DEF IInv, CopyInv
  <2>3. CASE Go
    BY <1>1, <2>3 DEF Go
  <2>4. CASE RecordVersion
    <3>1. PICK done \in BOOLEAN : EepromWrite("ver", job, done)
      BY <2>4 DEF RecordVersion
    <3>2. ee'["blen"] = ee["blen"] /\ ee'["bhash"] = ee["bhash"]
      BY ONLY IInv, <3>1, EepromWriteEffect DEF IInv, TypeOK, Fields
    <3>3. ee'["plen"] = ee["plen"] /\ ee'["phash"] = ee["phash"]
      BY ONLY IInv, <3>1, EepromWriteEffect DEF IInv, TypeOK, Fields
    <3> QED
      BY ONLY <1>11, <1>12, <2>2, <2>4, <3>2, <3>3 DEF RecordVersion
  <2>5. CASE RecordLen
    <3>1. PICK done \in BOOLEAN : EepromWrite("plen", Len(got), done)
      BY <2>5 DEF RecordLen
    <3>2. ee'["blen"] = ee["blen"] /\ ee'["bhash"] = ee["bhash"]
      BY ONLY IInv, <3>1, EepromWriteEffect DEF IInv, TypeOK, Fields
    <3>3. Len(got) # NoData
      BY <2>5, <2>1, MarkAssumption, LenProperties DEF IInv, TypeOK
    <3>4. ee'["plen"] \in {ee["plen"], Len(got)} /\ ee'["phash"] = ee["phash"]
      BY ONLY IInv, <3>1, EepromWriteEffect DEF IInv, TypeOK, Fields
    <3> QED
      BY ONLY <1>11, <1>12, <2>2, <2>5, <3>2, <3>3, <3>4 DEF RecordLen
  <2>6. CASE FinishUpdate
    <3>1. PICK done \in BOOLEAN : EepromWrite("phash", got, done)
      BY <2>6 DEF FinishUpdate
    <3>2. ee'["blen"] = ee["blen"] /\ ee'["bhash"] = ee["bhash"]
      BY ONLY IInv, <3>1, EepromWriteEffect DEF IInv, TypeOK, Fields
    <3>3. got # NoData
      BY <2>1, <2>6, MarkAssumption DEF FinishUpdate, IInv, CopyInv, BufferInv, Updating, Finishing
    <3>4. ee'["phash"] \in {ee["phash"], got} /\ ee'["plen"] = ee["plen"]
      BY ONLY IInv, <3>1, EepromWriteEffect DEF IInv, TypeOK, Fields
    <3> QED
      BY ONLY <1>11, <1>12, <2>2, <2>6, <3>2, <3>3, <3>4 DEF FinishUpdate
  <2> QED
    BY <1>8, <2>3, <2>4, <2>5, <2>6 DEF Finish
<1>9. CASE Outside
  <2>1. CASE PowerLoss
    <3>1. CASE pc \in Buffering
      BY <1>2, <2>1, <3>1 DEF PowerLoss, CutTarget, Buffering
    <3>2. CASE pc \in {"erase", "write"}
      <4>1. BackupIntact
        BY <3>2 DEF IInv, CopyInv, Copying
      <4> QED
        BY <1>3, <2>1, <3>2, <4>1 DEF PowerLoss, CutExt
    <3>3. CASE pc \notin Buffering \cup {"erase", "write"}
      BY <1>1, <2>1, <3>3 DEF PowerLoss, CutTarget, CutExt, Buffering
    <3> QED
      BY <3>1, <3>2, <3>3
  <2>2. CASE ~PowerLoss
    BY <1>1, <1>9, <2>2 DEF Outside, PowerOn, InterfaceCallback, Damage
  <2> QED
    BY <2>1, <2>2
<1> QED
  BY <1>4, <1>5, <1>6, <1>7, <1>8, <1>9 DEF Next, Main

\* Only the buffering of an update over a program that the EEPROM does not describe can
\* leave the board without a usable program; every other step and every power loss keeps
\* one, in the target or in the backup.
THEOREM RecordedProgramKept == Spec => KeepsRecordedProgram
<1> DEFINE A == Recoverable /\ ~Recoverable' =>
                  pc = "off" \/ (pc \in Buffering /\ ~ProgramIntact)
<1>1. IInv /\ [Next]_vars => [A]_vars
  BY KeepsStep
<1> QED
  BY <1>1, InductiveInvariant, PTL DEF Spec, KeepsRecordedProgram

=============================================================================
