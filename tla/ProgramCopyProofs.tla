-------------------------- MODULE ProgramCopyProofs --------------------------
(***************************************************************************)
(* Proofs about ProgramCopy for any pages, programs and bounds on the      *)
(* failures that somebody looks at.                                        *)
(***************************************************************************)
EXTENDS ProgramCopy, SequenceTheorems, TLAPS

-----------------------------------------------------------------------------
(* The inductive invariant                                                 *)

\* A loop stays within the program it works on.
LoopInv ==
  /\ pc \in {"scan", "reconnect", "verify", "load", "write", "reenter"} => at <= Len(image)
  /\ pc \in {"clear", "program", "readback"} => at <= Len(coming)
  /\ pc = "clear" => at = 1

\* No failure has gone unnoticed since the start, or in this update.
Clean == unnoticed = MaxUnnoticed

\* Quad mode: the first write of the bit meets an idle chip, the second changes nothing.
QuadInv ==
  /\ pc = "init" /\ step \in 1..8 => ~Busy
  /\ pc = "init" /\ step = 8 => wel
  /\ (pc = "init" => step > 8 \/ (step = 0 /\ ret)) /\ pc # "stopped" => Settled.quad
  /\ Busy /\ (pc \in {"init", "quad"} \/ (pc = "connect" /\ step = 1)) => work.op = "quad"

\* When the chip is idle.
IdleInv ==
  /\ \/ pc \in {"scan", "reconnect", "go", "idle", "verify", "enter", "erase", "load",
                "write", "reenter"}
     \/ pc = "connect" /\ step # 1
     \/ pc = "readback" /\ step # 1
     \/ pc = "clear" /\ step \in {1, 2, 3}
     => ~Busy
  /\ Clean /\ Busy =>
       pc \in {"init", "quad", "connect", "stopped"} \/ (pc = "clear" /\ step = 4)
       \/ (pc = "program" /\ (step \in {1, 4} \/ (step = 0 /\ ~ret)))
  /\ Clean /\ pc \in {"clear", "program"} /\ step = 3 => wel

\* The external flash while an update fills it.  After a failure that nobody noticed
\* only the pages that were compared are known.
StoreInv ==
  /\ Clean /\ pc = "clear" /\ step \in {0, 4} => \A i \in Pages : Settled.page[i] = Erased
  /\ pc \in {"program", "readback"} =>
       /\ \A i \in 1..(at - 1) : Settled.page[i] = coming[i]
       /\ Clean => /\ Settled.page[at] \subseteq coming[at]
                   /\ \A i \in Pages : i > at => Settled.page[i] = Erased
  /\ Clean /\ (pc = "readback" \/ (pc = "program" /\ (step = 4 \/ (step = 0 /\ ret)))) =>
       coming[at] \subseteq Settled.page[at]
  /\ pc = "readback" /\ step = 0 /\ buff = coming[at] => Settled.page[at] = coming[at]

\* The external flash while it is validated and copied, and the page on its way.
BackupInv ==
  /\ pc = "verify" /\ match => \A i \in 1..(at - 1) : Settled.page[i] = image[i]
  /\ pc = "verify" /\ step = 0 /\ ret => buff = Settled.page[at]
  /\ CopiesRecordedProgram
  /\ pc \in {"write", "reenter"} \/ (pc = "load" /\ step = 0 /\ ret) => buff = image[at]

\* The message that the bootloader has not dealt with is of one of these kinds, a command
\* one of these.
Mail(kinds, commands) ==
  inbox # None => inbox[1] \in kinds /\ (inbox[1] = "command" => inbox[2] \in commands)

\* The messages and states of the bootloader's start.
GreetingMail == Mail({"sync", "command", "damaged"}, {"GET"})
Greeting     == {"sync", "command", "list"}

\* Mailbox and bootloader, seen from the steps of a driver function: the bootloader is
\* not behind by more than the message that has no answer yet.
Quiet(e) == inbox = None /\ reply = None /\ rom.expects = e

StartMail ==
  /\ pc \in {"init", "quad", "stopped"} \/ (pc = "connect" /\ step = 1) => Quiet("nothing")
  /\ pc \in {"connect", "reconnect", "enter", "reenter"} /\ step # 1 =>
       /\ GreetingMail /\ rom.expects \in Greeting
       /\ step = 6 => inbox = None /\ reply = None
       /\ step = 0 /\ ret => Quiet("command")
  /\ pc = "load" => GreetingMail /\ rom.expects \in Greeting

\* An address in the mailbox is that of the page the loop is at.
Addressed == inbox # None /\ inbox[1] = "address" => inbox[2] = at

\* The answer to the second of three messages shows that the command was understood.
AddressMail(c, next) ==
  /\ step \in {1, 2} => /\ Mail({"sync", "command", "damaged"}, {"GET", c})
                        /\ rom.expects \in Greeting \cup {"address"}
  /\ step = 3 => inbox = None /\ rom.expects \in Greeting \cup {"address"}
  /\ step = 4 => /\ Mail({"address", "damaged"}, {}) /\ Addressed
                 /\ rom.expects \in Greeting \cup {"address", next}
                 /\ reply = "ACK" => rom.expects = next
  /\ step \in {4, 5, 6} /\ rom.expects = next => rom.at = at
  /\ step = 5 => Quiet(next)

ScanMail ==
  /\ pc \in {"scan", "reconnect"} =>
       /\ Mail({"sync", "command", "address", "count", "damaged"}, {"GET", "READ"})
       /\ rom.expects \in Greeting \cup {"address", "count", "data"}
       /\ rom.expects = "address" => rom.cmd = "READ"
  /\ pc = "scan" =>
       /\ AddressMail("READ", "count")
       /\ step \in {6, 7} /\ rom.expects = "data" => rom.at = at
       /\ step = 6 => /\ Mail({"count", "damaged"}, {})
                      /\ rom.expects \in {"count", "data", "command"}
                      /\ reply = "ACK" => rom.expects = "data"
       /\ step = 7 => Quiet("data")
       /\ step = 0 /\ ret => Quiet("command")

EraseMail ==
  pc = "erase" =>
    /\ step = 1 => Quiet("command")
    /\ step = 2 => /\ Mail({"command", "damaged"}, {"ERASE"})
                   /\ rom.expects \in {"command", "scope"}
                   /\ reply = "ACK" => rom.expects = "scope"
    /\ step = 3 => Quiet("scope")
    /\ step = 4 => /\ Mail({"scope", "damaged"}, {})
                   /\ rom.expects \in {"command", "scope"}
    /\ (step = 4 /\ reply = "ACK") \/ (step = 0 /\ ret) =>
         /\ inbox = None /\ rom.expects = "command"
         /\ \A i \in Pages : prog[i] = Erased
    /\ step = 0 /\ ret => reply = None

WriteMail ==
  /\ pc = "write" \/ (pc = "reenter" /\ step = 1) =>
       /\ Mail({"sync", "command", "address", "block", "damaged"}, {"GET", "WRITE"})
       /\ Addressed
       /\ inbox # None /\ inbox[1] = "block" => inbox[2] = image[at]
       /\ rom.expects \in Greeting \cup {"address", "block"}
       /\ rom.expects = "address" => rom.cmd = "WRITE"
       /\ rom.expects = "block" => rom.at = at
  /\ pc = "write" =>
       /\ AddressMail("WRITE", "block")
       /\ step = 6 => /\ Mail({"block", "damaged"}, {})
                      /\ rom.expects \in {"block", "command"}
       /\ (step = 6 /\ reply = "ACK") \/ (step = 0 /\ ret) =>
            inbox = None /\ rom.expects = "command" /\ prog[at] = image[at]
       /\ step = 0 /\ ret => reply = None

GoMail ==
  pc = "go" \/ mode = "SUPERVISOR" =>
    /\ Mail({"command", "address", "damaged"}, {"GO"})
    /\ rom.expects \in {"command", "address", "nothing"}
    /\ rom.expects = "address" => rom.cmd = "GO"

MailInv ==
  /\ reply # None => inbox = None
  /\ StartMail /\ ScanMail /\ EraseMail /\ WriteMail /\ GoMail

\* The target's flash.
TargetInv ==
  /\ pc \in {"scan", "reconnect"} /\ match => \A i \in 1..(at - 1) : prog[i] = image[i]
  /\ pc = "scan" /\ step = 0 /\ ret /\ buff = image[at] => prog[at] = image[at]
  /\ NoMixture
  /\ pc \in {"load", "write", "reenter"} => \A i \in 1..(at - 1) : prog[i] = image[i]
  /\ GoesWithProgram

\* SPI2 and the supervisor.
RoleInv ==
  /\ SpiRole
  /\ pc \in {"init", "quad"} => spi = "master"
  /\ mode = "SUPERVISOR" => status = "OK"

\* The part that holds however many failures go unnoticed, and the whole.
CoreInv == TypeOK /\ LoopInv /\ QuadInv

IInv ==
  /\ CoreInv
  /\ IdleInv /\ StoreInv /\ BackupInv
  /\ MailInv /\ TargetInv /\ RoleInv

-----------------------------------------------------------------------------
(* The driver functions, operation by operation                            *)

\* Operation i of the function the main thread is in, and a message it sends.
Does(i, op)     == Code[i][1] = op
Instructs(i, o) == Code[i][1] = "send" /\ Code[i][2] = o
Sends(i, m)     == Code[i][1] = "tx" /\ Code[i][2] = m

LEMMA InitCode ==
  ASSUME pc = "init"
  PROVE  /\ Len(Code) = 11
         /\ Does(1, "register") /\ Does(2, "register") /\ Does(3, "register")
         /\ Does(4, "register") /\ Does(5, "register")
         /\ Does(6, "wait") /\ Does(7, "enable") /\ Instructs(8, "quad")
         /\ Does(9, "register") /\ Does(10, "register") /\ Does(11, "register")
BY DEF Code, W25Q_Init, W25Q_ReadID, W25Q_ReadStatusStruct, W25Q_ReadStatusReg,
       W25Q_WriteStatusReg, Does, Instructs

LEMMA QuadCode ==
  ASSUME pc = "quad", at \in 1..3
  PROVE  /\ at < 3 => Len(Code) = 1 /\ Does(1, "register")
         /\ at = 3 => /\ Len(Code) = 3
                      /\ Does(1, "wait") /\ Does(2, "enable") /\ Instructs(3, "quad")
BY DEF Code, W25Q_ReadStatusReg, W25Q_WriteStatusRegs, Does, Instructs

LEMMA JoinOfThrees ==
  ASSUME NEW S, NEW a \in Seq(S), NEW b \in Seq(S), Len(a) = 3, Len(b) = 3
  PROVE  /\ Len(a \o b) = 6
         /\ (a \o b)[1] = a[1] /\ (a \o b)[2] = a[2] /\ (a \o b)[3] = a[3]
         /\ (a \o b)[4] = b[1] /\ (a \o b)[5] = b[2] /\ (a \o b)[6] = b[3]
<1> DEFINE ab == a \o b
<1>1. /\ Len(ab) = Len(a) + Len(b)
      /\ \A i \in 1..(Len(a) + Len(b)) : ab[i] = IF i <= Len(a) THEN a[i] ELSE b[i - Len(a)]
  BY ConcatProperties, Zenon
<1> HIDE DEF ab
<1>2. Len(ab) = 6 /\ \A i \in 1..6 : ab[i] = IF i <= 3 THEN a[i] ELSE b[i - 3]
  BY <1>1
<1>3. /\ ab[1] = a[1] /\ ab[2] = a[2] /\ ab[3] = a[3]
      /\ ab[4] = b[4 - 3] /\ ab[5] = b[5 - 3] /\ ab[6] = b[6 - 3]
  BY <1>2
<1> QED
  BY <1>2, <1>3 DEF ab

LEMMA StartCode ==
  ASSUME pc \in {"connect", "reconnect", "enter", "reenter"}
  PROVE  /\ Len(Code) = 6
         /\ Does(1, "reset") /\ Sends(2, <<"sync">>) /\ Does(3, "rx")
         /\ Sends(4, <<"command", "GET">>) /\ Does(5, "rx") /\ Does(6, "list")
<1> DEFINE reset == <<<<"reset">>>>
           sync  == <<<<"tx", <<"sync">>>>, <<"rx">>>>
           get   == <<<<"tx", <<"command", "GET">>>>, <<"rx">>>>
           list  == <<<<"list">>>>
           S     == {<<"reset">>, <<"rx">>, <<"list">>, <<"tx", <<"sync">>>>,
                     <<"tx", <<"command", "GET">>>>}
           first == reset \o sync
           second == get \o list
<1>1. Code = first \o second
  BY DEF Code, jmp_to_bootloader, bootloader_init_process, get_version_and_supported_commands,
         Command, Exchange
<1>2. first \in Seq(S) /\ second \in Seq(S)
  <2>1. reset \in Seq(S) /\ sync \in Seq(S) /\ get \in Seq(S) /\ list \in Seq(S)
    OBVIOUS
  <2> HIDE DEF reset, sync, get, list, S
  <2> QED
    BY <2>1, ConcatProperties
<1>3. /\ Len(first) = 3
      /\ first[1][1] = "reset" /\ first[2][1] = "tx" /\ first[2][2] = <<"sync">>
      /\ first[3][1] = "rx"
  OBVIOUS
<1>4. /\ Len(second) = 3
      /\ second[1][1] = "tx" /\ second[1][2] = <<"command", "GET">> /\ second[2][1] = "rx"
      /\ second[3][1] = "list"
  OBVIOUS
<1> HIDE DEF first, second, S
<1>5. /\ Len(Code) = 6
      /\ Code[1] = first[1] /\ Code[2] = first[2] /\ Code[3] = first[3]
      /\ Code[4] = second[1] /\ Code[5] = second[2] /\ Code[6] = second[3]
  <2>1. Len(first) = 3 /\ Len(second) = 3
    BY <1>3, <1>4
  <2> QED
    BY ONLY <1>1, <1>2, <2>1, JoinOfThrees
<1> QED
  BY <1>3, <1>4, <1>5 DEF Does, Sends

LEMMA ScanCode ==
  ASSUME pc = "scan"
  PROVE  /\ Len(Code) = 7
         /\ Sends(1, <<"command", "READ">>) /\ Does(2, "rx")
         /\ Sends(3, <<"address", at>>) /\ Does(4, "rx")
         /\ Sends(5, <<"count">>) /\ Does(6, "rx")
         /\ Does(7, "data")
BY DEF Code, read_prog_memory, Command, Exchange, Does, Sends

LEMMA GoCode ==
  ASSUME pc = "go"
  PROVE  /\ Len(Code) = 4
         /\ Sends(1, <<"command", "GO">>) /\ Does(2, "rx")
         /\ Sends(3, <<"address", 1>>) /\ Does(4, "rx")
BY DEF Code, jmp_to_app, Command, Exchange, Does, Sends

LEMMA EraseCode ==
  ASSUME pc = "erase"
  PROVE  /\ Len(Code) = 4
         /\ Sends(1, <<"command", "ERASE">>) /\ Does(2, "rx")
         /\ Sends(3, <<"scope">>) /\ Does(4, "rx")
BY DEF Code, erase_memory, Command, Exchange, Does, Sends

LEMMA WriteCode ==
  ASSUME pc = "write"
  PROVE  /\ Len(Code) = 6
         /\ Sends(1, <<"command", "WRITE">>) /\ Does(2, "rx")
         /\ Sends(3, <<"address", at>>) /\ Does(4, "rx")
         /\ Sends(5, <<"block", buff>>) /\ Does(6, "rx")
BY DEF Code, write_memory, Command, Exchange, Does, Sends

LEMMA ChangeCode ==
  ASSUME pc \in {"clear", "program"}
  PROVE  /\ Len(Code) = 4
         /\ Does(1, "wait") /\ Does(2, "enable") /\ Does(4, "wait")
         /\ Instructs(3, IF pc = "clear" THEN "erase" ELSE "program")
BY DEF Code, W25Q_EraseChip, W25Q_ProgramRaw, Does, Instructs

LEMMA ReadCode ==
  ASSUME pc \in {"verify", "readback", "load"}
  PROVE  Len(Code) = 2 /\ Does(1, "wait") /\ Does(2, "receive")
BY DEF Code, W25Q_ReadRaw, Does

\* Where an operation of each kind is the next one.
AtWait ==
  \/ pc = "init" /\ step = 6
  \/ pc = "quad" /\ at = 3 /\ step = 1
  \/ pc \in {"clear", "program"} /\ step \in {1, 4}
  \/ pc \in {"verify", "readback", "load"} /\ step = 1

AtEnable ==
  \/ pc = "init" /\ step = 7
  \/ pc = "quad" /\ at = 3 /\ step = 2
  \/ pc \in {"clear", "program"} /\ step = 2

AtSend ==
  \/ pc = "init" /\ step = 8
  \/ pc = "quad" /\ at = 3 /\ step = 3
  \/ pc \in {"clear", "program"} /\ step = 3

AtRegister ==
  \/ pc = "init" /\ step \in {1, 2, 3, 4, 5, 9, 10, 11}
  \/ pc = "quad" /\ at < 3 /\ step = 1

AtReceive == pc \in {"verify", "readback", "load"} /\ step = 2

Starts  == pc \in {"connect", "reconnect", "enter", "reenter"}
AtReset == Starts /\ step = 1

AtTx ==
  \/ Starts /\ step \in {2, 4}
  \/ pc \in {"scan", "write"} /\ step \in {1, 3, 5}
  \/ pc \in {"erase", "go"} /\ step \in {1, 3}

AtRx ==
  \/ Starts /\ step \in {3, 5}
  \/ pc \in {"scan", "write"} /\ step \in {2, 4, 6}
  \/ pc \in {"erase", "go"} /\ step \in {2, 4}

AtList == Starts /\ step = 6
AtData == pc = "scan" /\ step = 7

LEMMA Where ==
  ASSUME TypeOK, step # 0
  PROVE  /\ Doing("wait") => AtWait
         /\ Doing("enable") => AtEnable
         /\ Doing("send") => AtSend
         /\ Doing("register") => AtRegister
         /\ Doing("receive") => AtReceive
         /\ Doing("reset") => AtReset
         /\ Doing("tx") => AtTx
         /\ Doing("rx") => AtRx
         /\ Doing("list") => AtList
         /\ Doing("data") => AtData
<1>1. pc \in Labels \ {"idle", "stopped"} /\ step \in 1..Len(Code)
  BY DEF TypeOK
<1> USE DEF Doing, AtWait, AtEnable, AtSend, AtRegister, AtReceive, AtReset, AtTx, AtRx, AtList,
            AtData, Starts
<1>2. CASE pc = "init"
  <2>1. /\ Len(Code) = 11 /\ Code[1][1] = "register" /\ Code[2][1] = "register"
        /\ Code[3][1] = "register" /\ Code[4][1] = "register"
        /\ Code[5][1] = "register" /\ Code[6][1] = "wait" /\ Code[7][1] = "enable"
        /\ Code[8][1] = "send" /\ Code[9][1] = "register"
        /\ Code[10][1] = "register" /\ Code[11][1] = "register"
    BY <1>2, InitCode DEF Does, Instructs, Sends
  <2> QED
    BY <1>1, <1>2, <2>1
<1>3. CASE pc \in {"connect", "reconnect", "enter", "reenter"}
  <2>1. /\ Len(Code) = 6 /\ Code[1][1] = "reset" /\ Code[2][1] = "tx"
        /\ Code[3][1] = "rx" /\ Code[4][1] = "tx" /\ Code[5][1] = "rx"
        /\ Code[6][1] = "list"
    BY <1>3, StartCode DEF Does, Instructs, Sends
  <2> QED
    BY <1>1, <1>3, <2>1
<1>4. CASE pc = "scan"
  <2>1. /\ Len(Code) = 7 /\ Code[1][1] = "tx" /\ Code[2][1] = "rx"
        /\ Code[3][1] = "tx" /\ Code[4][1] = "rx" /\ Code[5][1] = "tx"
        /\ Code[6][1] = "rx" /\ Code[7][1] = "data"
    BY <1>4, ScanCode DEF Does, Instructs, Sends
  <2> QED
    BY <1>1, <1>4, <2>1
<1>5. CASE pc = "go"
  <2>1. /\ Len(Code) = 4 /\ Code[1][1] = "tx" /\ Code[2][1] = "rx"
        /\ Code[3][1] = "tx" /\ Code[4][1] = "rx"
    BY <1>5, GoCode DEF Does, Instructs, Sends
  <2> QED
    BY <1>1, <1>5, <2>1
<1>6. CASE pc = "erase"
  <2>1. /\ Len(Code) = 4 /\ Code[1][1] = "tx" /\ Code[2][1] = "rx"
        /\ Code[3][1] = "tx" /\ Code[4][1] = "rx"
    BY <1>6, EraseCode DEF Does, Instructs, Sends
  <2> QED
    BY <1>1, <1>6, <2>1
<1>7. CASE pc = "write"
  <2>1. /\ Len(Code) = 6 /\ Code[1][1] = "tx" /\ Code[2][1] = "rx"
        /\ Code[3][1] = "tx" /\ Code[4][1] = "rx" /\ Code[5][1] = "tx"
        /\ Code[6][1] = "rx"
    BY <1>7, WriteCode DEF Does, Instructs, Sends
  <2> QED
    BY <1>1, <1>7, <2>1
<1>8. CASE pc \in {"clear", "program"}
  <2>1. /\ Len(Code) = 4 /\ Code[1][1] = "wait" /\ Code[2][1] = "enable"
        /\ Code[3][1] = "send" /\ Code[4][1] = "wait"
    BY <1>8, ChangeCode DEF Does, Instructs, Sends
  <2> QED
    BY <1>1, <1>8, <2>1
<1>9. CASE pc \in {"verify", "readback", "load"}
  <2>1. /\ Len(Code) = 2 /\ Code[1][1] = "wait" /\ Code[2][1] = "receive"
    BY <1>9, ReadCode DEF Does, Instructs, Sends
  <2> QED
    BY <1>1, <1>9, <2>1
<1>10. CASE pc = "quad" /\ at < 3
  <2>1. at \in 1..3
    BY <1>10 DEF TypeOK
  <2>2. /\ Len(Code) = 1 /\ Code[1][1] = "register"
    BY <1>10, <2>1, QuadCode DEF Does, Instructs
  <2> QED
    BY <1>1, <1>10, <2>1, <2>2
<1>11. CASE pc = "quad" /\ ~(at < 3)
  <2>1. at \in 1..3
    BY <1>11 DEF TypeOK
  <2>2. /\ at = 3 /\ Len(Code) = 3 /\ Code[1][1] = "wait" /\ Code[2][1] = "enable"
        /\ Code[3][1] = "send"
    BY <1>11, <2>1, QuadCode DEF Does, Instructs
  <2> QED
    BY <1>1, <1>11, <2>1, <2>2
<1> QED
  BY <1>1, <1>2, <1>3, <1>4, <1>5, <1>6, <1>7, <1>8, <1>9, <1>10, <1>11 DEF Labels

\* The number of operations of the function.
Steps ==
  CASE pc = "init"                    -> 11
    [] pc = "quad"                    -> IF at < 3 THEN 1 ELSE 3
    [] Starts                         -> 6
    [] pc = "scan"                    -> 7
    [] pc = "write"                   -> 6
    [] pc \in {"go", "erase", "clear", "program"} -> 4
    [] pc \in {"verify", "readback", "load"}      -> 2

Working == pc \in Labels \ {"idle", "stopped"} /\ (pc = "quad" => at \in 1..3)

LEMMA CodeLength == Working => Len(Code) = Steps
<1> SUFFICES ASSUME Working PROVE Len(Code) = Steps
  OBVIOUS
<1>1. CASE pc = "init"
  BY <1>1, InitCode DEF Steps, Starts
<1>2. CASE pc = "quad"
  BY <1>2, QuadCode DEF Steps, Working, Starts
<1>3. CASE Starts
  BY <1>3, StartCode DEF Steps, Starts
<1>4. CASE pc = "scan"
  BY <1>4, ScanCode DEF Steps, Starts
<1>5. CASE pc = "go"
  BY <1>5, GoCode DEF Steps, Starts
<1>6. CASE pc = "erase"
  BY <1>6, EraseCode DEF Steps, Starts
<1>7. CASE pc = "write"
  BY <1>7, WriteCode DEF Steps, Starts
<1>8. CASE pc \in {"clear", "program"}
  BY <1>8, ChangeCode DEF Steps, Starts
<1>9. CASE pc \in {"verify", "readback", "load"}
  BY <1>9, ReadCode DEF Steps, Starts
<1> QED
  BY <1>1, <1>2, <1>3, <1>4, <1>5, <1>6, <1>7, <1>8, <1>9 DEF Working, Labels, Starts

LEMMA CodeLengthNext == (Working => Len(Code) = Steps)'
BY CodeLength, PTL

LEMMA InstructionSent ==
  ASSUME TypeOK, Doing("send")
  PROVE  Operand = IF pc = "clear" THEN "erase" ELSE IF pc = "program" THEN "program" ELSE "quad"
<1>1. AtSend
  BY Where DEF Doing
<1>2. CASE pc = "init"
  BY <1>1, <1>2, InitCode DEF AtSend, Instructs, Operand
<1>3. CASE pc = "quad"
  BY <1>1, <1>3, QuadCode DEF AtSend, Instructs, Operand
<1>4. CASE pc \in {"clear", "program"}
  BY <1>1, <1>4, ChangeCode DEF AtSend, Instructs, Operand
<1> QED
  BY <1>1, <1>2, <1>3, <1>4 DEF AtSend

\* The message that the next transmission sends.
Message ==
  CASE Starts /\ step = 2                 -> <<"sync">>
    [] Starts /\ step = 4                 -> <<"command", "GET">>
    [] pc = "scan" /\ step = 1            -> <<"command", "READ">>
    [] pc = "write" /\ step = 1           -> <<"command", "WRITE">>
    [] pc \in {"scan", "write"} /\ step = 3 -> <<"address", at>>
    [] pc = "scan" /\ step = 5            -> <<"count">>
    [] pc = "write" /\ step = 5           -> <<"block", buff>>
    [] pc = "erase" /\ step = 1           -> <<"command", "ERASE">>
    [] pc = "erase" /\ step = 3           -> <<"scope">>
    [] pc = "go" /\ step = 1              -> <<"command", "GO">>
    [] pc = "go" /\ step = 3              -> <<"address", 1>>

LEMMA MessageSent ==
  ASSUME TypeOK, Doing("tx")
  PROVE  Operand = Message
<1>1. AtTx
  BY Where DEF Doing
<1>2. CASE Starts
  BY <1>1, <1>2, StartCode DEF AtTx, Starts, Sends, Operand, Message
<1>3. CASE pc = "scan"
  BY <1>1, <1>3, ScanCode DEF AtTx, Starts, Sends, Operand, Message
<1>4. CASE pc = "write"
  BY <1>1, <1>4, WriteCode DEF AtTx, Starts, Sends, Operand, Message
<1>5. CASE pc = "erase"
  BY <1>1, <1>5, EraseCode DEF AtTx, Starts, Sends, Operand, Message
<1>6. CASE pc = "go"
  BY <1>1, <1>6, GoCode DEF AtTx, Starts, Sends, Operand, Message
<1> QED
  BY <1>1, <1>2, <1>3, <1>4, <1>5, <1>6 DEF AtTx

\* An operation that succeeds leads to the next one or ends the function.
LEMMA Proceeding ==
  ASSUME TypeOK, step # 0, Proceed
  PROVE  /\ Working /\ step \in 1..Steps
         /\ \/ step < Steps /\ step' = step + 1 /\ ret' = ret
            \/ step = Steps /\ step' = 0 /\ ret' = TRUE
<1>1. Working /\ step \in 1..Len(Code)
  BY DEF TypeOK, Working
<1> QED
  BY <1>1, CodeLength DEF Proceed, Return

-----------------------------------------------------------------------------
(* Type correctness                                                        *)

USE DEF vars, chip, target, local, loop, job, faults, board

\* The type invariant in parts: the main thread's place, the chip's, the target's, the
\* main thread's data, and the rest.
ThreadOK ==
  /\ pc \in Labels /\ ret \in BOOLEAN
  /\ IF pc \in {"idle", "stopped"} THEN step = 0 ELSE step \in 0..Len(Code)
  /\ at \in 1..(IF pc = "quad" THEN 3 ELSE MaxPages)

ChipOK == cells \in Cells /\ wel \in BOOLEAN /\ work \in Works \cup {None}

TargetOK ==
  /\ prog \in [Pages -> Content] /\ app \in BOOLEAN
  /\ rom \in [expects : {"nothing", "sync", "command", "list", "address", "scope", "block",
                         "count", "data"},
              cmd : Commands \cup {"GET"}, at : Pages]
  /\ inbox \in Messages \cup {None}
  /\ reply \in {None, "ACK", "NACK"} /\ supported \subseteq Commands

DataOK ==
  /\ retry \in 0..RetryLimit
  /\ buff \in Content /\ match \in BOOLEAN
  /\ image \in Programs /\ coming \in Programs

RestOK ==
  /\ spi \in {"master", "slave"} /\ mode \in {"UPDATER", "SUPERVISOR"}
  /\ status \in {"OK", "BOOTLOADER_ERROR", "PROGRAM_INVALID", "EXECUTION_ERROR"}
  /\ task \in {"boot", "update", "restore", "none"}
  /\ flashFaults \in 0..MaxFlashFaults /\ unnoticed \in 0..MaxUnnoticed
  /\ lineFaults \in 0..MaxLineFaults

LEMMA TypeParts == TypeOK <=> ThreadOK /\ ChipOK /\ TargetOK /\ DataOK /\ RestOK
BY DEF TypeOK, ThreadOK, ChipOK, TargetOK, DataOK, RestOK

LEMMA TypePartsNext == (TypeOK <=> ThreadOK /\ ChipOK /\ TargetOK /\ DataOK /\ RestOK)'
BY TypeParts, PTL

\* The length of a program, and what a page of it holds.
LEMMA ProgramType ==
  ASSUME NEW p \in Programs
  PROVE  /\ Len(p) \in Pages
         /\ \A i \in 1..Len(p) : p[i] \in Content
         /\ Padded(p) \in [Pages -> Content]
<1>1. p \in Seq(Content) /\ Len(p) \in Pages
  BY ProgramsAssumption
<1>2. \A i \in 1..Len(p) : p[i] \in Content
  BY <1>1
<1>3. \A i \in Pages : (IF i <= Len(p) THEN p[i] ELSE Erased) \in Content
  BY <1>1, <1>2 DEF Pages, Erased, Content
<1> QED
  BY <1>1, <1>2, <1>3 DEF Padded

\* A step of a driver: the operation succeeds, or it ends the function with FALSE.
DriverStep ==
  /\ step # 0 /\ Working /\ step \in 1..Steps /\ pc' = pc /\ at' = at
  /\ \/ step < Steps /\ step' = step + 1 /\ ret' = ret
     \/ step = Steps /\ step' = 0 /\ ret' = TRUE
     \/ step' = 0 /\ ret' = FALSE
  /\ UNCHANGED <<retry, match, image, coming, status, task, board>>

LEMMA Failing ==
  ASSUME TypeOK, step # 0, step' = 0, ret' = FALSE
  PROVE  Working /\ step \in 1..Steps
<1>1. Working /\ step \in 1..Len(Code)
  BY DEF TypeOK, Working
<1> QED
  BY <1>1, CodeLength DEF Return

Performed ==
  /\ step # 0 /\ pc' = pc /\ at' = at
  /\ Proceed \/ (step' = 0 /\ ret' = FALSE)
  /\ UNCHANGED <<retry, match, image, coming, status, task, board>>

LEMMA Performing ==
  ASSUME TypeOK, Performed
  PROVE  DriverStep
BY Proceeding, Failing DEF DriverStep, Performed

LEMMA FlashSteps ==
  ASSUME TypeOK, FlashDriver
  PROVE  DriverStep /\ UNCHANGED <<target, supported, lineFaults>>
<1> USE DEF Doing, Return
<1> SUFFICES Performed /\ UNCHANGED <<target, supported, lineFaults>>
  BY Performing
<1> USE DEF Performed
<1>1. CASE Wait
  BY <1>1 DEF Wait, UnnoticedFault
<1>2. CASE WriteEnable
  BY <1>2 DEF WriteEnable, FlashFault, UnnoticedFault
<1>3. CASE SendInstruction
  BY <1>3 DEF SendInstruction, FlashFault, UnnoticedFault
<1>4. CASE ReadRegister
  BY <1>4 DEF ReadRegister, FlashFault, UnnoticedFault
<1>5. CASE ReadPage
  BY <1>5 DEF ReadPage, FlashFault, UnnoticedFault
<1> QED
  BY <1>1, <1>2, <1>3, <1>4, <1>5 DEF FlashDriver

LEMMA BootloaderSteps ==
  ASSUME TypeOK, BootloaderDriver
  PROVE  DriverStep /\ UNCHANGED <<chip, flashFaults, unnoticed>>
<1> USE DEF Doing, Return
<1> SUFFICES Performed /\ UNCHANGED <<chip, flashFaults, unnoticed>>
  BY Performing
<1> USE DEF Performed
<1>1. CASE ResetTarget
  BY <1>1 DEF ResetTarget
<1>2. CASE Transmit
  BY <1>2 DEF Transmit, LineFault
<1>3. CASE TransmitFails
  BY <1>3 DEF TransmitFails, LineFault
<1>4. CASE PollAck
  BY <1>4 DEF PollAck
<1>5. CASE PollNack
  BY <1>5 DEF PollNack
<1>6. CASE PollTimeout
  BY <1>6 DEF PollTimeout, LineFault
<1>7. CASE ReceiveList
  BY <1>7 DEF ReceiveList, LineFault
<1>8. CASE ReceiveData
  BY <1>8 DEF ReceiveData, LineFault
<1>9. CASE ReceiveNothing
  BY <1>9 DEF ReceiveNothing, LineFault
<1> QED
  BY <1>1, <1>2, <1>3, <1>4, <1>5, <1>6, <1>7, <1>8, <1>9 DEF BootloaderDriver

\* What a step of the main thread between two functions does to its place.
Calls(l, n) == pc' = l /\ at' = n /\ step' = 1 /\ ret' = FALSE
Rests       == pc' \in {"idle", "stopped"} /\ at' = 1 /\ step' = 0 /\ ret' = FALSE

LEMMA CallType ==
  ASSUME NEW l \in Labels \ {"idle", "stopped"}, NEW n \in 1..(IF l = "quad" THEN 3 ELSE MaxPages),
         Calls(l, n)
  PROVE  ThreadOK'
<1>1. Working' /\ Steps' \in Nat /\ Steps' >= 1
  BY DEF Calls, Working, Steps, Starts, Labels
<1>2. Len(Code)' >= 1 /\ Len(Code)' \in Nat
  BY <1>1, CodeLengthNext
<1>3. pc' \in Labels /\ pc' \notin {"idle", "stopped"} /\ ret' \in BOOLEAN
  BY DEF Calls
<1>4. at' \in 1..(IF pc' = "quad" THEN 3 ELSE MaxPages)
  BY DEF Calls
<1>5. step' \in 0..Len(Code)'
  BY <1>2 DEF Calls
<1> QED
  BY <1>3, <1>4, <1>5 DEF ThreadOK

LEMMA CallPageType ==
  ASSUME NEW l \in Labels \ {"idle", "stopped", "quad"}, NEW n \in Pages, Calls(l, n)
  PROVE  ThreadOK'
BY CallType DEF Pages

LEMMA NextPage ==
  ASSUME NEW n \in Pages, NEW m \in Pages, n < m
  PROVE  n + 1 \in Pages
BY BoundsAssumption DEF Pages

LEMMA RestType == Rests => ThreadOK'
<1> SUFFICES ASSUME Rests PROVE ThreadOK'
  OBVIOUS
<1>1. pc' \in Labels /\ pc' \in {"idle", "stopped"} /\ pc' # "quad" /\ ret' \in BOOLEAN
  BY DEF Rests, Labels
<1>2. at' \in 1..MaxPages
  BY BoundsAssumption DEF Rests
<1> QED
  BY <1>1, <1>2 DEF Rests, ThreadOK

\* A step of a driver, of the chip or of the bootloader keeps the place well typed.
LEMMA DriverType ==
  ASSUME TypeOK, DriverStep
  PROVE  ThreadOK'
<1>1. Working' /\ Steps' = Steps /\ Steps \in Nat
  BY DEF DriverStep, Working, Steps, Starts, Labels
<1>2. Len(Code)' = Steps /\ pc \notin {"idle", "stopped"}
  BY <1>1, CodeLengthNext DEF DriverStep, Working
<1>3. ret \in BOOLEAN
  BY DEF TypeOK
<1>4. /\ step \in 1..Steps
      /\ \/ step < Steps /\ step' = step + 1 /\ ret' = ret
         \/ step = Steps /\ step' = 0 /\ ret' = TRUE
         \/ step' = 0 /\ ret' = FALSE
  BY DEF DriverStep
<1>5. Steps \in Nat
  BY <1>1
<1>6. step' \in 0..Steps
  BY ONLY <1>4, <1>5
<1>7. ret' \in BOOLEAN
  BY ONLY <1>3, <1>4
<1> QED
  BY <1>1, <1>2, <1>6, <1>7 DEF DriverStep, ThreadOK, TypeOK

LEMMA OthersType ==
  ASSUME TypeOK, UNCHANGED <<pc, step, ret, at, buff>>
  PROVE  ThreadOK'
<1>1. CASE pc \in {"idle", "stopped"}
  BY <1>1 DEF TypeOK, ThreadOK
<1>2. CASE pc \notin {"idle", "stopped"}
  <2>1. Working /\ Working' /\ Steps' = Steps
    BY <1>2 DEF TypeOK, Working, Steps, Starts, Labels
  <2>2. Len(Code)' = Len(Code)
    BY <2>1, CodeLength, CodeLengthNext
  <2> QED
    BY <1>2, <2>2 DEF TypeOK, ThreadOK
<1> QED
  BY <1>1, <1>2

\* What the main thread does between two functions.
Caller == Booting \/ Storing \/ Copying \/ Update \/ Restore

LEMMA PagesType ==
  ASSUME TypeOK
  PROVE  /\ MaxPages \in Nat /\ 1 \in Pages
         /\ Len(image) \in Pages /\ Len(coming) \in Pages
         /\ pc # "quad" => at \in Pages
BY ProgramType, BoundsAssumption DEF TypeOK, Pages

LEMMA CallerType ==
  ASSUME TypeOK, LoopInv, Caller
  PROVE  ThreadOK'
<1> USE DEF Returned, Step, Goto, Calls
<1>1. CASE Booting
  <2>1. CASE Initialized
    <3>1. Calls("quad", 1) \/ Rests
      BY <2>1 DEF Initialized, Rest, Rests
    <3>2. CASE Calls("quad", 1)
      <4>1. "quad" \in Labels \ {"idle", "stopped"} /\ 1 \in 1..3
        BY DEF Labels
      <4> QED
        BY <3>2, <4>1, CallType
    <3> QED
      BY <3>1, <3>2, RestType
  <2>2. CASE QuadEnabling
    <3>1. (at < 3 /\ Calls("quad", at + 1)) \/ Calls("connect", 1)
      BY <2>2 DEF QuadEnabling
    <3>2. at \in 1..3
      BY <2>2 DEF QuadEnabling, TypeOK
    <3>3. CASE at < 3 /\ Calls("quad", at + 1)
      <4>1. "quad" \in Labels \ {"idle", "stopped"} /\ at + 1 \in 1..3
        BY <3>2, <3>3 DEF Labels
      <4> QED
        BY <3>3, <4>1, CallType
    <3> QED
      BY <3>1, <3>3, CallPageType, PagesType DEF Labels
  <2>3. CASE Stopped
    BY <2>3, OthersType DEF Stopped
  <2>4. CASE Connected
    <3>1. Calls("scan", 1) \/ Rests
      BY <2>4 DEF Connected, Leave, Rest, Rests
    <3> QED
      BY <3>1, CallPageType, RestType, PagesType DEF Labels
  <2>5. CASE Scanned
    <3>1. \/ Calls("reconnect", at) \/ Rests \/ Calls("go", 1)
          \/ at < Len(image) /\ Calls("scan", at + 1)
      BY <2>5 DEF Scanned, ScanEnd, Leave, Rest, Rests
    <3>2. at \in Pages /\ Len(image) \in Pages /\ 1 \in Pages
      BY <2>5, PagesType DEF Scanned
    <3> QED
      BY <3>1, <3>2, CallPageType, RestType, NextPage DEF Labels
  <2>6. CASE Reconnected
    <3>1. Calls("scan", at)
      BY <2>6 DEF Reconnected
    <3>2. at \in Pages
      BY <2>6, PagesType DEF Reconnected
    <3> QED
      BY <3>1, <3>2, CallPageType DEF Labels
  <2>7. CASE Gone
    <3>1. Rests
      BY <2>7 DEF Gone, Leave, Rest, Rests
    <3> QED
      BY <3>1, RestType
  <2> QED
    BY <1>1, <2>1, <2>2, <2>3, <2>4, <2>5, <2>6, <2>7 DEF Booting
<1>2. CASE Storing
  <2>1. CASE Cleared
    <3>1. Calls("program", 1)
      BY <2>1 DEF Cleared
    <3> QED
      BY <3>1, CallPageType, PagesType DEF Labels
  <2>2. CASE ProgramDone
    <3>1. Calls("readback", at) \/ Calls("program", at)
      BY <2>2 DEF ProgramDone
    <3>2. at \in Pages
      BY <2>2, PagesType DEF ProgramDone
    <3> QED
      BY <3>1, <3>2, CallPageType DEF Labels
  <2>3. CASE ReadBack
    <3>1. \/ Calls("program", at) \/ Rests \/ Calls("enter", 1)
          \/ at < Len(coming) /\ Calls("program", at + 1)
      BY <2>3 DEF ReadBack, Stored, Leave, Rest, Rests
    <3>2. at \in Pages /\ Len(coming) \in Pages /\ 1 \in Pages
      BY <2>3, PagesType DEF ReadBack
    <3> QED
      BY <3>1, <3>2, CallPageType, RestType, NextPage DEF Labels
  <2> QED
    BY <1>2, <2>1, <2>2, <2>3 DEF Storing
<1>3. CASE Copying
  <2>1. CASE Verified
    <3>1. \/ Calls("verify", at) \/ Rests \/ Calls("enter", 1)
          \/ at < Len(image) /\ Calls("verify", at + 1)
      BY <2>1 DEF Verified, Leave, Rest, Rests
    <3>2. at \in Pages /\ Len(image) \in Pages /\ 1 \in Pages
      BY <2>1, PagesType DEF Verified
    <3> QED
      BY <3>1, <3>2, CallPageType, RestType, NextPage DEF Labels
  <2>2. CASE Entered
    <3>1. Calls("erase", 1) \/ Rests
      BY <2>2 DEF Entered, CopyFails, Leave, Rest, Rests
    <3> QED
      BY <3>1, CallPageType, RestType, PagesType DEF Labels
  <2>3. CASE EraseDone
    <3>1. Calls("load", 1) \/ Rests
      BY <2>3 DEF EraseDone, CopyFails, Leave, Rest, Rests
    <3> QED
      BY <3>1, CallPageType, RestType, PagesType DEF Labels
  <2>4. CASE Loaded
    <3>1. Calls("write", at) \/ Calls("load", at)
      BY <2>4 DEF Loaded
    <3>2. at \in Pages
      BY <2>4, PagesType DEF Loaded
    <3> QED
      BY <3>1, <3>2, CallPageType DEF Labels
  <2>5. CASE WriteDone
    <3>1. \/ Calls("reenter", at) \/ Calls("go", 1)
          \/ at < Len(image) /\ Calls("load", at + 1)
      BY <2>5 DEF WriteDone
    <3>2. at \in Pages /\ Len(image) \in Pages /\ 1 \in Pages
      BY <2>5, PagesType DEF WriteDone
    <3> QED
      BY <3>1, <3>2, CallPageType, NextPage DEF Labels
  <2>6. CASE Reentered
    <3>1. Calls("load", at) \/ Rests
      BY <2>6 DEF Reentered, CopyFails, Leave, Rest, Rests
    <3>2. at \in Pages
      BY <2>6, PagesType DEF Reentered
    <3> QED
      BY <3>1, <3>2, CallPageType, RestType DEF Labels
  <2> QED
    BY <1>3, <2>1, <2>2, <2>3, <2>4, <2>5, <2>6 DEF Copying
<1>4. CASE Update
  <2>1. Calls("clear", 1)
    BY <1>4 DEF Update
  <2> QED
    BY <2>1, CallPageType, PagesType DEF Labels
<1>5. CASE Restore
  <2>1. Calls("verify", 1)
    BY <1>5 DEF Restore
  <2> QED
    BY <2>1, CallPageType, PagesType DEF Labels
<1> QED
  BY <1>1, <1>2, <1>3, <1>4, <1>5 DEF Caller

\* What the main thread leaves alone between two functions.
LEMMA CallerFootprint ==
  ASSUME Caller
  PROVE  /\ UNCHANGED <<chip, prog, app, supported, flashFaults, lineFaults>>
         /\ \/ UNCHANGED <<rom, inbox, reply>>
            \/ pc = "connect" /\ inbox' = None /\ reply' = None /\ RomLeft
<1>1. CASE Initialized
  BY <1>1 DEF Initialized
<1>2. CASE QuadEnabling
  BY <1>2 DEF QuadEnabling
<1>3. CASE Stopped
  BY <1>3 DEF Stopped
<1>4. CASE Connected
  BY <1>4 DEF Connected, Returned
<1>5. CASE Scanned
  BY <1>5 DEF Scanned, ScanEnd, Leave
<1>6. CASE Reconnected
  BY <1>6 DEF Reconnected
<1>7. CASE Gone
  BY <1>7 DEF Gone, Leave, supervisor_init
<1>8. CASE Cleared
  BY <1>8 DEF Cleared
<1>9. CASE ProgramDone
  BY <1>9 DEF ProgramDone
<1>10. CASE ReadBack
  BY <1>10 DEF ReadBack, Stored, Leave
<1>11. CASE Verified
  BY <1>11 DEF Verified, Leave
<1>12. CASE Entered
  BY <1>12 DEF Entered, CopyFails, Leave
<1>13. CASE EraseDone
  BY <1>13 DEF EraseDone, CopyFails, Leave
<1>14. CASE Loaded
  BY <1>14 DEF Loaded
<1>15. CASE WriteDone
  BY <1>15 DEF WriteDone
<1>16. CASE Reentered
  BY <1>16 DEF Reentered, CopyFails, Leave
<1>17. CASE Update
  BY <1>17 DEF Update
<1>18. CASE Restore
  BY <1>18 DEF Restore
<1> QED
  BY <1>1, <1>2, <1>3, <1>4, <1>5, <1>6, <1>7, <1>8, <1>9,
     <1>10, <1>11, <1>12, <1>13, <1>14, <1>15, <1>16, <1>17, <1>18
  DEF Caller, Booting, Storing, Copying

\* The data of the recorded or the coming program at a page of the loop.
LEMMA PageType ==
  ASSUME TypeOK, LoopInv
  PROVE  /\ pc \in {"scan", "reconnect", "verify", "load", "write", "reenter"} =>
              at \in Pages /\ image[at] \in Content
         /\ pc \in {"clear", "program", "readback"} => at \in Pages /\ coming[at] \in Content
         /\ image \in Programs /\ coming \in Programs
<1>1. image \in Programs /\ coming \in Programs /\ (pc # "quad" => at \in 1..MaxPages)
  BY DEF TypeOK
<1> QED
  BY <1>1, ProgramType, BoundsAssumption DEF LoopInv, Pages

\* What an instruction makes of the chip.
LEMMA EffectType ==
  ASSUME TypeOK, LoopInv, Doing("send")
  PROVE  /\ Operand \in {"erase", "program", "quad"}
         /\ Effect(Operand) \in Cells
<1>1. Operand = IF pc = "clear" THEN "erase" ELSE IF pc = "program" THEN "program" ELSE "quad"
  BY InstructionSent
<1>2. cells \in Cells
  BY DEF TypeOK
<1>3. CASE pc = "clear"
  <2>1. Effect("erase") \in Cells
    BY <1>2 DEF Effect, Cells, Content, Erased
  <2> QED
    BY <1>1, <1>3, <2>1
<1>4. CASE pc = "program"
  <2>1. at \in Pages /\ coming[at] \in Content
    BY <1>4, PageType
  <2>2. cells.page[at] \cup coming[at] \in Content
    BY <1>2, <2>1 DEF Cells, Content
  <2>3. [cells.page EXCEPT ![at] = @ \cup coming[at]] \in [Pages -> Content]
    BY <1>2, <2>1, <2>2 DEF Cells
  <2>4. Effect("program") \in Cells
    BY <1>2, <2>3 DEF Effect, Cells, Programmed
  <2> QED
    BY <1>1, <1>4, <2>4
<1>5. CASE pc \notin {"clear", "program"}
  <2>1. Effect("quad") \in Cells
    BY <1>2 DEF Effect, Cells
  <2> QED
    BY <1>1, <1>5, <2>1
<1> QED
  BY <1>3, <1>4, <1>5

LEMMA WorkIsNotNone == \A w \in Works : w # None
BY NoneAssumption

LEMMA ObeyType ==
  ASSUME TypeOK, LoopInv, Doing("send"), Obey \/ UNCHANGED work
  PROVE  work' \in Works \cup {None}
<1>1. work \in Works \cup {None}
  BY DEF TypeOK
<1>2. [op |-> Operand, then |-> Effect(Operand)] \in Works
  BY EffectType DEF Works
<1> QED
  BY <1>1, <1>2 DEF Obey

LEMMA ChipType == CoreInv /\ Next => ChipOK'
<1> SUFFICES ASSUME CoreInv, Next PROVE ChipOK'
  OBVIOUS
<1>1. TypeOK /\ LoopInv /\ ChipOK
  BY TypeParts DEF CoreInv
<1>2. CASE FlashDriver
  <2>1. CASE WriteEnable
    BY <1>1, <2>1 DEF WriteEnable, ChipOK
  <2>2. CASE SendInstruction
    BY <1>1, <2>2, ObeyType DEF SendInstruction, ChipOK
  <2>3. CASE Wait \/ ReadRegister \/ ReadPage
    BY <1>1, <2>3 DEF Wait, ReadRegister, ReadPage, ChipOK
  <2> QED
    BY <1>2, <2>1, <2>2, <2>3 DEF FlashDriver
<1>3. CASE BootloaderDriver
  BY <1>1, <1>3, BootloaderSteps DEF ChipOK
<1>4. CASE Caller
  BY <1>1, <1>4, CallerFootprint DEF ChipOK
<1>5. CASE ChipDone
  BY <1>1, <1>5 DEF ChipDone, Busy, ChipOK, Works
<1>6. CASE Rom
  BY <1>1, <1>6 DEF Rom, ChipOK
<1> QED
  BY <1>2, <1>3, <1>4, <1>5, <1>6 DEF Next, Main, Caller

LEMMA MessageForms ==
  /\ <<"sync">> \in Messages /\ <<"scope">> \in Messages /\ <<"count">> \in Messages
  /\ <<"damaged">> \in Messages
  /\ <<"command", "GET">> \in Messages /\ <<"command", "ERASE">> \in Messages
  /\ <<"command", "WRITE">> \in Messages /\ <<"command", "READ">> \in Messages
  /\ <<"command", "GO">> \in Messages
  /\ \A i \in Pages : <<"address", i>> \in Messages
  /\ \A d \in Content : <<"block", d>> \in Messages
BY DEF Messages, Commands

LEMMA MessageType ==
  ASSUME TypeOK, LoopInv, AtTx
  PROVE  Message \in Messages /\ Message # None
<1> SUFFICES Message \in Messages
  BY NoneAssumption
<1>1. pc = "scan" \/ pc = "write" => at \in Pages
  BY PageType
<1>2. 1 \in Pages /\ buff \in Content
  BY PagesType DEF TypeOK
<1>3. CASE Starts
  <2>1. Message = <<"sync">> \/ Message = <<"command", "GET">>
    BY <1>3 DEF AtTx, Starts, Message
  <2> QED
    BY <2>1, MessageForms
<1>4. CASE pc = "scan"
  <2>1. Message \in {<<"command", "READ">>, <<"address", at>>, <<"count">>}
    BY <1>4 DEF AtTx, Starts, Message
  <2> QED
    BY <1>1, <1>4, <2>1, MessageForms
<1>5. CASE pc = "write"
  <2>1. Message \in {<<"command", "WRITE">>, <<"address", at>>, <<"block", buff>>}
    BY <1>5 DEF AtTx, Starts, Message
  <2> QED
    BY <1>1, <1>2, <1>5, <2>1, MessageForms
<1>6. CASE pc = "erase"
  <2>1. Message \in {<<"command", "ERASE">>, <<"scope">>}
    BY <1>6 DEF AtTx, Starts, Message
  <2> QED
    BY <2>1, MessageForms
<1>7. CASE pc = "go"
  <2>1. Message \in {<<"command", "GO">>, <<"address", 1>>}
    BY <1>7 DEF AtTx, Starts, Message
  <2> QED
    BY <1>2, <2>1, MessageForms
<1> QED
  BY <1>3, <1>4, <1>5, <1>6, <1>7 DEF AtTx

\* A message of each kind carries what its kind says.
LEMMA MessageParts ==
  ASSUME NEW m \in Messages
  PROVE  /\ m[1] = "command" => m[2] \in Commands \cup {"GET"} /\ m = <<"command", m[2]>>
         /\ m[1] = "address" => m[2] \in Pages /\ m = <<"address", m[2]>>
         /\ m[1] = "block" => m[2] \in Content /\ m = <<"block", m[2]>>
         /\ m[1] \in {"sync", "scope", "count", "damaged"} => m = <<m[1]>>
BY DEF Messages

Expectations ==
  {"nothing", "sync", "command", "list", "address", "scope", "block", "count", "data"}

LEMMA ExpectingType ==
  ASSUME TargetOK, NEW e \in Expectations, Expecting(e)
  PROVE  /\ rom'.expects = e /\ rom'.cmd = rom.cmd /\ rom'.at = rom.at
         /\ rom' \in [expects : Expectations, cmd : Commands \cup {"GET"}, at : Pages]
BY DEF Expecting, TargetOK, Expectations

LEMMA RomType ==
  ASSUME TargetOK, Rom
  PROVE  TargetOK'
<1> USE DEF TargetOK
<1>1. inbox' = None /\ reply' \in {None, "ACK", "NACK"}
  BY DEF Rom, RomSync, RomCommand, RomAddress, RomErase, RomWrite, RomCount, RomRefuses, Answer
<1>2. supported' = supported
  BY DEF Rom
<1>3. inbox # None => inbox \in Messages
  OBVIOUS
<1>4. CASE RomSync
  BY <1>1, <1>2, <1>4, ExpectingType DEF RomSync, Expectations
<1>5. CASE RomCommand
  <2>1. inbox[2] \in Commands \cup {"GET"}
    BY <1>3, <1>5, MessageParts DEF RomCommand
  <2>2. rom' \in [expects : Expectations, cmd : Commands \cup {"GET"}, at : Pages]
    BY <1>5, <2>1 DEF RomCommand, Expectations
  <2> QED
    BY <1>1, <1>2, <1>5, <2>2 DEF RomCommand, Expectations
<1>6. CASE RomAddress
  <2>1. inbox[2] \in Pages /\ 1 \in Pages
    BY <1>3, <1>6, MessageParts, BoundsAssumption DEF RomAddress, Pages
  <2>2. rom' \in [expects : Expectations, cmd : Commands \cup {"GET"}, at : Pages]
    <3>1. CASE rom.cmd = "GO"
      BY <1>6, <2>1, <3>1 DEF RomAddress, RomLeft, Expectations
    <3>2. CASE rom.cmd # "GO"
      <4>1. rom' = [rom EXCEPT !.at = inbox[2],
                               !.expects = IF rom.cmd = "WRITE" THEN "block" ELSE "count"]
        BY <1>6, <3>2 DEF RomAddress
      <4> QED
        BY <2>1, <4>1 DEF Expectations
    <3> QED
      BY <3>1, <3>2
  <2>3. app' \in BOOLEAN
    BY <1>6 DEF RomAddress
  <2> QED
    BY <1>1, <1>2, <1>6, <2>2, <2>3 DEF RomAddress, Expectations
<1>7. CASE RomErase
  <2>1. prog' \in [Pages -> Content]
    BY <1>7 DEF RomErase, Erased, Content
  <2> QED
    BY <1>1, <1>2, <1>7, <2>1, ExpectingType DEF RomErase, Expectations
<1>8. CASE RomWrite
  <2>1. inbox[2] \in Content /\ rom.at \in Pages
    BY <1>3, <1>8, MessageParts DEF RomWrite
  <2>2. prog[rom.at] \cup inbox[2] \in Content
    BY <2>1 DEF Content
  <2>3. prog' \in [Pages -> Content]
    BY <1>8, <2>2 DEF RomWrite
  <2> QED
    BY <1>1, <1>2, <1>8, <2>3, ExpectingType DEF RomWrite, Expectations
<1>9. CASE RomCount
  BY <1>1, <1>2, <1>9, ExpectingType DEF RomCount, Expectations
<1>10. CASE RomRefuses
  BY <1>1, <1>2, <1>10, ExpectingType DEF RomRefuses, Expectations
<1> QED
  BY <1>4, <1>5, <1>6, <1>7, <1>8, <1>9, <1>10 DEF Rom

\* A reset in the middle of an erase or a write leaves a flash.
LEMMA InterruptedType ==
  ASSUME TargetOK
  PROVE  Interrupted \subseteq [Pages -> Content]
<1> USE DEF TargetOK
<1>1. CASE inbox # None /\ rom.expects = "scope" /\ inbox[1] = "scope"
  <2>1. Interrupted =
          {[i \in Pages |-> IF i \in s THEN Erased ELSE prog[i]] : s \in SUBSET Pages}
    BY <1>1 DEF Interrupted
  <2>2. ASSUME NEW s \in SUBSET Pages
        PROVE  [i \in Pages |-> IF i \in s THEN Erased ELSE prog[i]] \in [Pages -> Content]
    BY DEF Erased, Content
  <2>3. ASSUME NEW f \in Interrupted PROVE f \in [Pages -> Content]
    <3>1. PICK s \in SUBSET Pages : f = [i \in Pages |-> IF i \in s THEN Erased ELSE prog[i]]
      BY <2>1
    <3> QED
      BY <2>2, <3>1
  <2> QED
    BY <2>3
<1>2. CASE inbox # None /\ rom.expects = "block" /\ inbox[1] = "block"
  <2>1. Interrupted = {[prog EXCEPT ![rom.at] = @ \cup d] : d \in SUBSET inbox[2]}
    BY <1>2 DEF Interrupted
  <2>2. inbox[2] \in Content /\ rom.at \in Pages
    BY <1>2, MessageParts
  <2>3. ASSUME NEW d \in SUBSET inbox[2]
        PROVE  [prog EXCEPT ![rom.at] = @ \cup d] \in [Pages -> Content]
    <3>1. prog[rom.at] \cup d \in Content
      BY <2>2 DEF Content
    <3> QED
      BY <3>1
  <2>4. ASSUME NEW f \in Interrupted PROVE f \in [Pages -> Content]
    <3>1. PICK d \in SUBSET inbox[2] : f = [prog EXCEPT ![rom.at] = @ \cup d]
      BY <2>1
    <3> QED
      BY <2>3, <3>1
  <2> QED
    BY <2>4
<1>3. CASE /\ ~(inbox # None /\ rom.expects = "scope" /\ inbox[1] = "scope")
           /\ ~(inbox # None /\ rom.expects = "block" /\ inbox[1] = "block")
  BY <1>3 DEF Interrupted
<1> QED
  BY <1>1, <1>2, <1>3

LEMMA TargetType == CoreInv /\ Next => TargetOK'
<1> SUFFICES ASSUME CoreInv, Next PROVE TargetOK'
  OBVIOUS
<1>1. TypeOK /\ LoopInv /\ TargetOK
  BY TypeParts DEF CoreInv
<1>2. CASE FlashDriver
  BY <1>1, <1>2, FlashSteps DEF TargetOK
<1>3. CASE BootloaderDriver
  <2>1. CASE ResetTarget
    <3>1. prog' \in [Pages -> Content]
      BY <1>1, <2>1, InterruptedType DEF ResetTarget
    <3>2. 1 \in Pages
      BY <1>1, PagesType
    <3> QED
      BY <1>1, <2>1, <3>1, <3>2 DEF ResetTarget, TargetOK
  <2>2. CASE Transmit
    <3>1. Operand \in Messages
      BY <1>1, <2>2, Where, MessageSent, MessageType DEF Transmit, Doing
    <3>2. inbox' \in Messages \cup {None}
      BY <1>1, <2>2, <3>1 DEF Transmit, TargetOK, Messages
    <3> QED
      BY <1>1, <2>2, <3>2 DEF Transmit, TargetOK
  <2>3. CASE TransmitFails \/ PollAck \/ PollNack \/ PollTimeout \/ ReceiveNothing
    BY <1>1, <2>3 DEF TransmitFails, PollAck, PollNack, PollTimeout, ReceiveNothing, TargetOK
  <2>4. CASE ReceiveList
    <3>1. supported' \subseteq Commands
      BY <2>4 DEF ReceiveList, Commands
    <3> QED
      BY <1>1, <2>4, <3>1, ExpectingType DEF ReceiveList, TargetOK, Expectations
  <2>5. CASE ReceiveData
    BY <1>1, <2>5, ExpectingType DEF ReceiveData, TargetOK, Expectations
  <2> QED
    BY <1>3, <2>1, <2>2, <2>3, <2>4, <2>5 DEF BootloaderDriver
<1>4. CASE Caller
  BY <1>1, <1>4, CallerFootprint, PagesType DEF TargetOK, RomLeft
<1>5. CASE ChipDone
  BY <1>1, <1>5 DEF ChipDone, TargetOK
<1>6. CASE Rom
  BY <1>1, <1>6, RomType
<1> QED
  BY <1>2, <1>3, <1>4, <1>5, <1>6 DEF Next, Main, Caller

LEMMA DriverData ==
  ASSUME TypeOK, LoopInv, FlashDriver \/ BootloaderDriver
  PROVE  DataOK'
<1>1. DataOK /\ ChipOK /\ TargetOK
  BY TypeParts
<1>2. UNCHANGED <<retry, match, image, coming>>
  BY FlashSteps, BootloaderSteps DEF DriverStep
<1>3. buff' \in Content
  <2>1. CASE ReadPage
    <3>1. at \in Pages
      BY <2>1, Where, PageType DEF ReadPage, Doing, AtReceive
    <3>2. cells.page[at] \in Content /\ {} \in Content /\ Bits \in Content /\ buff \in Content
      BY <1>1, <3>1 DEF ChipOK, Cells, Content, DataOK
    <3> QED
      BY <2>1, <3>2 DEF ReadPage
  <2>2. CASE ReceiveData
    BY <1>1, <2>2 DEF ReceiveData, TargetOK
  <2>3. CASE FlashDriver /\ ~ReadPage
    BY <1>1, <2>3 DEF FlashDriver, Wait, WriteEnable, SendInstruction, ReadRegister, DataOK
  <2>4. CASE BootloaderDriver /\ ~ReceiveData
    BY <1>1, <2>4
       DEF BootloaderDriver, ResetTarget, Transmit, TransmitFails, PollAck, PollNack,
           PollTimeout, ReceiveList, ReceiveNothing, DataOK
  <2> QED
    BY <2>1, <2>2, <2>3, <2>4
<1> QED
  BY <1>1, <1>2, <1>3 DEF DataOK

\* What a step between two functions does to the local variables and the programs.
DataStep ==
  \/ Leave /\ image' = image
  \/ /\ \/ retry' \in {retry, 0}
        \/ ~(retry + 1 > RetryLimit) /\ retry' = retry + 1
     /\ buff' \in {buff, Bits}
     /\ match' = match \/ Hash
     /\ image' \in {image, coming} /\ (coming' = coming \/ coming' \in Programs)

LEMMA CallerSteps ==
  ASSUME Caller
  PROVE  DataStep
<1> USE DEF DataStep, Step
<1>1. CASE Initialized
  BY <1>1 DEF Initialized
<1>2. CASE QuadEnabling
  BY <1>2 DEF QuadEnabling
<1>3. CASE Stopped
  BY <1>3 DEF Stopped
<1>4. CASE Connected
  BY <1>4 DEF Connected
<1>5. CASE Scanned
  BY <1>5 DEF Scanned, ScanEnd, Hash
<1>6. CASE Reconnected
  BY <1>6 DEF Reconnected
<1>7. CASE Gone
  BY <1>7 DEF Gone
<1>8. CASE Cleared
  BY <1>8 DEF Cleared
<1>9. CASE ProgramDone
  BY <1>9 DEF ProgramDone
<1>10. CASE ReadBack
  BY <1>10 DEF ReadBack, Stored
<1>11. CASE Verified
  BY <1>11 DEF Verified, Hash
<1>12. CASE Entered
  BY <1>12 DEF Entered, CopyFails
<1>13. CASE EraseDone
  BY <1>13 DEF EraseDone, CopyFails
<1>14. CASE Loaded
  BY <1>14 DEF Loaded
<1>15. CASE WriteDone
  BY <1>15 DEF WriteDone
<1>16. CASE Reentered
  BY <1>16 DEF Reentered, CopyFails
<1>17. CASE Update
  BY <1>17 DEF Update
<1>18. CASE Restore
  BY <1>18 DEF Restore
<1> QED
  BY <1>1, <1>2, <1>3, <1>4, <1>5, <1>6, <1>7, <1>8, <1>9,
     <1>10, <1>11, <1>12, <1>13, <1>14, <1>15, <1>16, <1>17, <1>18
  DEF Caller, Booting, Storing, Copying

LEMMA CallerData ==
  ASSUME TypeOK, Caller
  PROVE  DataOK'
<1> DataOK /\ RetryLimit \in Nat
  BY TypeParts, BoundsAssumption
<1>1. {} \in Content /\ Bits \in Content
  BY DEF Content
<1>2. CASE Leave /\ image' = image
  BY <1>1, <1>2 DEF Leave, DataOK, Erased
<1>3. CASE ~(Leave /\ image' = image)
  <2>1. /\ \/ retry' \in {retry, 0}
           \/ ~(retry + 1 > RetryLimit) /\ retry' = retry + 1
        /\ buff' \in {buff, Bits}
        /\ match' = match \/ Hash
        /\ image' \in {image, coming} /\ (coming' = coming \/ coming' \in Programs)
    BY <1>3, CallerSteps DEF DataStep
  <2>2. retry' \in 0..RetryLimit
    BY <2>1 DEF DataOK
  <2>3. match' \in BOOLEAN
    BY <2>1 DEF DataOK, Hash
  <2> QED
    BY <1>1, <2>1, <2>2, <2>3 DEF DataOK
<1> QED
  BY <1>2, <1>3

LEMMA CallerRest ==
  ASSUME TypeOK, Caller
  PROVE  RestOK'
<1> RestOK /\ MaxUnnoticed \in Nat
  BY TypeParts, BoundsAssumption
<1> USE DEF RestOK, Step, bsp_updater_init, bsp_supervisor_init
<1>1. CASE Initialized
  BY <1>1 DEF Initialized
<1>2. CASE QuadEnabling
  BY <1>2 DEF QuadEnabling
<1>3. CASE Stopped
  BY <1>3 DEF Stopped
<1>4. CASE Connected
  BY <1>4 DEF Connected, Leave, RomLeft
<1>5. CASE Scanned
  BY <1>5 DEF Scanned, ScanEnd, Leave
<1>6. CASE Reconnected
  BY <1>6 DEF Reconnected
<1>7. CASE Gone
  BY <1>7 DEF Gone, Leave, supervisor_init
<1>8. CASE Cleared
  BY <1>8 DEF Cleared
<1>9. CASE ProgramDone
  BY <1>9 DEF ProgramDone
<1>10. CASE ReadBack
  BY <1>10 DEF ReadBack, Stored, Leave
<1>11. CASE Verified
  BY <1>11 DEF Verified, Leave
<1>12. CASE Entered
  BY <1>12 DEF Entered, CopyFails, Leave
<1>13. CASE EraseDone
  BY <1>13 DEF EraseDone, CopyFails, Leave
<1>14. CASE Loaded
  BY <1>14 DEF Loaded
<1>15. CASE WriteDone
  BY <1>15 DEF WriteDone
<1>16. CASE Reentered
  BY <1>16 DEF Reentered, CopyFails, Leave
<1>17. CASE Update
  BY <1>17 DEF Update
<1>18. CASE Restore
  BY <1>18 DEF Restore
<1> QED
  BY <1>1, <1>2, <1>3, <1>4, <1>5, <1>6, <1>7, <1>8, <1>9,
     <1>10, <1>11, <1>12, <1>13, <1>14, <1>15, <1>16, <1>17, <1>18
  DEF Caller, Booting, Storing, Copying

LEMMA DriverRest ==
  ASSUME TypeOK, FlashDriver \/ BootloaderDriver
  PROVE  RestOK'
<1>1. RestOK /\ {MaxFlashFaults, MaxUnnoticed, MaxLineFaults} \subseteq Nat
  BY TypeParts, BoundsAssumption
<1>2. UNCHANGED <<board, status, task>>
  BY FlashSteps, BootloaderSteps DEF DriverStep
<1>3. UNCHANGED faults \/ FlashFault \/ UnnoticedFault \/ LineFault
  <2>1. CASE FlashDriver
    BY <2>1 DEF FlashDriver, Wait, WriteEnable, SendInstruction, ReadRegister, ReadPage
  <2>2. CASE BootloaderDriver
    BY <2>2
       DEF BootloaderDriver, ResetTarget, Transmit, TransmitFails, PollAck, PollNack,
           PollTimeout, ReceiveList, ReceiveData, ReceiveNothing
  <2> QED
    BY <2>1, <2>2
<1>4. /\ flashFaults' \in 0..MaxFlashFaults /\ unnoticed' \in 0..MaxUnnoticed
      /\ lineFaults' \in 0..MaxLineFaults
  BY <1>1, <1>3 DEF FlashFault, UnnoticedFault, LineFault, RestOK
<1> QED
  BY <1>1, <1>2, <1>4 DEF RestOK

LEMMA TypeStep == CoreInv /\ [Next]_vars => TypeOK'
<1> SUFFICES ASSUME CoreInv, [Next]_vars PROVE TypeOK'
  OBVIOUS
<1>1. TypeOK /\ LoopInv
  BY DEF CoreInv
<1>2. CASE UNCHANGED vars
  <2>1. ThreadOK'
    BY <1>1, <1>2, OthersType
  <2> QED
    BY <1>1, <1>2, <2>1, TypeParts, TypePartsNext DEF ChipOK, TargetOK, DataOK, RestOK
<1>3. CASE Next
  <2>1. ThreadOK' /\ DataOK' /\ RestOK'
    <3>1. CASE FlashDriver \/ BootloaderDriver
      BY <1>1, <3>1, FlashSteps, BootloaderSteps, DriverType, DriverData, DriverRest
    <3>2. CASE Caller
      BY <1>1, <3>2, CallerType, CallerData, CallerRest
    <3>3. CASE ChipDone \/ Rom
      <4>1. UNCHANGED <<pc, step, ret, loop, job, board, faults>>
        BY <3>3 DEF ChipDone, Rom
      <4>2. ThreadOK'
        BY <1>1, <4>1, OthersType
      <4> QED
        BY <1>1, <4>1, <4>2, TypeParts DEF DataOK, RestOK
    <3> QED
      BY <1>3, <3>1, <3>2, <3>3 DEF Next, Main, Caller
  <2> QED
    BY <1>3, <2>1, ChipType, TargetType, TypePartsNext
<1> QED
  BY <1>2, <1>3

-----------------------------------------------------------------------------
(* Where the main thread comes from                                        *)

\* For each label the steps between two functions that lead to it.
ToStopped   == (Returned("init") /\ ~ret) \/ pc = "stopped"
ToQuad      == \/ Returned("init") /\ ret /\ at' = 1
               \/ Returned("quad") /\ at < 3 /\ at' = at + 1
ToConnect   == Returned("quad") /\ ~(at < 3) /\ at' = 1
ToScan      == \/ Returned("connect") /\ ret /\ at' = 1 /\ UNCHANGED local
               \/ Returned("scan") /\ ret /\ at < Len(image) /\ at' = at + 1 /\ Hash
               \/ Returned("reconnect") /\ at' = at /\ UNCHANGED local
ToReconnect == Returned("scan") /\ ~ret /\ at' = at /\ UNCHANGED local
ToGo        == \/ Returned("scan") /\ ret /\ at = Len(image) /\ match /\ buff = image[at]
               \/ Returned("write") /\ ret /\ ~(at < Len(image)) /\ UNCHANGED buff
ToIdle      == /\ \E l \in {"connect", "scan", "go", "readback", "verify", "enter", "erase",
                            "reenter"} : Returned(l)
               /\ image' = image
               /\ mode' = "SUPERVISOR" =>
                    mode = "SUPERVISOR" \/ (pc = "go" /\ spi' = "slave" /\ status' = "OK")
ToClear     == /\ pc = "idle" /\ at' = 1 /\ coming' \in Programs /\ image' = image
               /\ unnoticed' = MaxUnnoticed /\ mode' = "UPDATER"
ToProgram   == \/ Returned("clear") /\ at' = 1
               \/ Returned("program") /\ ~ret /\ at' = at
               \/ /\ Returned("readback")
                  /\ \/ buff = coming[at] /\ at < Len(coming) /\ at' = at + 1
                     \/ at' = at
ToReadBack  == Returned("program") /\ ret /\ at' = at
ToVerify    == \/ pc = "idle" /\ at' = 1 /\ status = "PROGRAM_INVALID"
               \/ Returned("verify") /\ ~ret /\ at' = at /\ UNCHANGED local
               \/ Returned("verify") /\ ret /\ at < Len(image) /\ at' = at + 1 /\ Hash
ToEnter     == /\ \/ /\ Returned("readback") /\ buff = coming[at] /\ ~(at < Len(coming))
                     /\ image' = coming
                  \/ /\ Returned("verify") /\ ret /\ at = Len(image)
                     /\ match /\ buff = image[at] /\ image' = image
               /\ at' = 1 /\ spi' = "master" /\ mode' = "UPDATER"
ToErase     == Returned("enter") /\ ret /\ at' = 1
ToLoad      == \/ Returned("erase") /\ ret /\ at' = 1
               \/ Returned("load") /\ ~ret /\ at' = at
               \/ Returned("write") /\ ret /\ at < Len(image) /\ at' = at + 1
               \/ Returned("reenter") /\ at' = at
ToWrite     == Returned("load") /\ ret /\ at' = at /\ UNCHANGED buff
ToReenter   == Returned("write") /\ ~ret /\ at' = at /\ UNCHANGED buff

Arrives ==
  /\ pc' \in Labels \ {"init"}
  /\ pc' = "stopped" => ToStopped
  /\ pc' = "quad" => ToQuad
  /\ pc' = "connect" => ToConnect
  /\ pc' = "scan" => ToScan
  /\ pc' = "reconnect" => ToReconnect
  /\ pc' = "go" => ToGo
  /\ pc' = "idle" => ToIdle
  /\ pc' = "clear" => ToClear
  /\ pc' = "program" => ToProgram
  /\ pc' = "readback" => ToReadBack
  /\ pc' = "verify" => ToVerify
  /\ pc' = "enter" => ToEnter
  /\ pc' = "erase" => ToErase
  /\ pc' = "load" => ToLoad
  /\ pc' = "write" => ToWrite
  /\ pc' = "reenter" => ToReenter

\* What the steps between two functions have in common.
Passing ==
  /\ IF pc' \in {"idle", "stopped"} THEN step' = 0 ELSE step' = 1 /\ ~ret'
  /\ pc' \notin {"idle", "clear", "enter"} => UNCHANGED <<image, coming>>
  /\ pc' # "clear" => UNCHANGED unnoticed
  /\ pc' # "idle" => UNCHANGED <<rom, inbox, reply>>
  /\ pc' \notin {"idle", "enter"} => UNCHANGED spi
  /\ pc' \notin {"idle", "enter", "clear"} => UNCHANGED mode

LEMMA Arrival ==
  ASSUME TypeOK, Caller
  PROVE  Arrives /\ Passing
<1> USE DEF Arrives, Returned, Step, Goto, Labels
<1>1. CASE Initialized
  <2>1. Passing
    BY <1>1 DEF Passing, Initialized, Rest
  <2>2. Arrives
    BY <1>1 DEF Initialized, Rest, ToQuad, ToStopped
  <2> QED
    BY <2>1, <2>2
<1>2. CASE QuadEnabling
  <2>1. Passing
    BY <1>2 DEF Passing, QuadEnabling
  <2>2. Arrives
    BY <1>2 DEF QuadEnabling, ToQuad, ToConnect
  <2> QED
    BY <2>1, <2>2
<1>3. CASE Stopped
  <2>1. Passing
    <3>1. pc = "stopped" /\ step = 0 /\ UNCHANGED vars
      BY <1>3 DEF Stopped, TypeOK
    <3> QED
      BY <3>1 DEF Passing
  <2>2. Arrives
    BY <1>3 DEF Stopped, ToStopped
  <2> QED
    BY <2>1, <2>2
<1>4. CASE Connected
  <2>1. Passing
    BY <1>4 DEF Passing, Connected, Leave, Rest
  <2>2. Arrives
    BY <1>4 DEF Connected, Leave, Rest, ToScan, ToIdle
  <2> QED
    BY <2>1, <2>2
<1>5. CASE Scanned
  <2>1. Passing
    BY <1>5 DEF Passing, Scanned, ScanEnd, Leave, Rest, Hash
  <2>2. Arrives
    BY <1>5 DEF Scanned, ScanEnd, Leave, Rest, ToScan, ToReconnect, ToGo, ToIdle, Hash
  <2> QED
    BY <2>1, <2>2
<1>6. CASE Reconnected
  <2>1. Passing
    BY <1>6 DEF Passing, Reconnected
  <2>2. Arrives
    BY <1>6 DEF Reconnected, ToScan
  <2> QED
    BY <2>1, <2>2
<1>7. CASE Gone
  <2>1. Passing
    BY <1>7 DEF Passing, Gone, Leave, Rest
  <2>2. Arrives
    BY <1>7 DEF Gone, Leave, Rest, ToIdle, supervisor_init, bsp_supervisor_init
  <2> QED
    BY <2>1, <2>2
<1>8. CASE Cleared
  <2>1. Passing
    BY <1>8 DEF Passing, Cleared
  <2>2. Arrives
    BY <1>8 DEF Cleared, ToProgram
  <2> QED
    BY <2>1, <2>2
<1>9. CASE ProgramDone
  <2>1. Passing
    BY <1>9 DEF Passing, ProgramDone
  <2>2. Arrives
    BY <1>9 DEF ProgramDone, ToProgram, ToReadBack
  <2> QED
    BY <2>1, <2>2
<1>10. CASE ReadBack
  <2>1. Passing
    BY <1>10 DEF Passing, ReadBack, Stored, Leave, Rest, Programmed, bsp_updater_init
  <2>2. Arrives
    BY <1>10 DEF ReadBack, Stored, Leave, Rest, ToProgram, ToEnter, ToIdle, Programmed, bsp_updater_init
  <2> QED
    BY <2>1, <2>2
<1>11. CASE Verified
  <2>1. Passing
    BY <1>11 DEF Passing, Verified, Leave, Rest, bsp_updater_init
  <2>2. Arrives
    BY <1>11 DEF Verified, Leave, Rest, ToVerify, ToEnter, ToIdle, bsp_updater_init
  <2> QED
    BY <2>1, <2>2
<1>12. CASE Entered
  <2>1. Passing
    BY <1>12 DEF Passing, Entered, CopyFails, Leave, Rest
  <2>2. Arrives
    BY <1>12 DEF Entered, CopyFails, Leave, Rest, ToErase, ToIdle
  <2> QED
    BY <2>1, <2>2
<1>13. CASE EraseDone
  <2>1. Passing
    BY <1>13 DEF Passing, EraseDone, CopyFails, Leave, Rest
  <2>2. Arrives
    BY <1>13 DEF EraseDone, CopyFails, Leave, Rest, ToLoad, ToIdle
  <2> QED
    BY <2>1, <2>2
<1>14. CASE Loaded
  <2>1. Passing
    BY <1>14 DEF Passing, Loaded
  <2>2. Arrives
    BY <1>14 DEF Loaded, ToLoad, ToWrite
  <2> QED
    BY <2>1, <2>2
<1>15. CASE WriteDone
  <2>1. Passing
    BY <1>15 DEF Passing, WriteDone
  <2>2. Arrives
    BY <1>15 DEF WriteDone, ToReenter, ToLoad, ToGo
  <2> QED
    BY <2>1, <2>2
<1>16. CASE Reentered
  <2>1. Passing
    BY <1>16 DEF Passing, Reentered, CopyFails, Leave, Rest
  <2>2. Arrives
    BY <1>16 DEF Reentered, CopyFails, Leave, Rest, ToLoad, ToIdle
  <2> QED
    BY <2>1, <2>2
<1>17. CASE Update
  <2>1. Passing
    BY <1>17 DEF Passing, Update
  <2>2. Arrives
    BY <1>17 DEF Update, ToClear
  <2> QED
    BY <2>1, <2>2
<1>18. CASE Restore
  <2>1. Passing
    BY <1>18 DEF Passing, Restore
  <2>2. Arrives
    BY <1>18 DEF Restore, ToVerify
  <2> QED
    BY <2>1, <2>2
<1> QED
  BY <1>1, <1>2, <1>3, <1>4, <1>5, <1>6, <1>7, <1>8, <1>9,
     <1>10, <1>11, <1>12, <1>13, <1>14, <1>15, <1>16, <1>17, <1>18
  DEF Caller, Booting, Storing, Copying

-----------------------------------------------------------------------------
(* The chip                                                                *)

\* Labels and pages after a step of a driver.
LEMMA SameChip ==
  ASSUME UNCHANGED chip
  PROVE  (Busy <=> Busy') /\ Settled' = Settled /\ work' = work /\ wel' = wel
BY DEF Busy, Settled

LEMMA ChipEnds ==
  ASSUME ChipDone
  PROVE  ~Busy' /\ Busy /\ Settled' = Settled
BY DEF ChipDone, Busy, Settled

LEMMA IdleChip == ~Busy => Settled = cells
BY DEF Settled

LEMMA SettledType == TypeOK => Settled \in Cells
BY DEF TypeOK, Settled, Busy, Works

\* What an instruction does: nothing, or what it is for.
LEMMA SendEffect ==
  ASSUME TypeOK, LoopInv, SendInstruction
  PROVE  \/ /\ Settled' = Settled /\ work' = work /\ (Busy <=> Busy')
            /\ step' = step + 1 => Busy \/ ~wel \/ (Operand = "program" /\ ~cells.quad)
         \/ ~Busy /\ Busy' /\ work'.op = Operand /\ Settled' = Effect(Operand)
<1>1. Obey \/ (UNCHANGED work /\ step' = 0)
  BY DEF SendInstruction, Proceed, Return
<1>2. cells' = cells /\ step \in Nat \ {0} /\ Doing("send")
  BY DEF SendInstruction, Doing, TypeOK
<1> DEFINE new == [op |-> Operand, then |-> Effect(Operand)]
<1>3. new # None
  BY <1>2, EffectType, WorkIsNotNone DEF Works
<1>4. Obey => work' = work \/ (~Busy /\ work' = new)
  BY DEF Obey
<1>5. Obey /\ work' = work => Busy \/ ~wel \/ (Operand = "program" /\ ~cells.quad)
  BY <1>3 DEF Obey, Busy
<1> HIDE DEF new
<1>6. CASE work' = work
  <2>1. Settled' = Settled /\ (Busy <=> Busy')
    BY <1>2, <1>6 DEF Settled, Busy
  <2>2. step' = step + 1 => Obey
    BY <1>1, <1>2
  <2> QED
    BY <1>6, <1>5, <2>1, <2>2
<1>7. CASE work' # work
  <2>1. ~Busy /\ work' = new
    BY <1>1, <1>7, <1>4
  <2>2. Busy'
    BY <1>3, <2>1 DEF Busy
  <2> QED
    BY <2>1, <2>2 DEF Settled, new
<1> QED
  BY <1>6, <1>7

\* Where the bootloader driver is at work.
LEMMA BootloaderPlace ==
  ASSUME TypeOK, BootloaderDriver
  PROVE  /\ step # 0
         /\ Starts \/ pc \in {"scan", "write", "erase", "go"}
<1>1. Doing("reset") \/ Doing("tx") \/ Doing("rx") \/ Doing("list") \/ Doing("data")
  BY DEF BootloaderDriver, ResetTarget, Transmit, TransmitFails, PollAck, PollNack,
         PollTimeout, ReceiveList, ReceiveData, ReceiveNothing
<1>2. step # 0
  BY <1>1, BootloaderSteps DEF DriverStep
<1>3. AtReset \/ AtTx \/ AtRx \/ AtList \/ AtData
  BY <1>1, <1>2, Where
<1> QED
  BY <1>2, <1>3 DEF AtReset, AtTx, AtRx, AtList, AtData

\* A driver's step keeps what is said of the label and the page alone.
LEMMA LoopStep == CoreInv /\ [Next]_vars => LoopInv'
<1> SUFFICES ASSUME CoreInv, [Next]_vars PROVE LoopInv'
  OBVIOUS
<1>1. TypeOK /\ LoopInv
  BY DEF CoreInv
<1>2. /\ Len(image) \in Pages /\ Len(coming) \in Pages
      /\ \A p \in Programs : Len(p) \in Pages
  BY <1>1, PagesType, ProgramType
<1>3. /\ 1 <= Len(image) /\ 1 <= Len(coming)
      /\ \A p \in Programs : 1 <= Len(p)
  BY <1>2 DEF Pages
<1>4. CASE UNCHANGED <<pc, at, image, coming>>
  BY <1>1, <1>4 DEF LoopInv
<1>5. CASE FlashDriver \/ BootloaderDriver
  BY <1>1, <1>4, <1>5, FlashSteps, BootloaderSteps DEF DriverStep
<1>6. CASE ChipDone \/ Rom
  BY <1>4, <1>6 DEF ChipDone, Rom
<1>7. CASE Caller
  <2> USE <1>1, <1>3 DEF LoopInv, Returned, Step, Goto, Rest
  <2>1. CASE Booting
    <3>1. CASE Scanned
      <4>1. at \in Pages
        BY <3>1, PagesType DEF Scanned
      <4> QED
        BY <1>2, <3>1, <4>1 DEF Scanned, ScanEnd, Leave, Pages
    <3>2. CASE Booting /\ ~Scanned
      BY <2>1, <3>2 DEF Booting, Initialized, QuadEnabling, Stopped, Connected, Reconnected,
                        Gone, Leave
    <3> QED
      BY <2>1, <3>1, <3>2
  <2>2. CASE Storing
    <3>1. CASE ReadBack
      <4>1. at \in Pages
        BY <3>1, PagesType DEF ReadBack
      <4> QED
        BY <1>2, <3>1, <4>1 DEF ReadBack, Stored, Leave, Pages
    <3>2. CASE Cleared \/ ProgramDone
      BY <3>2 DEF Cleared, ProgramDone
    <3> QED
      BY <2>2, <3>1, <3>2 DEF Storing
  <2>3. CASE Copying
    <3>1. CASE Verified
      <4>1. at \in Pages
        BY <3>1, PagesType DEF Verified
      <4> QED
        BY <1>2, <3>1, <4>1 DEF Verified, Leave, Pages
    <3>2. CASE WriteDone
      <4>1. at \in Pages
        BY <3>2, PagesType DEF WriteDone
      <4> QED
        BY <1>2, <3>2, <4>1 DEF WriteDone, Pages
    <3>3. CASE Entered \/ EraseDone \/ Loaded \/ Reentered
      BY <3>3 DEF Entered, EraseDone, Loaded, Reentered, CopyFails, Leave
    <3> QED
      BY <2>3, <3>1, <3>2, <3>3 DEF Copying
  <2>4. CASE Update
    BY <2>4 DEF Update
  <2>5. CASE Restore
    BY <2>5 DEF Restore
  <2> QED
    BY <1>7, <2>1, <2>2, <2>3, <2>4, <2>5 DEF Caller
<1> QED
  BY <1>4, <1>5, <1>6, <1>7 DEF Next, Main, Caller

\* The first write of the quad enable bit meets an idle chip whose latch is set.
LEMMA QuadStep == CoreInv /\ [Next]_vars => QuadInv'
<1> SUFFICES ASSUME CoreInv, [Next]_vars PROVE QuadInv'
  OBVIOUS
<1>1. TypeOK /\ LoopInv /\ QuadInv
  BY DEF CoreInv
<1>2. CASE UNCHANGED <<chip, pc, step, ret>>
  BY <1>1, <1>2, SameChip DEF QuadInv
<1>3. CASE FlashDriver
  <2>1. DriverStep
    BY <1>1, <1>3, FlashSteps
  <2>2. pc = "init" => step \in 1..11 /\ Steps = 11
    BY <2>1 DEF DriverStep, Steps, Starts
  <2>3. CASE WriteEnable
    <3>1. AtEnable /\ UNCHANGED <<cells, work>> /\ (Busy <=> Busy') /\ Settled' = Settled
      BY <1>1, <2>3, Where DEF WriteEnable, Doing, Busy, Settled
    <3>2. pc' = "init" /\ step' = 8 => wel'
      <4>1. (~Busy => wel') \/ step' = 0
        BY <2>3 DEF WriteEnable, Return
      <4>2. pc = "init" => ~Busy
        BY <1>1, <3>1 DEF QuadInv, AtEnable
      <4> QED
        BY <2>1, <4>1, <4>2 DEF DriverStep
    <3> QED
      BY <1>1, <2>1, <2>2, <3>1, <3>2 DEF QuadInv, DriverStep, AtEnable
  <2>4. CASE SendInstruction
    <3>1. AtSend
      BY <1>1, <2>4, Where DEF SendInstruction, Doing
    <3>2. Operand = IF pc = "clear" THEN "erase" ELSE IF pc = "program" THEN "program" ELSE "quad"
      BY <1>1, <2>4, InstructionSent DEF SendInstruction
    <3>3. Effect(Operand).quad = (cells.quad \/ Operand = "quad")
      <4>1. cells \in Cells
        BY <1>1 DEF TypeOK
      <4> QED
        BY <3>2, <4>1 DEF Effect, Cells
    <3>4. \/ /\ Settled' = Settled /\ work' = work /\ (Busy <=> Busy')
             /\ step' = step + 1 => Busy \/ ~wel \/ (Operand = "program" /\ ~cells.quad)
          \/ ~Busy /\ Busy' /\ work'.op = Operand /\ Settled' = Effect(Operand)
      BY <1>1, <2>4, SendEffect
    <3>5. CASE pc = "init"
      <4>1. step = 8 /\ ~Busy /\ wel /\ Operand = "quad" /\ pc' = "init"
        BY <1>1, <2>1, <3>1, <3>2, <3>5 DEF QuadInv, AtSend, DriverStep
      <4>2. step' = 9 \/ (step' = 0 /\ ret' = FALSE)
        <5>1. step = 8 /\ Steps = 11
          BY <2>2, <3>5, <4>1
        <5>2. step # Steps
          BY ONLY <5>1
        <5>3. step' = step + 1 \/ (step' = 0 /\ ret' = FALSE)
          BY <2>1, <5>2 DEF DriverStep
        <5>4. step' = step + 1 => step' = 9
          BY ONLY <5>1
        <5> QED
          BY <5>3, <5>4
      <4>3. step' = 9 => Settled'.quad
        <5>1. Effect(Operand).quad
          BY <3>3, <4>1
        <5>2. step' = 9 => step' = step + 1
          BY <4>1
        <5>3. step' = step + 1 => Settled' = Effect(Operand)
          BY <3>4, <4>1, Zenon
        <5> QED
          BY <5>1, <5>2, <5>3, Zenon
      <4>4. Busy' => work'.op = "quad"
        BY <3>4, <4>1
      <4> QED
        BY <4>1, <4>2, <4>3, <4>4 DEF QuadInv
    <3>6. CASE pc # "init"
      <4>1. Settled.quad /\ pc' # "init" /\ (~Busy => Settled = cells)
        BY <1>1, <2>1, <3>1, <3>6, IdleChip DEF QuadInv, AtSend, DriverStep
      <4>2. Settled'.quad
        BY <3>3, <3>4, <4>1
      <4> QED
        BY <1>1, <2>1, <3>1, <3>2, <3>4, <3>6, <4>1, <4>2 DEF QuadInv, DriverStep, AtSend
    <3> QED
      BY <3>5, <3>6
  <2>5. CASE Wait \/ ReadRegister \/ ReadPage
    <3>1. UNCHANGED chip
      BY <2>5 DEF Wait, ReadRegister, ReadPage
    <3>2. AtWait \/ AtRegister \/ AtReceive
      <4>1. Doing("wait") \/ Doing("register") \/ Doing("receive")
        BY <2>5 DEF Wait, ReadRegister, ReadPage
      <4>2. step # 0
        BY <2>1 DEF DriverStep
      <4> QED
        BY <1>1, <4>1, <4>2, Where
    <3>3. (Busy <=> Busy') /\ Settled' = Settled /\ work' = work /\ wel' = wel
      BY <3>1, SameChip
    <3> QED
      BY <1>1, <2>1, <2>2, <3>2, <3>3 DEF QuadInv, DriverStep, AtWait, AtRegister, AtReceive
  <2> QED
    BY <1>3, <2>3, <2>4, <2>5 DEF FlashDriver
<1>4. CASE BootloaderDriver
  <2>1. DriverStep /\ UNCHANGED chip
    BY <1>1, <1>4, BootloaderSteps
  <2>2. pc \notin {"init", "quad", "stopped"}
    BY <1>1, <1>4, BootloaderPlace DEF Starts
  <2>3. (Busy <=> Busy') /\ Settled' = Settled /\ work' = work /\ wel' = wel
    BY <2>1, SameChip
  <2>4. pc' = pc /\ (step' = 1 => step = 0)
    BY <2>1 DEF DriverStep
  <2> QED
    BY <1>1, <2>1, <2>2, <2>3, <2>4 DEF QuadInv, DriverStep
<1>5. CASE ChipDone
  <2>1. UNCHANGED <<pc, step, ret>>
    BY <1>5 DEF ChipDone
  <2>2. ~Busy' /\ Busy /\ Settled' = Settled
    BY <1>5, ChipEnds
  <2> QED
    BY <1>1, <2>1, <2>2 DEF QuadInv
<1>6. CASE Rom
  BY <1>2, <1>6 DEF Rom
<1>7. CASE Caller
  <2>1. UNCHANGED chip /\ (Busy <=> Busy') /\ Settled' = Settled /\ work' = work
    BY <1>7, CallerFootprint, SameChip
  <2>2. /\ pc' # "init"
        /\ pc' = "stopped" \/ ((pc = "init" => ret /\ step = 0) /\ pc # "stopped")
        /\ (pc' = "connect" => pc = "quad") /\ (pc' = "quad" => pc \in {"init", "quad"})
    BY <1>1, <1>7, Arrival
       DEF Arrives, Labels, Returned, ToStopped, ToQuad, ToConnect, ToScan, ToReconnect, ToGo,
           ToIdle, ToClear, ToProgram, ToReadBack, ToVerify, ToEnter, ToErase, ToLoad, ToWrite,
           ToReenter
  <2> QED
    BY <1>1, <2>1, <2>2 DEF QuadInv
<1> QED
  BY <1>2, <1>3, <1>4, <1>5, <1>6, <1>7 DEF Next, Main, Caller

-----------------------------------------------------------------------------
(* When the chip is idle                                                   *)

\* Of the failures that nobody notices there is one between two updates.
LEMMA OneFault ==
  ASSUME MaxUnnoticed <= 1, TypeOK, UnnoticedFault
  PROVE  Clean /\ ~Clean'
<1>1. MaxUnnoticed \in Nat /\ unnoticed \in 0..MaxUnnoticed
  BY BoundsAssumption DEF TypeOK
<1> QED
  BY <1>1 DEF UnnoticedFault, Clean

LEMMA FaultKinds ==
  ASSUME MaxUnnoticed <= 1, TypeOK, FlashFault
  PROVE  /\ Clean' => Clean
         /\ Ignored => Clean /\ ~Clean'
<1>1. CASE Ignored
  BY <1>1, OneFault DEF FlashFault
<1>2. CASE ~Ignored
  BY <1>2 DEF FlashFault, Clean
<1> QED
  BY <1>1, <1>2

LEMMA CleanKept ==
  ASSUME UNCHANGED unnoticed
  PROVE  Clean' <=> Clean
BY DEF Clean

\* A wait ends with an idle chip, or with the failure that leaves no other.
LEMMA WaitEnds ==
  ASSUME MaxUnnoticed <= 1, TypeOK, Wait
  PROVE  /\ AtWait /\ Proceed /\ UNCHANGED chip
         /\ \/ ~Busy /\ (Clean' <=> Clean)
            \/ Clean /\ ~Clean'
<1>1. AtWait
  <2>1. Doing("wait") /\ step # 0
    BY DEF Wait, Doing, TypeOK
  <2> QED
    BY <2>1, Where
<1>2. Proceed /\ UNCHANGED chip
  BY DEF Wait
<1>3. (~Busy /\ UNCHANGED unnoticed) \/ UnnoticedFault
  BY DEF Wait
<1> QED
  BY <1>1, <1>2, <1>3, OneFault, CleanKept

LEMMA IdleStep ==
  ASSUME MaxUnnoticed <= 1, IInv, [Next]_vars
  PROVE  IdleInv'
<1>1. TypeOK /\ LoopInv /\ QuadInv /\ IdleInv
  BY DEF IInv, CoreInv
<1>2. CASE UNCHANGED <<chip, pc, step, ret, unnoticed>>
  BY <1>1, <1>2, SameChip, CleanKept DEF IdleInv
<1>3. CASE FlashDriver
  <2>1. DriverStep
    BY <1>1, <1>3, FlashSteps
  <2>2. CASE Wait
    <3>1. /\ AtWait /\ (Busy <=> Busy')
          /\ \/ ~Busy /\ (Clean' <=> Clean)
             \/ Clean /\ ~Clean'
      BY <1>1, <2>2, WaitEnds, SameChip
    <3>2. pc' = pc /\ step' \in {2, 7, 0} /\ (step' = 2 => step = 1)
      <4>1. AtWait /\ TypeOK /\ Proceed /\ pc' = pc /\ step # 0
        BY <1>1, <2>1, <2>2, <3>1 DEF Wait, DriverStep
      <4>2. (step < Steps /\ step' = step + 1) \/ step' = 0
        BY <4>1, Proceeding
      <4>3. pc \in {"clear", "program"} => Steps = 4
        BY DEF Steps, Starts
      <4>4. step \in {1, 6} \/ (step = 4 /\ Steps = 4)
        BY <4>1, <4>3 DEF AtWait
      <4>5. step' \in {2, 7, 0} /\ (step' = 2 => step = 1)
        BY ONLY <4>2, <4>4
      <4> QED
        BY <4>1, <4>5
    <3> QED
      BY <1>1, <3>1, <3>2 DEF IdleInv, AtWait
  <2>3. CASE WriteEnable
    <3>1. AtEnable /\ (Busy <=> Busy')
      BY <1>1, <2>3, Where DEF WriteEnable, Doing, Busy
    <3>2. /\ Clean' => Clean
          /\ step' = 3 => (~Busy => wel')
      <4>1. \/ UNCHANGED unnoticed /\ (~Busy => wel')
            \/ step' = 0 /\ FlashFault
        BY <2>3 DEF WriteEnable, Return
      <4> QED
        BY <1>1, <4>1, CleanKept, FaultKinds
    <3>3. pc' = pc /\ step' \in {3, 8, 0}
      <4>1. pc' = pc /\ (step' = step + 1 \/ step' = 0)
        BY <2>1 DEF DriverStep
      <4> QED
        BY <3>1, <4>1 DEF AtEnable
    <3> QED
      BY <1>1, <3>1, <3>2, <3>3 DEF IdleInv, AtEnable
  <2>4. CASE SendInstruction
    <3>1. AtSend
      BY <1>1, <2>4, Where DEF SendInstruction, Doing
    <3>2. pc' = pc /\ step' \in {4, 9, 0} /\ (step' = 9 => pc = "init")
      <4>1. pc' = pc /\ (step' = step + 1 \/ step' = 0)
        BY <2>1 DEF DriverStep
      <4> QED
        BY <3>1, <4>1 DEF AtSend
    <3>3. pc \in {"clear", "program"} /\ step' = 0 =>
             ~ret' /\ (pc = "clear" => ~Clean')
      <4>1. Proceed \/ (~ret' /\ FlashFault)
        BY <2>4 DEF SendInstruction, Return
      <4>2. pc = "clear" => Ignored
        BY DEF Ignored
      <4>3. pc \in {"clear", "program"} /\ Proceed => step' # 0
        <5>1. ASSUME pc \in {"clear", "program"}, Proceed
              PROVE  step' # 0
          <6>1. step = 3 /\ Len(Code) = 4
            BY <3>1, <5>1, ChangeCode DEF AtSend
          <6> QED
            BY <5>1, <6>1 DEF Proceed, Return
        <5> QED
          BY <5>1
      <4>4. FlashFault /\ Ignored => ~Clean'
        BY <1>1, FaultKinds
      <4> QED
        BY ONLY <4>1, <4>2, <4>3, <4>4
    <3> QED
      BY <3>1, <3>2, <3>3 DEF IdleInv, AtSend
  <2>5. CASE ReadRegister
    <3>1. AtRegister /\ pc' = pc
      BY <1>1, <2>1, <2>5, Where DEF ReadRegister, Doing, DriverStep
    <3> QED
      BY <3>1 DEF IdleInv, AtRegister
  <2>6. CASE ReadPage
    <3>1. AtReceive /\ pc' = pc /\ (Busy <=> Busy')
      BY <1>1, <2>1, <2>6, Where, SameChip DEF ReadPage, Doing, DriverStep
    <3> QED
      BY <1>1, <3>1 DEF IdleInv, AtReceive
  <2> QED
    BY <1>3, <2>2, <2>3, <2>4, <2>5, <2>6 DEF FlashDriver
<1>4. CASE BootloaderDriver
  <2>1. pc' = pc /\ step # 0 /\ UNCHANGED chip /\ UNCHANGED unnoticed
    BY <1>1, <1>4, BootloaderSteps DEF DriverStep
  <2>2. Starts \/ pc \in {"scan", "write", "erase", "go"}
    BY <1>1, <1>4, BootloaderPlace
  <2>3. Busy' <=> Busy
    BY <2>1, SameChip
  <2>4. ~Busy
    <3>1. CASE pc = "connect" /\ step = 1
      <4>1. ~AtTx /\ ~AtRx /\ ~AtList /\ ~AtData
        BY <3>1 DEF AtTx, AtRx, AtList, AtData
      <4>2. ~(Doing("tx") \/ Doing("rx") \/ Doing("list") \/ Doing("data"))
        BY <1>1, <2>1, <4>1, Where
      <4>3. ResetTarget
        BY <1>4, <4>2
           DEF BootloaderDriver, Transmit, TransmitFails, PollAck, PollNack, PollTimeout,
               ReceiveList, ReceiveData, ReceiveNothing
      <4> QED
        BY <1>1, <3>1, <4>3 DEF ResetTarget, QuadInv
    <3>2. CASE ~(pc = "connect" /\ step = 1)
      BY <1>1, <2>2, <3>2 DEF IdleInv, Starts
    <3> QED
      BY <3>1, <3>2
  <2> QED
    BY <2>1, <2>2, <2>3, <2>4 DEF IdleInv, Starts
<1>5. CASE ChipDone
  <2>1. UNCHANGED <<pc, step, ret, unnoticed>>
    BY <1>5 DEF ChipDone
  <2>2. ~Busy' /\ Busy
    BY <1>5, ChipEnds
  <2>3. Clean' <=> Clean
    BY <2>1, CleanKept
  <2> QED
    BY <1>1, <2>1, <2>2, <2>3 DEF IdleInv
<1>6. CASE Rom
  BY <1>2, <1>6 DEF Rom
<1>7. CASE Caller
  <2>1. Busy' <=> Busy
    BY <1>7, CallerFootprint, SameChip
  <2>2. Arrives /\ Passing /\ (pc' # "clear" => (Clean' <=> Clean))
    BY <1>1, <1>7, Arrival, CleanKept DEF Passing
  <2>3. /\ pc' \notin {"quad", "connect", "program", "readback", "stopped"} => ~Busy
        /\ pc' = "readback" /\ Clean => ~Busy
    BY <1>1, <2>2
       DEF IdleInv, Arrives, Labels, Returned, ToScan, ToReconnect, ToGo, ToIdle, ToClear,
           ToReadBack, ToVerify, ToEnter, ToErase, ToLoad, ToWrite, ToReenter
  <2>4. pc' \notin {"idle", "stopped"} => step' = 1
    BY <2>2 DEF Passing
  <2> QED
    BY <2>1, <2>2, <2>3, <2>4 DEF IdleInv, Arrives, Labels
<1> QED
  BY <1>2, <1>3, <1>4, <1>5, <1>6, <1>7 DEF Next, Main, Caller

-----------------------------------------------------------------------------
(* The external flash while an update fills it                             *)

\* What sending the instruction does to the pages, and when it surely does it.
LEMMA SentErase ==
  ASSUME TypeOK, LoopInv, IdleInv, SendInstruction, pc = "clear"
  PROVE  Clean /\ step' = 4 => \A i \in Pages : Settled'.page[i] = Erased
<1> SUFFICES ASSUME Clean, step' = 4 PROVE \A i \in Pages : Settled'.page[i] = Erased
  OBVIOUS
<1>1. step = 3
  BY Where DEF SendInstruction, Doing, AtSend
<1>2. Operand = "erase"
  BY InstructionSent DEF SendInstruction
<1>3. ~Busy /\ wel
  BY <1>1 DEF IdleInv
<1>4. Settled' = Effect(Operand)
  <2>1. step' = step + 1
    BY <1>1
  <2> QED
    BY <1>2, <1>3, <2>1, SendEffect
<1>5. cells \in Cells
  BY DEF TypeOK
<1> QED
  BY <1>2, <1>4, <1>5 DEF Effect, Cells

LEMMA SentProgram ==
  ASSUME TypeOK, LoopInv, QuadInv, IdleInv, SendInstruction, pc = "program"
  PROVE  /\ \/ Settled'.page = Settled.page
            \/ Settled'.page = [Settled.page EXCEPT ![at] = @ \cup coming[at]]
         /\ Clean /\ step' = 4 =>
              Settled'.page = [Settled.page EXCEPT ![at] = @ \cup coming[at]]
<1>1. step = 3
  BY Where DEF SendInstruction, Doing, AtSend
<1>2. Operand = "program"
  BY InstructionSent DEF SendInstruction
<1>3. cells \in Cells
  BY DEF TypeOK
<1>4. Effect("program").page = [cells.page EXCEPT ![at] = @ \cup coming[at]]
  BY <1>3 DEF Effect, Cells, Programmed
<1>5. ~Busy => Settled = cells
  BY IdleChip
<1>6. \/ Settled' = Settled
      \/ ~Busy /\ Settled' = Effect("program")
  BY <1>2, SendEffect
<1>7. Clean => ~Busy /\ wel /\ cells.quad
  <2>1. Clean => ~Busy /\ wel
    BY <1>1 DEF IdleInv
  <2>2. Settled.quad
    BY DEF QuadInv
  <2> QED
    BY <1>5, <2>1, <2>2
<1>8. step' = 4 => step' = step + 1
  BY <1>1
<1>9. Clean /\ step' = 4 => ~Busy /\ Settled' = Effect("program")
  <2>1. \/ step' = step + 1 => Busy \/ ~wel \/ ~cells.quad
        \/ ~Busy /\ Settled' = Effect("program")
    BY <1>2, SendEffect
  <2> QED
    BY <1>7, <1>8, <2>1, Zenon
<1> QED
  BY <1>4, <1>5, <1>6, <1>9

\* What ReadPage finds on an idle chip in quad mode.
LEMMA PageFound ==
  ASSUME TypeOK, QuadInv, ReadPage, ~Busy
  PROVE  /\ buff' = Settled.page[at] \/ (step' = 0 /\ ~ret' /\ FlashFault)
         /\ AtReceive /\ UNCHANGED <<chip, pc, at, retry, match, job>> /\ Settled' = Settled
<1>1. AtReceive
  BY Where DEF ReadPage, Doing
<1>2. cells.quad /\ Settled = cells
  BY <1>1, IdleChip DEF QuadInv, AtReceive
<1>3. UNCHANGED <<chip, pc, at, retry, match, job>>
  BY DEF ReadPage
<1>4. buff' = cells.page[at] \/ (step' = 0 /\ ~ret' /\ FlashFault)
  BY <1>2 DEF ReadPage, Return
<1> QED
  BY <1>1, <1>2, <1>3, <1>4, SameChip

LEMMA StoreStep ==
  ASSUME MaxUnnoticed <= 1, IInv, [Next]_vars
  PROVE  StoreInv'
<1>1. TypeOK /\ LoopInv /\ QuadInv /\ IdleInv /\ StoreInv
  BY DEF IInv, CoreInv
<1> DEFINE Same == Settled' = Settled /\ UNCHANGED <<pc, at, coming>>
<1>2. CASE /\ Same /\ (Clean' => Clean)
           /\ UNCHANGED <<step, ret, buff>> \/ pc' \notin {"clear", "program", "readback"}
  BY <1>1, <1>2 DEF StoreInv
<1>3. CASE FlashDriver
  <2>1. DriverStep
    BY <1>1, <1>3, FlashSteps
  <2>2. pc' = pc /\ at' = at /\ coming' = coming
    BY <2>1 DEF DriverStep
  <2>3. CASE Wait
    <3>1. AtWait /\ (Clean' => Clean) /\ Settled' = Settled
      BY <1>1, <2>3, WaitEnds, SameChip
    <3>2. pc \in {"clear", "program", "readback"} =>
             (step = 1 /\ step' = 2) \/ (step = 4 /\ step' = 0 /\ pc # "readback")
      <4>1. AtWait /\ TypeOK /\ Proceed /\ step # 0
        BY <1>1, <2>1, <2>3, <3>1 DEF Wait, DriverStep
      <4>2. \/ step < Steps /\ step' = step + 1
            \/ step = Steps /\ step' = 0
        BY <4>1, Proceeding
      <4>3. /\ pc \in {"clear", "program"} => Steps = 4 /\ step \in {1, 4}
            /\ pc = "readback" => Steps = 2 /\ step = 1
        BY <4>1 DEF Steps, Starts, AtWait
      <4>4. ASSUME Steps = 4, step \in {1, 4}
            PROVE  (step = 1 /\ step' = 2) \/ (step = 4 /\ step' = 0)
        BY ONLY <4>2, <4>4
      <4>5. ASSUME Steps = 2, step = 1
            PROVE  step' = 2
        BY ONLY <4>2, <4>5
      <4> QED
        BY <4>3, <4>4, <4>5
    <3> QED
      BY <1>1, <2>2, <3>1, <3>2 DEF StoreInv
  <2>4. CASE WriteEnable
    <3>1. AtEnable /\ UNCHANGED <<cells, work>>
      BY <1>1, <2>4, Where DEF WriteEnable, Doing
    <3>2. Settled' = Settled
      BY <3>1 DEF Settled, Busy
    <3>3. \/ (Clean' <=> Clean) /\ Proceed
          \/ step' = 0 /\ ~ret' /\ FlashFault
      BY <2>4, CleanKept DEF WriteEnable, Return
    <3>4. /\ Clean' => Clean
          /\ pc = "clear" /\ Clean' => Proceed
          /\ Proceed \/ (step' = 0 /\ ~ret')
      <4>1. pc = "clear" => Ignored
        BY DEF Ignored
      <4> QED
        BY <1>1, <3>3, <4>1, FaultKinds
    <3>5. pc \in {"clear", "program"} /\ Proceed => step' = 3
      <4> SUFFICES ASSUME pc \in {"clear", "program"}, Proceed PROVE step' = 3
        OBVIOUS
      <4>1. step = 2 /\ Len(Code) = 4
        BY <3>1, ChangeCode DEF AtEnable
      <4> QED
        BY <4>1 DEF Proceed, Return
    <3> QED
      BY <1>1, <2>2, <3>1, <3>2, <3>4, <3>5 DEF StoreInv, AtEnable
  <2>5. CASE SendInstruction
    <3>1. AtSend
      BY <1>1, <2>5, Where DEF SendInstruction, Doing
    <3>2. \/ (Clean' <=> Clean) /\ Proceed
          \/ step' = 0 /\ ~ret' /\ FlashFault
      BY <2>5, CleanKept DEF SendInstruction, Return
    <3>3. /\ Clean' => Clean
          /\ pc = "clear" /\ Clean' => Proceed
          /\ Proceed \/ (step' = 0 /\ ~ret')
      <4>1. pc = "clear" => Ignored
        BY DEF Ignored
      <4> QED
        BY <1>1, <3>2, <4>1, FaultKinds
    <3>4. pc \in {"clear", "program"} /\ Proceed => step' = 4
      <4> SUFFICES ASSUME pc \in {"clear", "program"}, Proceed PROVE step' = 4
        OBVIOUS
      <4>1. step = 3 /\ Len(Code) = 4
        BY <3>1, ChangeCode DEF AtSend
      <4> QED
        BY <4>1 DEF Proceed, Return
    <3>5. CASE pc = "clear"
      BY <1>1, <2>2, <2>5, <3>3, <3>4, <3>5, SentErase DEF StoreInv
    <3>6. CASE pc = "program"
      <4>1. at \in Pages /\ Settled.page \in [Pages -> Content] /\ MaxPages \in Nat
        BY <1>1, <3>6, PageType, SettledType, BoundsAssumption DEF Cells
      <4>2. /\ \/ Settled'.page = Settled.page
               \/ Settled'.page = [Settled.page EXCEPT ![at] = @ \cup coming[at]]
            /\ Clean /\ step' = 4 =>
                 Settled'.page = [Settled.page EXCEPT ![at] = @ \cup coming[at]]
        BY <1>1, <2>5, <3>6, SentProgram
      <4>3. /\ \A i \in Pages : i # at => Settled'.page[i] = Settled.page[i]
            /\ Settled.page[at] \subseteq coming[at] => Settled'.page[at] \subseteq coming[at]
            /\ Clean /\ step' = 4 => coming[at] \subseteq Settled'.page[at]
        BY <4>1, <4>2
      <4>4. /\ \A i \in 1..(at - 1) : i \in Pages /\ i # at
            /\ \A i \in Pages : i > at => i # at
        BY <4>1 DEF Pages
      <4> QED
        BY <1>1, <2>2, <3>3, <3>4, <3>6, <4>3, <4>4 DEF StoreInv
    <3>7. CASE pc \notin {"clear", "program"}
      BY <2>2, <3>1, <3>7 DEF StoreInv, AtSend
    <3> QED
      BY <3>5, <3>6, <3>7
  <2>6. CASE ReadRegister
    <3>1. pc' \in {"init", "quad"}
      BY <1>1, <2>2, <2>6, Where DEF ReadRegister, Doing, AtRegister
    <3> QED
      BY <3>1 DEF StoreInv
  <2>7. CASE ReadPage
    <3>1. AtReceive /\ Settled' = Settled
      BY <1>1, <2>7, Where, SameChip DEF ReadPage, Doing
    <3>2. CASE pc = "readback"
      <4>1. ~Busy
        BY <1>1, <3>1, <3>2 DEF IdleInv, AtReceive
      <4>2. Clean' => Clean
        BY <1>1, <2>7, CleanKept, FaultKinds DEF ReadPage
      <4>3. buff' = Settled.page[at] \/ Clean
        <5>1. Ignored
          BY <3>2 DEF Ignored
        <5> QED
          BY <1>1, <2>7, <4>1, <5>1, PageFound, FaultKinds
      <4>4. Clean => Settled.page[at] = coming[at]
        BY <1>1, <3>2 DEF StoreInv
      <4> QED
        BY <1>1, <2>2, <3>1, <3>2, <4>2, <4>3, <4>4 DEF StoreInv
    <3>3. CASE pc # "readback"
      BY <2>2, <3>1, <3>3 DEF StoreInv, AtReceive
    <3> QED
      BY <3>2, <3>3
  <2> QED
    BY <1>3, <2>3, <2>4, <2>5, <2>6, <2>7 DEF FlashDriver
<1>4. CASE BootloaderDriver
  <2>1. pc' \in {"connect", "reconnect", "enter", "reenter", "scan", "write", "erase", "go"}
    BY <1>1, <1>4, BootloaderSteps, BootloaderPlace DEF DriverStep, Starts
  <2> QED
    BY <2>1 DEF StoreInv
<1>5. CASE ChipDone \/ Rom \/ UNCHANGED vars
  <2>1. Settled' = Settled /\ UNCHANGED <<pc, at, coming, step, ret, buff, unnoticed>>
    BY <1>5, ChipEnds, SameChip DEF ChipDone, Rom
  <2> QED
    BY <1>2, <2>1, CleanKept
<1>6. CASE Caller
  <2>1. Settled' = Settled
    BY <1>6, CallerFootprint, SameChip
  <2>2. Arrives /\ Passing /\ (pc' # "clear" => (Clean' <=> Clean))
    BY <1>1, <1>6, Arrival, CleanKept DEF Passing
  <2>3. CASE pc' = "clear"
    BY <2>2, <2>3 DEF StoreInv, Passing
  <2>4. CASE pc' = "program"
    <3>1. coming' = coming /\ step' = 1
      BY <2>2, <2>4 DEF Passing
    <3>2. CASE Returned("clear") /\ at' = 1
      <4>1. 1 \in Pages
        BY <1>1, PagesType
      <4> QED
        BY <1>1, <2>1, <2>2, <2>4, <3>1, <3>2, <4>1 DEF StoreInv, Returned, Pages, Erased
    <3>3. CASE pc \in {"program", "readback"} /\ at' = at
      BY <1>1, <2>1, <2>2, <2>4, <3>1, <3>3 DEF StoreInv
    <3>4. CASE Returned("readback") /\ buff = coming[at] /\ at < Len(coming) /\ at' = at + 1
      <4>1. at \in Pages /\ at + 1 \in Pages
        BY <1>1, <3>4, PagesType, NextPage DEF Returned
      <4>2. /\ \A i \in 1..((at + 1) - 1) : i \in 1..(at - 1) \/ i = at
            /\ \A i \in Pages : i > at + 1 => i > at
            /\ at + 1 > at
        BY <4>1 DEF Pages
      <4>3. Settled.page[at] = coming[at]
        BY <1>1, <3>4 DEF StoreInv, Returned
      <4>4. \A i \in 1..((at + 1) - 1) : Settled.page[i] = coming[i]
        BY <1>1, <3>4, <4>2, <4>3 DEF StoreInv, Returned
      <4>5. Clean => /\ Settled.page[at + 1] = Erased
                     /\ \A i \in Pages : i > at + 1 => Settled.page[i] = Erased
        BY <1>1, <3>4, <4>1, <4>2 DEF StoreInv, Returned
      <4>6. Clean => Settled.page[at + 1] \subseteq coming[at + 1]
        BY <4>5 DEF Erased
      <4>7. at' = at + 1 /\ Settled' = Settled /\ coming' = coming
        BY <2>1, <3>1, <3>4
      <4>8. /\ \A i \in 1..(at' - 1) : Settled'.page[i] = coming'[i]
            /\ Clean => /\ Settled'.page[at'] \subseteq coming'[at']
                        /\ \A i \in Pages : i > at' => Settled'.page[i] = Erased
        <5>1. \A i \in 1..(at' - 1) : Settled'.page[i] = coming'[i]
          BY <4>4, <4>7, Zenon
        <5>2. Clean => Settled'.page[at'] \subseteq coming'[at']
          BY <4>6, <4>7, Zenon
        <5>3. Clean => \A i \in Pages : i > at' => Settled'.page[i] = Erased
          BY <4>5, <4>7, Zenon
        <5> QED
          BY <5>1, <5>2, <5>3, Zenon
      <4> QED
        BY <2>2, <2>4, <3>1, <4>8 DEF StoreInv
    <3> QED
      BY <2>2, <2>4, <3>2, <3>3, <3>4 DEF Arrives, ToProgram, Returned
  <2>5. CASE pc' = "readback"
    <3>1. coming' = coming /\ step' = 1 /\ pc = "program" /\ step = 0 /\ ret /\ at' = at
      BY <2>2, <2>5 DEF Passing, Arrives, ToReadBack, Returned
    <3> QED
      BY <1>1, <2>1, <2>2, <2>5, <3>1 DEF StoreInv
  <2>6. CASE pc' \notin {"clear", "program", "readback"}
    BY <2>6 DEF StoreInv
  <2> QED
    BY <2>3, <2>4, <2>5, <2>6
<1> QED
  BY <1>3, <1>4, <1>5, <1>6 DEF Next, Main, Caller

-----------------------------------------------------------------------------
(* The external flash while it is validated and copied                     *)

\* A loop that has dealt with the pages before the last one, and deals with that one.
LEMMA LastPage ==
  ASSUME NEW f, NEW p, NEW n \in Nat, n = Len(p),
         \A i \in 1..(n - 1) : f[i] = p[i], f[n] = p[n]
  PROVE  Holds(f, p)
BY DEF Holds

LEMMA OneMore ==
  ASSUME NEW f, NEW p, NEW n \in Nat,
         \A i \in 1..(n - 1) : f[i] = p[i], f[n] = p[n]
  PROVE  \A i \in 1..((n + 1) - 1) : f[i] = p[i]
OBVIOUS

LEMMA BackupStep ==
  ASSUME MaxUnnoticed <= 1, IInv, [Next]_vars
  PROVE  BackupInv'
<1>1. TypeOK /\ LoopInv /\ QuadInv /\ IdleInv /\ StoreInv /\ BackupInv
  BY DEF IInv, CoreInv
<1> USE DEF CopiesRecordedProgram
<1>2. CASE Settled' = Settled /\ UNCHANGED <<pc, at, step, ret, buff, match, image>>
  BY <1>1, <1>2 DEF BackupInv
<1>3. CASE FlashDriver
  <2>1. DriverStep
    BY <1>1, <1>3, FlashSteps
  <2>2. pc' = pc /\ at' = at /\ image' = image /\ (match' <=> match)
    BY <2>1 DEF DriverStep
  <2>3. CASE Wait
    <3>1. AtWait /\ Settled' = Settled /\ buff' = buff
      BY <1>1, <2>3, WaitEnds, SameChip DEF Wait
    <3>2. pc \in {"verify", "load"} => step' # 0
      <4> SUFFICES ASSUME pc \in {"verify", "load"} PROVE step' # 0
        OBVIOUS
      <4>1. step = 1 /\ Len(Code) = 2 /\ Proceed
        BY <2>3, <3>1, ReadCode DEF AtWait, Wait
      <4> QED
        BY <4>1 DEF Proceed, Return
    <3> QED
      BY <1>1, <2>2, <3>1, <3>2 DEF BackupInv, AtWait
  <2>4. CASE WriteEnable \/ SendInstruction \/ ReadRegister
    <3>1. AtEnable \/ AtSend \/ AtRegister
      <4>1. Doing("enable") \/ Doing("send") \/ Doing("register")
        BY <2>4 DEF WriteEnable, SendInstruction, ReadRegister
      <4>2. step # 0
        BY <2>1 DEF DriverStep
      <4> QED
        BY <1>1, <4>1, <4>2, Where
    <3>2. pc' \in {"init", "quad", "clear", "program"}
      BY <2>2, <3>1 DEF AtEnable, AtSend, AtRegister
    <3> QED
      BY <3>2 DEF BackupInv
  <2>5. CASE ReadPage
    <3>1. AtReceive /\ ~Busy
      BY <1>1, <2>5, Where DEF ReadPage, Doing, IdleInv, AtReceive
    <3>2. /\ Settled' = Settled
          /\ buff' = Settled.page[at] \/ (step' = 0 /\ ~ret')
      BY <1>1, <2>5, <3>1, PageFound
    <3>3. pc = "load" => Settled.page[at] = image[at]
      <4> SUFFICES ASSUME pc = "load" PROVE Settled.page[at] = image[at]
        OBVIOUS
      <4>1. at \in 1..Len(image)
        BY <1>1, PagesType DEF LoopInv, Pages
      <4> QED
        BY <1>1, <4>1 DEF BackupInv, Holds
    <3> QED
      BY <1>1, <2>2, <3>1, <3>2, <3>3 DEF BackupInv, AtReceive
  <2> QED
    BY <1>3, <2>3, <2>4, <2>5 DEF FlashDriver
<1>4. CASE BootloaderDriver
  <2>1. /\ Starts \/ pc \in {"scan", "write", "erase", "go"}
        /\ pc' = pc /\ at' = at /\ image' = image
    BY <1>1, <1>4, BootloaderSteps, BootloaderPlace DEF DriverStep
  <2>2. Settled' = Settled
    BY <1>1, <1>4, BootloaderSteps, SameChip
  <2>3. pc # "scan" => buff' = buff
    <3>1. ReceiveData => pc = "scan"
      BY <1>1, Where DEF ReceiveData, Doing, AtData
    <3>2. ~ReceiveData => buff' = buff
      BY <1>4 DEF BootloaderDriver, ResetTarget, Transmit, TransmitFails, PollAck, PollNack,
                  PollTimeout, ReceiveList, ReceiveNothing
    <3> QED
      BY <3>1, <3>2
  <2> QED
    BY <1>1, <2>1, <2>2, <2>3 DEF BackupInv, Starts
<1>5. CASE ChipDone \/ Rom \/ UNCHANGED vars
  <2>1. Settled' = Settled /\ UNCHANGED <<pc, at, step, ret, buff, match, image>>
    BY <1>5, ChipEnds, SameChip DEF ChipDone, Rom
  <2> QED
    BY <1>2, <2>1
<1>6. CASE Caller
  <2>1. Settled' = Settled
    BY <1>6, CallerFootprint, SameChip
  <2>2. Arrives /\ Passing
    BY <1>1, <1>6, Arrival
  <2>3. CASE pc' = "verify"
    <3>1. step' = 1 /\ image' = image
      BY <2>2, <2>3 DEF Passing
    <3>2. match' => \A i \in 1..(at' - 1) : Settled.page[i] = image[i]
      <4>1. CASE at' = 1
        BY <4>1
      <4>2. CASE pc = "verify" /\ at' = at /\ UNCHANGED local
        BY <1>1, <4>2 DEF BackupInv
      <4>3. CASE Returned("verify") /\ ret /\ at' = at + 1 /\ Hash
        <5>1. at \in Nat
          BY <1>1, <4>3, PagesType DEF Returned, Pages
        <5>2. match' => match /\ buff = image[at]
          BY <4>3 DEF Hash
        <5>3. buff = Settled.page[at]
          BY <1>1, <4>3 DEF BackupInv, Returned
        <5>4. match => \A i \in 1..(at - 1) : Settled.page[i] = image[i]
          BY <1>1, <4>3 DEF BackupInv, Returned
        <5>5. match' => \A i \in 1..((at + 1) - 1) : Settled.page[i] = image[i]
          BY <5>1, <5>2, <5>3, <5>4, OneMore
        <5> QED
          BY <4>3, <5>5
      <4> QED
        BY <2>2, <2>3, <4>1, <4>2, <4>3 DEF Arrives, ToVerify, Returned
    <3> QED
      BY <2>1, <2>3, <3>1, <3>2 DEF BackupInv
  <2>4. CASE pc' = "enter"
    <3>1. Holds(Settled.page, image')
      <4>1. CASE /\ Returned("readback") /\ buff = coming[at] /\ ~(at < Len(coming))
                 /\ image' = coming
        <5>1. at \in Nat /\ at = Len(coming)
          BY <1>1, <4>1, PagesType DEF LoopInv, Returned, Pages
        <5>2. /\ \A i \in 1..(at - 1) : Settled.page[i] = coming[i]
              /\ Settled.page[at] = coming[at]
          BY <1>1, <4>1 DEF StoreInv, Returned
        <5> QED
          BY <4>1, <5>1, <5>2, LastPage
      <4>2. CASE /\ Returned("verify") /\ ret /\ at = Len(image)
                 /\ match /\ buff = image[at] /\ image' = image
        <5>1. at \in Nat
          BY <1>1, <4>2, PagesType DEF Returned, Pages
        <5>2. /\ \A i \in 1..(at - 1) : Settled.page[i] = image[i]
              /\ Settled.page[at] = image[at]
          BY <1>1, <4>2 DEF BackupInv, Returned
        <5> QED
          BY <4>2, <5>1, <5>2, LastPage
      <4> QED
        BY <2>2, <2>4, <4>1, <4>2 DEF Arrives, ToEnter
    <3> QED
      BY <2>1, <2>4, <3>1 DEF BackupInv
  <2>5. CASE pc' \in {"erase", "load", "write", "reenter"}
    <3>1. /\ pc \in {"enter", "erase", "load", "write", "reenter"} /\ image' = image
          /\ pc' = "load" => step' = 1
          /\ pc' = "write" => pc = "load" /\ step = 0 /\ ret /\ at' = at /\ UNCHANGED buff
          /\ pc' = "reenter" => pc = "write" /\ at' = at /\ UNCHANGED buff
      BY <2>2, <2>5 DEF Arrives, Passing, ToErase, ToLoad, ToWrite, ToReenter, Returned
    <3> QED
      BY <1>1, <2>1, <2>5, <3>1 DEF BackupInv
  <2>6. CASE pc' \notin {"verify", "enter", "erase", "load", "write", "reenter"}
    BY <2>6 DEF BackupInv
  <2> QED
    BY <2>3, <2>4, <2>5, <2>6
<1> QED
  BY <1>3, <1>4, <1>5, <1>6 DEF Next, Main, Caller

-----------------------------------------------------------------------------
(* The mailbox                                                             *)

\* What the bootloader makes of a message.
RomEffect ==
  \/ /\ rom.expects = "sync" /\ rom'.expects \in {"sync", "command"} /\ prog' = prog
     /\ inbox[1] # "sync" => reply' = None
  \/ /\ rom.expects = "command" /\ inbox[1] = "command" /\ prog' = prog
     /\ rom'.cmd = inbox[2] /\ reply' = "ACK"
     /\ rom'.expects = IF inbox[2] = "GET" THEN "list"
                       ELSE IF inbox[2] = "ERASE" THEN "scope" ELSE "address"
  \/ /\ rom.expects = "address" /\ inbox[1] = "address" /\ prog' = prog
     /\ IF rom.cmd = "GO" THEN rom'.expects = "nothing"
        ELSE /\ rom'.at = inbox[2]
             /\ rom'.expects = IF rom.cmd = "WRITE" THEN "block" ELSE "count"
  \/ /\ rom.expects = "scope" /\ inbox[1] = "scope" /\ rom'.expects = "command"
     /\ prog' = [i \in Pages |-> Erased]
  \/ /\ rom.expects = "block" /\ inbox[1] = "block" /\ rom'.expects = "command"
     /\ \/ prog' = [prog EXCEPT ![rom.at] = @ \cup inbox[2]]
        \/ reply' = "NACK" /\ prog' = prog
  \/ /\ rom.expects = "count" /\ inbox[1] = "count" /\ rom'.expects = "data"
     /\ rom'.at = rom.at /\ prog' = prog
  \/ /\ rom.expects \notin {"sync", "nothing"} /\ rom'.expects = "command"
     /\ reply' = "NACK" /\ prog' = prog

LEMMA RomActs ==
  ASSUME TypeOK, Rom
  PROVE  /\ inbox # None /\ inbox' = None /\ reply = None
         /\ UNCHANGED <<chip, board, pc, step, ret, loop, job, faults>>
         /\ RomEffect
<1>1. inbox # None /\ inbox' = None /\ reply = None
  BY DEF Rom, RomSync, RomCommand, RomAddress, RomErase, RomWrite, RomCount, RomRefuses, Answer
<1>2. UNCHANGED <<chip, board, pc, step, ret, loop, job, faults>>
  BY DEF Rom
<1>3. TargetOK
  BY TypeParts
<1>4. RomEffect
  <2> USE <1>3 DEF RomEffect
  <2>1. CASE RomSync
    BY <2>1, ExpectingType DEF RomSync, Answer, Expectations
  <2>2. CASE RomCommand
    BY <2>2 DEF RomCommand, Answer, TargetOK
  <2>3. CASE RomAddress
    <3>1. rom.expects = "address" /\ inbox[1] = "address" /\ prog' = prog
      BY <2>3 DEF RomAddress
    <3>2. CASE rom.cmd = "GO"
      BY <2>3, <3>1, <3>2 DEF RomAddress, RomLeft
    <3>3. CASE rom.cmd # "GO"
      <4>1. rom' = [rom EXCEPT !.at = inbox[2],
                               !.expects = IF rom.cmd = "WRITE" THEN "block" ELSE "count"]
        BY <2>3, <3>3 DEF RomAddress
      <4>2. /\ rom'.at = inbox[2]
            /\ rom'.expects = IF rom.cmd = "WRITE" THEN "block" ELSE "count"
        BY <4>1 DEF TargetOK
      <4> QED
        BY <3>1, <3>3, <4>2
    <3> QED
      BY <3>2, <3>3
  <2>4. CASE RomErase
    BY <2>4, ExpectingType DEF RomErase, Expectations
  <2>5. CASE RomWrite
    BY <2>5, ExpectingType DEF RomWrite, Answer, Expectations
  <2>6. CASE RomCount
    BY <2>6, ExpectingType DEF RomCount, Expectations
  <2>7. CASE RomRefuses
    BY <2>7, ExpectingType DEF RomRefuses, Answer, Expectations
  <2> QED
    BY <2>1, <2>2, <2>3, <2>4, <2>5, <2>6, <2>7 DEF Rom
<1> QED
  BY <1>1, <1>2, <1>4

\* What the operations of the bootloader driver do to the mailbox.
ResetDone == /\ AtReset /\ step' = 2
             /\ inbox' = None /\ reply' = None /\ rom'.expects = "sync" /\ buff' = buff
Sent      == /\ AtTx /\ step' = step + 1
             /\ inbox' \in {inbox, Message, <<"damaged">>} /\ reply' = None
             /\ UNCHANGED <<rom, prog, buff>>
Acked     == /\ AtRx /\ reply = "ACK" /\ reply' = None
             /\ step' = step + 1 \/ (step = Steps /\ step' = 0)
             /\ UNCHANGED <<inbox, rom, prog, buff>>
Listed    == /\ AtList /\ step' = 0 /\ rom'.expects = "command"
             /\ UNCHANGED <<inbox, reply, prog, buff>>
Fetched   == /\ AtData /\ step' = 0 /\ rom'.expects = "command"
             /\ buff' = prog[rom.at] \/ buff' # image[at]
             /\ UNCHANGED <<inbox, reply, prog>>
Failed    == /\ step # 0 /\ step' = 0 /\ ~ret' /\ reply' \in {reply, None}
             /\ UNCHANGED <<inbox, rom, prog, buff>>

LEMMA DriverActs ==
  ASSUME TypeOK, BootloaderDriver
  PROVE  /\ UNCHANGED <<chip, board, pc, at, match, image>>
         /\ ResetDone \/ Sent \/ Acked \/ Listed \/ Fetched \/ Failed
         /\ ResetDone \/ prog' = prog
<1>1. UNCHANGED <<chip, board, pc, at, match, image>> /\ step # 0
  BY BootloaderSteps DEF DriverStep
<1>2. TargetOK
  BY TypeParts
<1>3. Proceed => \/ step < Steps /\ step' = step + 1
                 \/ step = Steps /\ step' = 0
  BY <1>1, Proceeding
<1>4. CASE ResetTarget
  <2>1. AtReset
    BY <1>1, <1>4, Where DEF ResetTarget
  <2>2. step = 1 /\ Steps = 6
    BY <2>1 DEF AtReset, Starts, Steps
  <2>3. Proceed
    BY <1>4 DEF ResetTarget
  <2>4. step' = 2
    BY ONLY <1>3, <2>2, <2>3
  <2> QED
    BY <1>1, <1>4, <2>1, <2>4 DEF ResetTarget, ResetDone
<1>5. CASE Transmit
  <2>1. AtTx /\ Operand = Message /\ Proceed
    BY <1>1, <1>5, Where, MessageSent DEF Transmit
  <2>2. step # Steps
    BY <2>1 DEF AtTx, Steps, Starts
  <2>3. step' = step + 1
    BY ONLY <1>3, <2>1, <2>2
  <2> QED
    BY <1>1, <1>5, <2>1, <2>3 DEF Transmit, Sent
<1>6. CASE PollAck
  <2>1. AtRx /\ Proceed
    BY <1>1, <1>6, Where DEF PollAck
  <2>2. step' = step + 1 \/ (step = Steps /\ step' = 0)
    BY ONLY <1>3, <2>1
  <2> QED
    BY <1>1, <1>6, <2>1, <2>2 DEF PollAck, Acked
<1>7. CASE ReceiveList
  <2>1. AtList /\ Proceed
    BY <1>1, <1>7, Where DEF ReceiveList
  <2>2. step = 6 /\ Steps = 6
    BY <2>1 DEF AtList, Starts, Steps
  <2>3. step' = 0
    BY ONLY <1>3, <2>1, <2>2
  <2> QED
    BY <1>1, <1>2, <1>7, <2>1, <2>3, ExpectingType DEF ReceiveList, Listed, Expectations
<1>8. CASE ReceiveData
  <2>1. AtData /\ Proceed
    BY <1>1, <1>8, Where DEF ReceiveData
  <2>2. step = 7 /\ Steps = 7
    BY <2>1 DEF AtData, Starts, Steps
  <2>3. step' = 0
    BY ONLY <1>3, <2>1, <2>2
  <2> QED
    BY <1>1, <1>2, <1>8, <2>1, <2>3, ExpectingType DEF ReceiveData, Fetched, Expectations
<1>9. CASE TransmitFails \/ PollNack \/ PollTimeout \/ ReceiveNothing
  BY <1>1, <1>9 DEF TransmitFails, PollNack, PollTimeout, ReceiveNothing, Failed, Return
<1> QED
  BY <1>4, <1>5, <1>6, <1>7, <1>8, <1>9 DEF BootloaderDriver

\* A page that holds nothing but bits of the program's page, and is given all of them.
LEMMA Completed ==
  ASSUME NEW p \in Programs, NEW n \in 1..Len(p), NEW f \in [Pages -> Content],
         f[n] \subseteq Padded(p)[n]
  PROVE  /\ n \in Pages /\ Padded(p)[n] = p[n]
         /\ [f EXCEPT ![n] = @ \cup p[n]][n] = p[n]
<1>1. n \in Pages /\ n <= Len(p)
  BY ProgramType, BoundsAssumption DEF Pages
<1>2. Padded(p)[n] = p[n]
  BY <1>1 DEF Padded
<1> QED
  BY <1>1, <1>2

\* The bootloader deals with its message.
LEMMA RomMail ==
  ASSUME IInv, Rom
  PROVE  MailInv'
<1>1. TypeOK /\ LoopInv /\ MailInv /\ TargetInv
  BY DEF IInv, CoreInv
<1>2. /\ inbox # None /\ inbox' = None /\ reply = None
      /\ UNCHANGED <<chip, board, pc, step, ret, loop, job, faults>>
  BY <1>1, RomActs
<1>3. RomEffect
  BY <1>1, RomActs
<1>4. StartMail'
  <2>1. StartMail
    BY <1>1 DEF MailInv
  <2> QED
    BY <1>2, <1>3, <2>1 DEF StartMail, Quiet, GreetingMail, Greeting, Mail, RomEffect
<1>5. ScanMail'
  <2>1. ScanMail
    BY <1>1 DEF MailInv
  <2>2. CASE pc \in {"scan", "reconnect"}
    <3>1. /\ rom'.expects \in Greeting \cup {"address", "count", "data"}
          /\ rom'.expects = "address" => rom'.cmd = "READ"
      BY <1>2, <1>3, <2>1, <2>2 DEF ScanMail, Greeting, Mail, RomEffect
    <3>2. CASE pc = "scan"
      <4>1. AddressMail("READ", "count")'
        BY <1>2, <1>3, <2>1, <3>2
           DEF ScanMail, AddressMail, Addressed, Quiet, Greeting, Mail, RomEffect
      <4>2. /\ step' \in {6, 7} /\ rom'.expects = "data" => rom'.at = at'
            /\ step' = 6 => /\ rom'.expects \in {"count", "data", "command"}
                            /\ reply' = "ACK" => rom'.expects = "data"
            /\ step' # 7 /\ ~(step' = 0 /\ ret')
        BY <1>2, <1>3, <2>1, <3>2 DEF ScanMail, AddressMail, Quiet, Mail, RomEffect
      <4> QED
        BY <1>2, <3>1, <3>2, <4>1, <4>2 DEF ScanMail, Mail
    <3>3. CASE pc = "reconnect"
      BY <1>2, <3>1, <3>3 DEF ScanMail, Mail
    <3> QED
      BY <2>2, <3>2, <3>3
  <2>3. CASE pc \notin {"scan", "reconnect"}
    BY <1>2, <2>3 DEF ScanMail
  <2> QED
    BY <2>2, <2>3
<1>6. EraseMail'
  <2>1. EraseMail
    BY <1>1 DEF MailInv
  <2>2. CASE pc = "erase"
    BY <1>2, <1>3, <2>1, <2>2 DEF EraseMail, Quiet, Mail, RomEffect
  <2>3. CASE pc # "erase"
    BY <1>2, <2>3 DEF EraseMail
  <2> QED
    BY <2>2, <2>3
<1>7. WriteMail'
  <2>1. WriteMail
    BY <1>1 DEF MailInv
  <2>2. CASE pc = "write" \/ (pc = "reenter" /\ step = 1)
    <3>1. /\ rom'.expects \in Greeting \cup {"address", "block"}
          /\ rom'.expects = "address" => rom'.cmd = "WRITE"
          /\ rom'.expects = "block" => rom'.at = at'
      BY <1>2, <1>3, <2>1, <2>2 DEF WriteMail, Greeting, Mail, Addressed, RomEffect
    <3>2. CASE pc = "write"
      <4>1. AddressMail("WRITE", "block")'
        BY <1>2, <1>3, <2>1, <3>2
           DEF WriteMail, AddressMail, Addressed, Quiet, Greeting, Mail, RomEffect
      <4>2. step' = 6 =>
              /\ rom'.expects \in {"block", "command"}
              /\ reply' = "ACK" => rom'.expects = "command" /\ prog'[at'] = image'[at']
        <5> SUFFICES ASSUME step = 6
                     PROVE  /\ rom'.expects \in {"block", "command"}
                            /\ reply' = "ACK" => rom'.expects = "command" /\ prog'[at] = image[at]
          BY <1>2
        <5>1. /\ inbox[1] \in {"block", "damaged"} /\ rom.expects \in {"block", "command"}
              /\ inbox[1] = "block" => inbox[2] = image[at]
              /\ rom.expects = "block" => rom.at = at
          BY <1>2, <2>1, <3>2 DEF WriteMail, Mail
        <5>2. \/ rom'.expects = "command" /\ reply' = "NACK"
              \/ rom'.expects = "command" /\ prog' = [prog EXCEPT ![at] = @ \cup image[at]]
          BY <1>3, <5>1 DEF RomEffect
        <5>3. [prog EXCEPT ![at] = @ \cup image[at]][at] = image[at]
          <6>1. image \in Programs /\ at \in 1..Len(image) /\ prog \in [Pages -> Content]
            BY <1>1, <3>2, PagesType, TypeParts DEF LoopInv, Pages, DataOK, TargetOK
          <6>2. at \in Pages
            BY <6>1, Completed, <1>1, PagesType, <3>2
          <6>3. prog[at] \subseteq Padded(image)[at]
            BY <1>1, <3>2, <6>2 DEF TargetInv, NoMixture
          <6> QED
            BY <6>1, <6>3, Completed
        <5> QED
          BY <5>2, <5>3
      <4>3. ~(step' = 0 /\ ret')
        BY <1>2, <2>1, <3>2 DEF WriteMail
      <4> QED
        BY <1>2, <3>1, <3>2, <4>1, <4>2, <4>3 DEF WriteMail, Mail, Addressed
    <3>3. CASE pc # "write"
      BY <1>2, <3>1, <3>3 DEF WriteMail, Mail, Addressed
    <3> QED
      BY <3>2, <3>3
  <2>3. CASE ~(pc = "write" \/ (pc = "reenter" /\ step = 1))
    BY <1>2, <2>3 DEF WriteMail
  <2> QED
    BY <2>2, <2>3
<1>8. GoMail'
  <2>1. GoMail
    BY <1>1 DEF MailInv
  <2> QED
    BY <1>2, <1>3, <2>1 DEF GoMail, Mail, RomEffect
<1> QED
  BY <1>2, <1>4, <1>5, <1>6, <1>7, <1>8 DEF MailInv

\* The starts of the bootloader.
LEMMA StartsMail ==
  ASSUME IInv, BootloaderDriver, Starts
  PROVE  StartMail' /\ ScanMail' /\ WriteMail'
<1>1. TypeOK /\ MailInv
  BY DEF IInv, CoreInv
<1>2. /\ pc' = pc /\ at' = at /\ image' = image
      /\ ResetDone \/ Sent \/ Acked \/ Listed \/ Fetched \/ Failed
  BY <1>1, DriverActs
<1>3. step \in 1..6 /\ Steps = 6
  <2>1. DriverStep
    BY <1>1, BootloaderSteps
  <2>2. Steps = 6
    BY DEF Steps, Starts
  <2> QED
    BY <2>1, <2>2 DEF DriverStep
<1>4. step' # 1
  BY <1>2, <1>3 DEF ResetDone, Sent, Acked, Listed, Fetched, Failed
<1>5. /\ step # 1 => /\ GreetingMail /\ rom.expects \in Greeting
                     /\ step = 6 => inbox = None /\ reply = None
      /\ reply # None => inbox = None
  BY <1>1 DEF MailInv, StartMail, Starts
<1>6. /\ GreetingMail' /\ rom'.expects \in Greeting
      /\ step' = 6 => inbox' = None /\ reply' = None
      /\ step' = 0 /\ ret' => Quiet("command")'
  <2> USE DEF GreetingMail, Greeting, Mail
  <2>1. CASE ResetDone
    BY <2>1 DEF ResetDone
  <2>2. CASE Sent
    <3>1. step \in {2, 4}
      BY <2>2 DEF Sent, AtTx, Starts
    <3>2. Message \in {<<"sync">>, <<"command", "GET">>}
      BY <3>1 DEF Message
    <3>3. step' \in {3, 5} /\ rom' = rom
      BY <2>2, <3>1 DEF Sent
    <3>4. inbox' = inbox \/ inbox' \in {<<"sync">>, <<"command", "GET">>, <<"damaged">>}
      BY <2>2, <3>2 DEF Sent
    <3>5. GreetingMail'
      BY <1>5, <3>1, <3>4
    <3> QED
      BY <1>5, <3>1, <3>3, <3>5
  <2>3. CASE Acked
    <3>1. step \in {3, 5} /\ inbox = None /\ UNCHANGED <<inbox, rom>> /\ reply' = None
      BY <1>1, <1>5, <2>3, NoneAssumption DEF Acked, AtRx, Starts
    <3>2. step' \in {4, 6}
      BY <1>3, <2>3, <3>1 DEF Acked
    <3> QED
      BY <1>5, <3>1, <3>2
  <2>4. CASE Listed
    BY <1>5, <2>4 DEF Listed, AtList, Quiet
  <2>5. CASE Fetched
    BY <2>5 DEF Fetched, AtData, Starts
  <2>6. CASE Failed
    <3>1. CASE step = 1
      <4>1. ResetTarget
        <5>1. ~AtTx /\ ~AtRx /\ ~AtList /\ ~AtData
          BY <3>1 DEF AtTx, AtRx, AtList, AtData, Starts
        <5>2. ~(Doing("tx") \/ Doing("rx") \/ Doing("list") \/ Doing("data"))
          BY <1>1, <1>3, <5>1, Where
        <5> QED
          BY <5>2
             DEF BootloaderDriver, Transmit, TransmitFails, PollAck, PollNack, PollTimeout,
                 ReceiveList, ReceiveData, ReceiveNothing
      <4> QED
        BY <1>1, <3>1, <2>6, <4>1, Proceeding, <1>3 DEF ResetTarget, Failed
    <3>2. CASE step # 1
      BY <1>5, <2>6, <3>2 DEF Failed
    <3> QED
      BY <3>1, <3>2
  <2> QED
    BY <1>2, <2>1, <2>2, <2>3, <2>4, <2>5, <2>6
<1>7. StartMail'
  BY <1>2, <1>4, <1>6 DEF StartMail, Starts
<1>8. ScanMail'
  BY <1>2, <1>6 DEF ScanMail, GreetingMail, Greeting, Mail, Starts
<1>9. WriteMail'
  BY <1>2, <1>4 DEF WriteMail, Starts
<1> QED
  BY <1>7, <1>8, <1>9

\* A page of the target is read.
LEMMA ScansMail ==
  ASSUME IInv, BootloaderDriver, pc = "scan"
  PROVE  ScanMail'
<1>1. TypeOK /\ ScanMail /\ (reply # None => inbox = None)
  BY DEF IInv, CoreInv, MailInv
<1>2. /\ pc' = pc /\ at' = at
      /\ ResetDone \/ Sent \/ Acked \/ Listed \/ Fetched \/ Failed
  BY <1>1, DriverActs
<1> DEFINE General ==
      /\ Mail({"sync", "command", "address", "count", "damaged"}, {"GET", "READ"})
      /\ rom.expects \in Greeting \cup {"address", "count", "data"}
      /\ rom.expects = "address" => rom.cmd = "READ"
<1>3. General
  BY <1>1 DEF ScanMail
<1>4. CASE Sent
  <2>1. step \in {1, 3, 5} /\ step' = step + 1 /\ reply' = None /\ UNCHANGED rom
    BY <1>4 DEF Sent, AtTx, Starts
  <2>2. CASE step = 1
    <3>1. inbox' \in {inbox, <<"command", "READ">>, <<"damaged">>}
      BY <1>4, <2>2 DEF Sent, Message, Starts
    <3>2. General' /\ Mail({"sync", "command", "damaged"}, {"GET", "READ"})'
      BY <1>1, <1>3, <2>1, <2>2, <3>1 DEF ScanMail, AddressMail, Mail
    <3>3. rom'.expects \in Greeting \cup {"address"} /\ step' = 2
      BY <1>1, <2>1, <2>2 DEF ScanMail, AddressMail
    <3> QED
      BY <1>2, <3>2, <3>3 DEF ScanMail, AddressMail
  <2>3. CASE step = 3
    <3>1. inbox' \in {None, <<"address", at>>, <<"damaged">>}
      BY <1>1, <1>4, <2>3 DEF Sent, Message, Starts, ScanMail, AddressMail
    <3>2. General' /\ Mail({"address", "damaged"}, {})' /\ Addressed'
      BY <1>2, <1>3, <2>1, <3>1 DEF Mail, Addressed
    <3>3. rom'.expects \in Greeting \cup {"address"} /\ step' = 4
      BY <1>1, <2>1, <2>3 DEF ScanMail, AddressMail
    <3>4. reply' # "ACK" /\ rom'.expects # "count"
      BY <2>1, <3>3, NoneAssumption DEF Greeting
    <3> QED
      BY <1>2, <3>2, <3>3, <3>4 DEF ScanMail, AddressMail
  <2>4. CASE step = 5
    <3>1. inbox' \in {None, <<"count">>, <<"damaged">>}
      BY <1>1, <1>4, <2>4 DEF Sent, Message, Starts, ScanMail, AddressMail, Quiet
    <3>2. General' /\ Mail({"count", "damaged"}, {})'
      BY <1>3, <2>1, <3>1 DEF Mail
    <3>3. rom'.expects = "count" /\ step' = 6 /\ rom'.at = at' /\ reply' # "ACK"
      BY <1>1, <1>2, <2>1, <2>4, NoneAssumption DEF ScanMail, AddressMail, Quiet
    <3> QED
      BY <1>2, <3>2, <3>3 DEF ScanMail, AddressMail
  <2> QED
    BY <2>1, <2>2, <2>3, <2>4
<1>5. CASE Acked
  <2>1. /\ step \in {2, 4, 6} /\ Steps = 7 /\ inbox = None /\ reply' = None
        /\ UNCHANGED <<inbox, rom>>
    BY <1>1, <1>5, NoneAssumption DEF Acked, AtRx, Starts, Steps
  <2>2. step' = step + 1
    <3>1. step' = step + 1 \/ step = Steps
      BY <1>5 DEF Acked
    <3> QED
      BY ONLY <2>1, <3>1
  <2>3. General'
    BY <1>3, <2>1 DEF Mail
  <2>4. CASE step = 2
    <3>1. step' = 3 /\ rom'.expects \in Greeting \cup {"address"}
      BY <1>1, <2>1, <2>2, <2>4 DEF ScanMail, AddressMail
    <3> QED
      BY <1>2, <2>1, <2>3, <3>1 DEF ScanMail, AddressMail
  <2>5. CASE step = 4
    <3>1. step' = 5 /\ rom'.expects = "count" /\ rom'.at = at'
      BY <1>1, <1>2, <1>5, <2>1, <2>2, <2>5 DEF ScanMail, AddressMail, Acked
    <3> QED
      BY <1>2, <2>1, <2>3, <3>1 DEF ScanMail, AddressMail, Quiet
  <2>6. CASE step = 6
    <3>1. step' = 7 /\ rom'.expects = "data" /\ rom'.at = at'
      BY <1>1, <1>2, <1>5, <2>1, <2>2, <2>6 DEF ScanMail, Acked
    <3> QED
      BY <1>2, <2>1, <2>3, <3>1 DEF ScanMail, AddressMail, Quiet
  <2> QED
    BY <2>1, <2>4, <2>5, <2>6
<1>6. CASE Fetched
  <2>1. step' = 0 /\ inbox' = None /\ reply' = None /\ rom'.expects = "command"
    BY <1>1, <1>6 DEF Fetched, AtData, ScanMail, Quiet
  <2> QED
    BY <1>2, <2>1 DEF ScanMail, AddressMail, Quiet, Mail, Greeting
<1>7. CASE Failed
  <2>1. step' = 0 /\ ~ret' /\ UNCHANGED <<inbox, rom>>
    BY <1>7 DEF Failed
  <2>2. General'
    BY <1>3, <2>1 DEF Mail
  <2> QED
    BY <1>2, <2>1, <2>2 DEF ScanMail, AddressMail
<1>8. CASE ResetDone \/ Listed
  BY <1>8 DEF ResetDone, Listed, AtReset, AtList, Starts
<1> QED
  BY <1>2, <1>4, <1>5, <1>6, <1>7, <1>8

\* A page of the target is written.
LEMMA WritesMail ==
  ASSUME IInv, BootloaderDriver, pc = "write"
  PROVE  WriteMail'
<1>1. TypeOK /\ WriteMail /\ (reply # None => inbox = None) /\ buff = image[at]
  BY DEF IInv, CoreInv, MailInv, BackupInv
<1>2. /\ pc' = pc /\ at' = at /\ image' = image
      /\ ResetDone \/ Sent \/ Acked \/ Listed \/ Fetched \/ Failed
  BY <1>1, DriverActs
<1> DEFINE General ==
      /\ Mail({"sync", "command", "address", "block", "damaged"}, {"GET", "WRITE"})
      /\ Addressed
      /\ inbox # None /\ inbox[1] = "block" => inbox[2] = image[at]
      /\ rom.expects \in Greeting \cup {"address", "block"}
      /\ rom.expects = "address" => rom.cmd = "WRITE"
      /\ rom.expects = "block" => rom.at = at
<1>3. General
  BY <1>1 DEF WriteMail
<1>4. CASE Sent
  <2>1. /\ step \in {1, 3, 5} /\ step' = step + 1 /\ reply' = None
        /\ UNCHANGED <<rom, prog, buff>>
    BY <1>4 DEF Sent, AtTx, Starts
  <2>2. CASE step = 1
    <3>1. inbox' \in {inbox, <<"command", "WRITE">>, <<"damaged">>}
      BY <1>4, <2>2 DEF Sent, Message, Starts
    <3>2. General' /\ Mail({"sync", "command", "damaged"}, {"GET", "WRITE"})'
      BY <1>1, <1>2, <1>3, <2>1, <2>2, <3>1 DEF WriteMail, AddressMail, Mail, Addressed
    <3>3. rom'.expects \in Greeting \cup {"address"} /\ step' = 2
      BY <1>1, <2>1, <2>2 DEF WriteMail, AddressMail
    <3> QED
      BY <1>2, <3>2, <3>3 DEF WriteMail, AddressMail
  <2>3. CASE step = 3
    <3>1. inbox' \in {None, <<"address", at>>, <<"damaged">>}
      BY <1>1, <1>4, <2>3 DEF Sent, Message, Starts, WriteMail, AddressMail
    <3>2. General' /\ Mail({"address", "damaged"}, {})' /\ Addressed'
      BY <1>2, <1>3, <2>1, <3>1 DEF Mail, Addressed
    <3>3. rom'.expects \in Greeting \cup {"address"} /\ step' = 4
      BY <1>1, <2>1, <2>3 DEF WriteMail, AddressMail
    <3>4. reply' # "ACK" /\ rom'.expects # "block"
      BY <2>1, <3>3, NoneAssumption DEF Greeting
    <3> QED
      BY <1>2, <3>2, <3>3, <3>4 DEF WriteMail, AddressMail
  <2>4. CASE step = 5
    <3>1. inbox' \in {None, <<"block", image[at]>>, <<"damaged">>}
      BY <1>1, <1>4, <2>4 DEF Sent, Message, Starts, WriteMail, AddressMail, Quiet
    <3>2. General' /\ Mail({"block", "damaged"}, {})'
      BY <1>2, <1>3, <2>1, <3>1 DEF Mail, Addressed
    <3>3. rom'.expects = "block" /\ step' = 6 /\ rom'.at = at' /\ reply' # "ACK"
      BY <1>1, <1>2, <2>1, <2>4, NoneAssumption DEF WriteMail, AddressMail, Quiet
    <3> QED
      BY <1>2, <3>2, <3>3 DEF WriteMail, AddressMail
  <2> QED
    BY <2>1, <2>2, <2>3, <2>4
<1>5. CASE Acked
  <2>1. /\ step \in {2, 4, 6} /\ Steps = 6 /\ inbox = None /\ reply' = None
        /\ UNCHANGED <<inbox, rom, prog>>
    BY <1>1, <1>5, NoneAssumption DEF Acked, AtRx, Starts, Steps
  <2>2. step' = step + 1 \/ (step = 6 /\ step' = 0)
    BY <1>5, <2>1 DEF Acked
  <2>3. General'
    BY <1>2, <1>3, <2>1 DEF Mail, Addressed
  <2>4. CASE step = 2
    <3>1. step' = 3 /\ rom'.expects \in Greeting \cup {"address"}
      BY <1>1, <2>1, <2>2, <2>4 DEF WriteMail, AddressMail
    <3> QED
      BY <1>2, <2>1, <2>3, <3>1 DEF WriteMail, AddressMail
  <2>5. CASE step = 4
    <3>1. step' = 5 /\ rom'.expects = "block" /\ rom'.at = at'
      BY <1>1, <1>2, <1>5, <2>1, <2>2, <2>5 DEF WriteMail, AddressMail, Acked
    <3> QED
      BY <1>2, <2>1, <2>3, <3>1 DEF WriteMail, AddressMail, Quiet
  <2>6. CASE step = 6
    <3>1. rom'.expects = "command" /\ prog'[at'] = image'[at']
      BY <1>1, <1>2, <1>5, <2>1, <2>6 DEF WriteMail, Acked
    <3>2. step' \in {0, 7}
      BY <2>2, <2>6
    <3> QED
      BY <1>2, <2>1, <2>3, <3>1, <3>2 DEF WriteMail, AddressMail
  <2> QED
    BY <2>1, <2>4, <2>5, <2>6
<1>6. CASE Failed
  <2>1. step' = 0 /\ ~ret' /\ UNCHANGED <<inbox, rom, prog>>
    BY <1>6 DEF Failed
  <2>2. General'
    BY <1>2, <1>3, <2>1 DEF Mail, Addressed
  <2> QED
    BY <1>2, <2>1, <2>2 DEF WriteMail, AddressMail
<1>7. CASE ResetDone \/ Listed \/ Fetched
  BY <1>7 DEF ResetDone, Listed, Fetched, AtReset, AtList, AtData, Starts
<1> QED
  BY <1>2, <1>4, <1>5, <1>6, <1>7

\* The target is erased.
LEMMA ErasesMail ==
  ASSUME IInv, BootloaderDriver, pc = "erase"
  PROVE  EraseMail'
<1>1. TypeOK /\ EraseMail /\ (reply # None => inbox = None)
  BY DEF IInv, CoreInv, MailInv
<1>2. /\ pc' = pc
      /\ ResetDone \/ Sent \/ Acked \/ Listed \/ Fetched \/ Failed
  BY <1>1, DriverActs
<1>3. CASE Sent
  <2>1. step \in {1, 3} /\ step' = step + 1 /\ reply' = None /\ UNCHANGED rom
    BY <1>3 DEF Sent, AtTx, Starts
  <2>2. reply' # "ACK"
    BY <2>1, NoneAssumption
  <2>3. CASE step = 1
    <3>1. inbox' \in {None, <<"command", "ERASE">>, <<"damaged">>} /\ rom'.expects = "command"
      BY <1>1, <1>3, <2>1, <2>3 DEF Sent, Message, Starts, EraseMail, Quiet
    <3>2. step' = 2 /\ Mail({"command", "damaged"}, {"ERASE"})'
      BY <2>1, <2>3, <3>1 DEF Mail
    <3> QED
      BY <1>2, <2>2, <3>1, <3>2 DEF EraseMail
  <2>4. CASE step = 3
    <3>1. inbox' \in {None, <<"scope">>, <<"damaged">>} /\ rom'.expects = "scope"
      BY <1>1, <1>3, <2>1, <2>4 DEF Sent, Message, Starts, EraseMail, Quiet
    <3>2. step' = 4 /\ Mail({"scope", "damaged"}, {})'
      BY <2>1, <2>4, <3>1 DEF Mail
    <3> QED
      BY <1>2, <2>2, <3>1, <3>2 DEF EraseMail
  <2> QED
    BY <2>1, <2>3, <2>4
<1>4. CASE Acked
  <2>1. /\ step \in {2, 4} /\ Steps = 4 /\ inbox = None /\ reply' = None
        /\ UNCHANGED <<inbox, rom, prog>>
    BY <1>1, <1>4, NoneAssumption DEF Acked, AtRx, Starts, Steps
  <2>2. step' = step + 1 \/ (step = 4 /\ step' = 0)
    BY <1>4, <2>1 DEF Acked
  <2>3. CASE step = 2
    <3>1. step' = 3 /\ rom'.expects = "scope"
      BY <1>1, <1>4, <2>1, <2>2, <2>3 DEF EraseMail, Acked
    <3> QED
      BY <1>2, <2>1, <3>1 DEF EraseMail, Quiet
  <2>4. CASE step = 4
    <3>1. rom'.expects = "command" /\ \A i \in Pages : prog'[i] = Erased
      BY <1>1, <1>4, <2>1, <2>4 DEF EraseMail, Acked
    <3>2. step' \in {0, 5}
      BY <2>2, <2>4
    <3> QED
      BY <1>2, <2>1, <3>1, <3>2 DEF EraseMail
  <2> QED
    BY <2>1, <2>3, <2>4
<1>5. CASE Failed
  BY <1>2, <1>5 DEF Failed, EraseMail
<1>6. CASE ResetDone \/ Listed \/ Fetched
  BY <1>6 DEF ResetDone, Listed, Fetched, AtReset, AtList, AtData, Starts
<1> QED
  BY <1>2, <1>3, <1>4, <1>5, <1>6

\* The target is told to run its application.
LEMMA GoesMail ==
  ASSUME IInv, BootloaderDriver, pc = "go"
  PROVE  GoMail'
<1>1. TypeOK /\ GoMail
  BY DEF IInv, CoreInv, MailInv
<1>2. /\ pc' = pc
      /\ ResetDone \/ Sent \/ Acked \/ Listed \/ Fetched \/ Failed
  BY <1>1, DriverActs
<1>3. CASE Sent
  <2>1. step \in {1, 3} /\ UNCHANGED rom
    BY <1>3 DEF Sent, AtTx, Starts
  <2>2. inbox' \in {inbox, <<"command", "GO">>, <<"address", 1>>, <<"damaged">>}
    BY <1>3, <2>1 DEF Sent, Message, Starts
  <2>3. Mail({"command", "address", "damaged"}, {"GO"})'
    BY <1>1, <2>2 DEF GoMail, Mail
  <2> QED
    BY <1>1, <2>1, <2>3 DEF GoMail
<1>4. CASE Acked \/ Failed
  BY <1>1, <1>4 DEF Acked, Failed, GoMail, Mail
<1>5. CASE ResetDone \/ Listed \/ Fetched
  BY <1>5 DEF ResetDone, Listed, Fetched, AtReset, AtList, AtData, Starts
<1> QED
  BY <1>2, <1>3, <1>4, <1>5

LEMMA DriverMail ==
  ASSUME IInv, BootloaderDriver
  PROVE  MailInv'
<1>1. TypeOK /\ MailInv
  BY DEF IInv, CoreInv
<1>2. /\ UNCHANGED <<board, pc, at>>
      /\ ResetDone \/ Sent \/ Acked \/ Listed \/ Fetched \/ Failed
  BY <1>1, DriverActs
<1>3. reply' # None => inbox' = None
  BY <1>1, <1>2 DEF MailInv, ResetDone, Sent, Acked, Listed, Fetched, Failed
<1>4. Starts \/ pc \in {"scan", "write", "erase", "go"}
  BY <1>1, BootloaderPlace
<1>5. mode' # "SUPERVISOR"
  BY <1>2, <1>4 DEF IInv, RoleInv, SpiRole, Starts
<1>6. /\ ~Starts => StartMail'
      /\ pc \notin {"scan", "reconnect"} => ScanMail'
      /\ pc # "erase" => EraseMail'
      /\ pc \notin {"write", "reenter"} => WriteMail'
      /\ pc # "go" => GoMail'
  BY <1>2, <1>4, <1>5 DEF StartMail, ScanMail, EraseMail, WriteMail, GoMail, Starts
<1> QED
  BY <1>3, <1>4, <1>6, StartsMail, ScansMail, WritesMail, ErasesMail, GoesMail
     DEF MailInv, Starts

\* The main thread comes to a label.
LEMMA CallerMail ==
  ASSUME IInv, Caller
  PROVE  MailInv'
<1>1. TypeOK /\ LoopInv /\ MailInv /\ RoleInv
  BY DEF IInv, CoreInv
<1>2. /\ prog' = prog
      /\ \/ UNCHANGED <<rom, inbox, reply>>
         \/ pc = "connect" /\ inbox' = None /\ reply' = None
  BY CallerFootprint
<1>3. Arrives /\ Passing
  BY <1>1, Arrival
<1>4. pc' # "idle" => UNCHANGED <<rom, inbox, reply>> /\ (pc' # "stopped" => step' = 1)
  BY <1>3 DEF Passing
<1>5. reply' # None => inbox' = None
  BY <1>1, <1>2 DEF MailInv
<1>6. StartMail'
  <2>1. CASE pc' \in {"quad", "connect", "stopped"}
    <3>1. pc \in {"init", "quad", "stopped"}
      BY <1>3, <2>1 DEF Arrives, ToQuad, ToConnect, ToStopped, Returned
    <3> QED
      BY <1>1, <1>4, <2>1, <3>1 DEF MailInv, StartMail, Quiet
  <2>2. CASE pc' \in {"reconnect", "enter", "reenter"}
    BY <1>4, <2>2 DEF StartMail
  <2>3. CASE pc' = "load"
    <3>1. GreetingMail /\ rom.expects \in Greeting
      <4>1. CASE Returned("erase") /\ ret
        BY <1>1, <4>1 DEF MailInv, EraseMail, Returned, GreetingMail, Greeting, Mail
      <4>2. CASE pc = "load"
        BY <1>1, <4>2 DEF MailInv, StartMail
      <4>3. CASE Returned("write") /\ ret
        BY <1>1, <4>3 DEF MailInv, WriteMail, Returned, GreetingMail, Greeting, Mail
      <4>4. CASE Returned("reenter")
        BY <1>1, <4>4 DEF MailInv, StartMail, Returned
      <4> QED
        BY <1>3, <2>3, <4>1, <4>2, <4>3, <4>4 DEF Arrives, ToLoad, Returned
    <3> QED
      BY <1>4, <2>3, <3>1 DEF StartMail, GreetingMail, Mail
  <2>4. CASE pc' \notin {"quad", "connect", "stopped", "reconnect", "enter", "reenter", "load"}
    BY <1>3, <2>4 DEF StartMail, Arrives, Labels
  <2> QED
    BY <2>1, <2>2, <2>3, <2>4
<1>7. ScanMail'
  <2>1. CASE pc' = "scan"
    <3>1. GreetingMail /\ rom.expects \in Greeting \cup {"command"}
      <4>1. CASE Returned("connect") /\ ret
        BY <1>1, <4>1 DEF MailInv, StartMail, Returned
      <4>2. CASE Returned("scan") /\ ret
        BY <1>1, <4>2 DEF MailInv, ScanMail, Quiet, Returned, GreetingMail, Mail
      <4>3. CASE Returned("reconnect")
        BY <1>1, <4>3 DEF MailInv, StartMail, Returned
      <4> QED
        BY <1>3, <2>1, <4>1, <4>2, <4>3 DEF Arrives, ToScan
    <3> QED
      BY <1>4, <2>1, <3>1 DEF ScanMail, AddressMail, GreetingMail, Greeting, Mail
  <2>2. CASE pc' = "reconnect"
    <3>1. pc = "scan"
      BY <1>3, <2>2 DEF Arrives, ToReconnect, Returned
    <3> QED
      BY <1>1, <1>4, <2>2, <3>1 DEF MailInv, ScanMail, Mail
  <2>3. CASE pc' \notin {"scan", "reconnect"}
    BY <2>3 DEF ScanMail
  <2> QED
    BY <2>1, <2>2, <2>3
<1>8. EraseMail'
  <2>1. CASE pc' = "erase"
    <3>1. Quiet("command")
      BY <1>1, <1>3, <2>1 DEF Arrives, ToErase, Returned, MailInv, StartMail
    <3> QED
      BY <1>4, <2>1, <3>1 DEF EraseMail, Quiet
  <2>2. CASE pc' # "erase"
    BY <2>2 DEF EraseMail
  <2> QED
    BY <2>1, <2>2
<1>9. WriteMail'
  <2>1. CASE pc' = "write"
    <3>1. GreetingMail /\ rom.expects \in Greeting
      BY <1>1, <1>3, <2>1 DEF Arrives, ToWrite, Returned, MailInv, StartMail
    <3> QED
      BY <1>4, <2>1, <3>1 DEF WriteMail, AddressMail, Addressed, GreetingMail, Greeting, Mail
  <2>2. CASE pc' = "reenter"
    <3>1. pc = "write" /\ at' = at /\ image' = image
      BY <1>3, <2>2 DEF Arrives, Passing, ToReenter, Returned
    <3> QED
      BY <1>1, <1>4, <2>2, <3>1 DEF MailInv, WriteMail, Mail, Addressed
  <2>3. CASE pc' \notin {"write", "reenter"}
    BY <2>3 DEF WriteMail
  <2> QED
    BY <2>1, <2>2, <2>3
<1>10. GoMail'
  <2>1. CASE pc' = "go"
    <3>1. inbox = None /\ rom.expects = "command"
      <4>1. CASE Returned("scan") /\ ret
        BY <1>1, <4>1 DEF MailInv, ScanMail, Quiet, Returned
      <4>2. CASE Returned("write") /\ ret
        BY <1>1, <4>2 DEF MailInv, WriteMail, Returned
      <4> QED
        BY <1>3, <2>1, <4>1, <4>2 DEF Arrives, ToGo
    <3> QED
      BY <1>4, <2>1, <3>1 DEF GoMail, Mail
  <2>2. CASE pc' # "go" /\ mode' = "SUPERVISOR"
    <3>1. pc = "go" \/ mode = "SUPERVISOR"
      <4>1. pc' = "idle" => pc = "go" \/ mode = "SUPERVISOR"
        BY <1>3, <2>2 DEF Arrives, ToIdle
      <4>2. pc' \notin {"idle", "enter", "clear"} => mode = "SUPERVISOR"
        BY <1>3, <2>2 DEF Passing
      <4>3. pc' \notin {"enter", "clear"}
        BY <1>3, <2>2 DEF Arrives, ToEnter, ToClear
      <4> QED
        BY <4>1, <4>2, <4>3
    <3>2. pc # "connect"
      BY <1>1, <3>1 DEF RoleInv, SpiRole
    <3> QED
      BY <1>1, <1>2, <3>1, <3>2 DEF MailInv, GoMail, Mail
  <2>3. CASE pc' # "go" /\ mode' # "SUPERVISOR"
    BY <2>3 DEF GoMail
  <2> QED
    BY <2>1, <2>2, <2>3
<1> QED
  BY <1>5, <1>6, <1>7, <1>8, <1>9, <1>10 DEF MailInv

\* The mailbox is unchanged by the flash driver, the chip and a stutter.
LEMMA MailStep ==
  ASSUME IInv, [Next]_vars
  PROVE  MailInv'
<1>1. TypeOK /\ MailInv /\ RoleInv
  BY DEF IInv, CoreInv
<1>2. CASE ChipDone \/ UNCHANGED vars
  <2>1. UNCHANGED <<prog, rom, inbox, reply, pc, step, ret, at, image, mode>>
    BY <1>2 DEF ChipDone
  <2> QED
    BY <1>1, <2>1
       DEF MailInv, StartMail, ScanMail, EraseMail, WriteMail, GoMail, AddressMail, Addressed,
           Quiet, GreetingMail, Mail
<1>3. CASE FlashDriver
  <2>1. /\ DriverStep /\ UNCHANGED <<prog, rom, inbox, reply>>
        /\ AtWait \/ AtEnable \/ AtSend \/ AtRegister \/ AtReceive
    <3>1. DriverStep /\ UNCHANGED target
      BY <1>1, <1>3, FlashSteps
    <3>2. \/ Doing("wait") \/ Doing("enable") \/ Doing("send") \/ Doing("register")
          \/ Doing("receive")
      BY <1>3 DEF FlashDriver, Wait, WriteEnable, SendInstruction, ReadRegister, ReadPage
    <3>3. step # 0
      BY <3>1 DEF DriverStep
    <3> QED
      BY <1>1, <3>1, <3>2, <3>3, Where
  <2>2. pc \in {"init", "quad", "clear", "program", "verify", "readback", "load"}
    BY <2>1 DEF AtWait, AtEnable, AtSend, AtRegister, AtReceive
  <2>3. pc' = pc /\ mode' = mode
    BY <2>1 DEF DriverStep
  <2>4. mode # "SUPERVISOR"
    BY <1>1, <2>2 DEF RoleInv, SpiRole
  <2> QED
    BY <1>1, <2>1, <2>2, <2>3, <2>4
       DEF MailInv, StartMail, ScanMail, EraseMail, WriteMail, GoMail, Quiet, GreetingMail, Mail
<1> QED
  BY <1>2, <1>3, RomMail, DriverMail, CallerMail DEF Next, Main, Caller

-----------------------------------------------------------------------------
(* SPI2 and the supervisor                                                 *)

LEMMA RoleStep ==
  ASSUME IInv, [Next]_vars
  PROVE  RoleInv'
<1>1. TypeOK /\ LoopInv /\ MailInv /\ TargetInv /\ RoleInv
  BY DEF IInv, CoreInv
<1>2. CASE UNCHANGED <<board, pc, status, image, prog>>
  BY <1>1, <1>2 DEF RoleInv, SpiRole, Holds
<1>3. CASE FlashDriver \/ BootloaderDriver
  <2>1. DriverStep
    BY <1>1, <1>3, FlashSteps, BootloaderSteps
  <2>2. UNCHANGED <<board, pc, status, image>> /\ pc # "idle"
    BY <2>1 DEF DriverStep, Working
  <2> QED
    BY <1>1, <2>2 DEF RoleInv, SpiRole
<1>4. CASE ChipDone
  BY <1>2, <1>4 DEF ChipDone
<1>5. CASE Rom
  <2>1. UNCHANGED <<board, pc, status, image>> /\ inbox # None
    BY <1>1, <1>5, RomActs
  <2>2. mode = "SUPERVISOR" => prog' = prog
    BY <1>1, <1>5, RomActs DEF RomEffect, MailInv, GoMail
  <2> QED
    BY <1>1, <2>1, <2>2 DEF RoleInv, SpiRole
<1>6. CASE Caller
  <2>1. Arrives /\ Passing
    BY <1>1, <1>6, Arrival
  <2>2. prog' = prog
    BY <1>6, CallerFootprint
  <2>3. pc' \in {"connect", "scan", "reconnect", "go", "enter", "erase", "load", "write",
                 "reenter", "quad", "init"} => spi' = "master"
    <3>1. CASE pc' = "enter"
      BY <2>1, <3>1 DEF Arrives, ToEnter
    <3>2. CASE pc' # "enter"
      BY <1>1, <2>1, <3>2
         DEF Arrives, Passing, RoleInv, SpiRole, ToQuad, ToConnect, ToScan, ToReconnect, ToGo,
             ToErase, ToLoad, ToWrite, ToReenter, Returned
    <3> QED
      BY <3>1, <3>2
  <2>4. ASSUME mode' = "SUPERVISOR"
        PROVE  pc' = "idle" /\ spi' = "slave" /\ Holds(prog', image') /\ status' = "OK"
    <3>1. pc' \notin {"enter", "clear"}
      BY <2>1, <2>4 DEF Arrives, ToEnter, ToClear
    <3>2. mode # "SUPERVISOR"
      <4> SUFFICES ASSUME mode = "SUPERVISOR" PROVE FALSE
        OBVIOUS
      <4>1. pc = "idle" /\ status = "OK"
        BY <1>1 DEF RoleInv, SpiRole
      <4> QED
        BY <2>1, <3>1, <4>1
           DEF Arrives, Labels, Returned, ToStopped, ToQuad, ToConnect, ToScan, ToReconnect,
               ToGo, ToIdle, ToProgram, ToReadBack, ToVerify, ToErase, ToLoad, ToWrite,
               ToReenter
    <3>3. pc' = "idle"
      BY <2>1, <2>4, <3>1, <3>2 DEF Passing
    <3>4. pc = "go" /\ spi' = "slave" /\ status' = "OK" /\ image' = image
      BY <2>1, <2>4, <3>2, <3>3 DEF Arrives, ToIdle
    <3> QED
      BY <1>1, <2>2, <3>3, <3>4 DEF TargetInv, GoesWithProgram
  <2> QED
    BY <2>3, <2>4 DEF RoleInv, SpiRole
<1>7. CASE UNCHANGED vars
  BY <1>2, <1>7
<1> QED
  BY <1>3, <1>4, <1>5, <1>6, <1>7 DEF Next, Main, Caller

-----------------------------------------------------------------------------
(* The target's flash                                                      *)

\* What a reset leaves while the bootloader cannot have been erasing, or was writing the
\* page of the loop.
LEMMA InterruptedFlash ==
  ASSUME TypeOK, NEW f \in Interrupted, inbox # None => rom.expects # "scope" \/ inbox[1] # "scope"
  PROVE  \/ f = prog
         \/ /\ inbox # None /\ rom.expects = "block" /\ inbox[1] = "block"
            /\ \E d \in SUBSET inbox[2] : f = [prog EXCEPT ![rom.at] = @ \cup d]
<1>1. CASE inbox # None /\ rom.expects = "block" /\ inbox[1] = "block"
  <2>1. Interrupted = {[prog EXCEPT ![rom.at] = @ \cup d] : d \in SUBSET inbox[2]}
    BY <1>1 DEF Interrupted
  <2> QED
    BY <1>1, <2>1
<1>2. CASE ~(inbox # None /\ rom.expects = "block" /\ inbox[1] = "block")
  BY <1>2 DEF Interrupted
<1> QED
  BY <1>1, <1>2

\* More bits of the program's page at the page of a loop disturb neither the pages before
\* it nor the purity of the flash.
LEMMA MorePage ==
  ASSUME TypeOK, pc \in {"load", "write", "reenter"}, at <= Len(image), TargetInv,
         NEW d \in SUBSET image[at], prog' = [prog EXCEPT ![at] = @ \cup d]
  PROVE  /\ \A i \in Pages : prog'[i] \subseteq Padded(image)[i]
         /\ \A i \in 1..(at - 1) : prog'[i] = image[i]
<1>1. /\ image \in Programs /\ prog \in [Pages -> Content] /\ Len(image) \in Pages
      /\ at \in Pages /\ MaxPages \in Nat
  BY TypeParts, PagesType DEF DataOK, TargetOK
<1>2. Padded(image)[at] = image[at]
  BY <1>1 DEF Padded
<1>3. /\ \A i \in Pages : prog[i] \subseteq Padded(image)[i]
      /\ \A i \in 1..(at - 1) : prog[i] = image[i]
  BY DEF TargetInv, NoMixture
<1>4. \A i \in 1..(at - 1) : i \in Pages /\ i # at
  BY <1>1 DEF Pages
<1> QED
  BY <1>1, <1>2, <1>3, <1>4

LEMMA TargetStep ==
  ASSUME IInv, [Next]_vars
  PROVE  TargetInv'
<1>1. TypeOK /\ LoopInv /\ BackupInv /\ MailInv /\ TargetInv
  BY DEF IInv, CoreInv
<1>2. /\ Len(image) \in Pages /\ 1 \in Pages /\ image \in Programs
      /\ prog \in [Pages -> Content] /\ (pc # "quad" => at \in Nat)
  BY <1>1, PagesType, TypeParts DEF DataOK, TargetOK, Pages
<1> USE DEF NoMixture, GoesWithProgram
<1>3. CASE UNCHANGED <<prog, pc, at, step, ret, buff, match, image>>
  BY <1>1, <1>3 DEF TargetInv, Holds
<1>4. CASE FlashDriver
  <2>1. /\ DriverStep /\ UNCHANGED prog
        /\ AtWait \/ AtEnable \/ AtSend \/ AtRegister \/ AtReceive
    <3>1. DriverStep /\ UNCHANGED target
      BY <1>1, <1>4, FlashSteps
    <3>2. \/ Doing("wait") \/ Doing("enable") \/ Doing("send") \/ Doing("register")
          \/ Doing("receive")
      BY <1>4 DEF FlashDriver, Wait, WriteEnable, SendInstruction, ReadRegister, ReadPage
    <3>3. step # 0
      BY <3>1 DEF DriverStep
    <3> QED
      BY <1>1, <3>1, <3>2, <3>3, Where
  <2>2. pc \in {"init", "quad", "clear", "program", "verify", "readback", "load"}
    BY <2>1 DEF AtWait, AtEnable, AtSend, AtRegister, AtReceive
  <2>3. UNCHANGED <<prog, pc, at, image>>
    BY <2>1 DEF DriverStep
  <2> QED
    BY <1>1, <2>2, <2>3 DEF TargetInv
<1>5. CASE BootloaderDriver
  <2>1. /\ UNCHANGED <<pc, at, match, image>>
        /\ ResetDone \/ Sent \/ Acked \/ Listed \/ Fetched \/ Failed
        /\ ResetDone \/ prog' = prog
    BY <1>1, <1>5, DriverActs
  <2>2. CASE ResetDone
    <3>1. step = 1 /\ Starts /\ step' = 2
      BY <2>2 DEF ResetDone, AtReset
    <3>2. prog' \in Interrupted
      <4>1. ~AtTx /\ ~AtRx /\ ~AtList /\ ~AtData
        BY <3>1 DEF AtTx, AtRx, AtList, AtData, Starts
      <4>2. ~(Doing("tx") \/ Doing("rx") \/ Doing("list") \/ Doing("data"))
        BY <1>1, <3>1, <4>1, Where
      <4> QED
        BY <1>5, <4>2
           DEF BootloaderDriver, ResetTarget, Transmit, TransmitFails, PollAck, PollNack,
               PollTimeout, ReceiveList, ReceiveData, ReceiveNothing
    <3>3. CASE pc = "reconnect"
      <4>1. inbox # None => inbox[1] \notin {"scope", "block"}
        BY <1>1, <3>3 DEF MailInv, ScanMail, Mail
      <4>2. prog' = prog
        BY <1>1, <3>2, <4>1, InterruptedFlash
      <4> QED
        BY <1>1, <2>1, <3>3, <4>2 DEF TargetInv
    <3>4. CASE pc = "reenter"
      <4>1. /\ inbox # None => inbox[1] # "scope"
            /\ inbox # None /\ inbox[1] = "block" => inbox[2] = image[at]
            /\ rom.expects = "block" => rom.at = at
        BY <1>1, <3>1, <3>4 DEF MailInv, WriteMail, Mail
      <4>2. \/ prog' = prog
            \/ \E d \in SUBSET image[at] : prog' = [prog EXCEPT ![at] = @ \cup d]
        BY <1>1, <3>2, <4>1, InterruptedFlash
      <4>3. CASE prog' = prog
        BY <1>1, <2>1, <3>4, <4>3 DEF TargetInv
      <4>4. CASE \E d \in SUBSET image[at] : prog' = [prog EXCEPT ![at] = @ \cup d]
        <5>1. PICK d \in SUBSET image[at] : prog' = [prog EXCEPT ![at] = @ \cup d]
          BY <4>4
        <5>2. at <= Len(image)
          BY <1>1, <3>4 DEF LoopInv
        <5>3. /\ \A i \in Pages : prog'[i] \subseteq Padded(image)[i]
              /\ \A i \in 1..(at - 1) : prog'[i] = image[i]
          BY <1>1, <3>4, <5>1, <5>2, MorePage
        <5>4. Padded(image)' = Padded(image)
          BY <2>1 DEF Padded
        <5> QED
          BY <2>1, <3>4, <5>3, <5>4 DEF TargetInv
      <4> QED
        BY <4>2, <4>3, <4>4
    <3>5. CASE pc \in {"connect", "enter"}
      BY <2>1, <3>5 DEF TargetInv
    <3> QED
      BY <3>1, <3>3, <3>4, <3>5 DEF Starts
  <2>3. CASE ~ResetDone
    <3>1. prog' = prog
      BY <2>1, <2>3
    <3>2. pc = "scan" /\ step' = 0 /\ ret' /\ buff' = image[at] => prog[at] = image[at]
      <4> SUFFICES ASSUME pc = "scan", step' = 0, ret', buff' = image[at]
                   PROVE  prog[at] = image[at]
        OBVIOUS
      <4>1. Fetched
        <5>1. ~Sent /\ ~Failed
          BY DEF Sent, Failed, AtTx, Starts
        <5>2. ~Listed
          BY DEF Listed, AtList, Starts
        <5>3. ~Acked
          BY DEF Acked, AtRx, Steps, Starts
        <5> QED
          BY <2>1, <2>3, <5>1, <5>2, <5>3
      <4>2. rom.at = at
        BY <1>1, <4>1 DEF Fetched, AtData, MailInv, ScanMail, Quiet
      <4> QED
        BY <4>1, <4>2 DEF Fetched
    <3>3. Padded(image)' = Padded(image)
      BY <2>1 DEF Padded
    <3> QED
      BY <1>1, <2>1, <3>1, <3>2, <3>3 DEF TargetInv, Holds
  <2> QED
    BY <2>2, <2>3
<1>6. CASE Rom
  <2>1. inbox # None /\ UNCHANGED <<pc, at, step, ret, buff, match, image>> /\ RomEffect
    BY <1>1, <1>6, RomActs
  <2>2. CASE pc \in {"scan", "reconnect", "load", "go"}
    <3>1. inbox[1] \notin {"scope", "block"}
      BY <1>1, <2>1, <2>2 DEF MailInv, StartMail, ScanMail, GoMail, GreetingMail, Mail
    <3>2. prog' = prog
      BY <2>1, <3>1 DEF RomEffect
    <3> QED
      BY <1>3, <2>1, <3>2
  <2>3. CASE pc \in {"write", "reenter"}
    <3>1. /\ inbox[1] # "scope"
          /\ inbox[1] = "block" /\ rom.expects = "block" =>
               inbox[2] = image[at] /\ rom.at = at
      BY <1>1, <2>1, <2>3
         DEF MailInv, StartMail, WriteMail, GreetingMail, Mail
    <3>2. prog' = prog \/ prog' = [prog EXCEPT ![at] = @ \cup image[at]]
      BY <2>1, <3>1 DEF RomEffect
    <3>3. CASE prog' = prog
      BY <1>3, <2>1, <3>3
    <3>4. CASE prog' = [prog EXCEPT ![at] = @ \cup image[at]]
      <4>1. at <= Len(image) /\ image[at] \in SUBSET image[at]
        BY <1>1, <2>3 DEF LoopInv
      <4>2. /\ \A i \in Pages : prog'[i] \subseteq Padded(image)[i]
            /\ \A i \in 1..(at - 1) : prog'[i] = image[i]
        BY <1>1, <2>3, <3>4, <4>1, MorePage
      <4>3. Padded(image)' = Padded(image)
        BY <2>1 DEF Padded
      <4> QED
        BY <2>1, <2>3, <4>2, <4>3 DEF TargetInv
    <3> QED
      BY <3>2, <3>3, <3>4
  <2>4. CASE pc \notin {"scan", "reconnect", "load", "go", "write", "reenter"}
    BY <2>1, <2>4 DEF TargetInv
  <2> QED
    BY <2>2, <2>3, <2>4
<1>7. CASE Caller
  <2>1. Arrives /\ Passing
    BY <1>1, <1>7, Arrival
  <2>2. prog' = prog
    BY <1>7, CallerFootprint
  <2>3. CASE pc' = "scan"
    <3>1. step' = 1 /\ image' = image
      BY <2>1, <2>3 DEF Passing
    <3>2. match' => \A i \in 1..(at' - 1) : prog[i] = image[i]
      <4>1. CASE at' = 1
        BY <4>1
      <4>2. CASE Returned("reconnect") /\ at' = at /\ UNCHANGED local
        BY <1>1, <4>2 DEF TargetInv, Returned
      <4>3. CASE Returned("scan") /\ ret /\ at' = at + 1 /\ Hash
        <5>1. at \in Nat
          BY <1>2, <4>3 DEF Returned
        <5>2. match' => match /\ buff = image[at]
          BY <4>3 DEF Hash
        <5>3. match' => prog[at] = image[at]
          BY <1>1, <4>3, <5>2 DEF TargetInv, Returned
        <5>4. match => \A i \in 1..(at - 1) : prog[i] = image[i]
          BY <1>1, <4>3 DEF TargetInv, Returned
        <5>5. match' => \A i \in 1..((at + 1) - 1) : prog[i] = image[i]
          BY <5>1, <5>2, <5>3, <5>4, OneMore
        <5> QED
          BY <4>3, <5>5
      <4> QED
        BY <2>1, <2>3, <4>1, <4>2, <4>3 DEF Arrives, ToScan
    <3> QED
      BY <2>2, <2>3, <3>1, <3>2 DEF TargetInv
  <2>4. CASE pc' = "reconnect"
    <3>1. pc = "scan" /\ at' = at /\ (match' <=> match) /\ image' = image
      BY <2>1, <2>4 DEF Arrives, Passing, ToReconnect, Returned
    <3> QED
      BY <1>1, <2>2, <2>4, <3>1 DEF TargetInv
  <2>5. CASE pc' = "load"
    <3>1. image' = image /\ Padded(image)' = Padded(image)
      BY <2>1, <2>5 DEF Passing, Padded
    <3>2. CASE Returned("erase") /\ ret /\ at' = 1
      <4>1. \A i \in Pages : prog[i] = Erased
        BY <1>1, <3>2 DEF MailInv, EraseMail, Returned
      <4> QED
        BY <2>2, <2>5, <3>1, <3>2, <4>1 DEF TargetInv, Erased
    <3>3. CASE pc \in {"load", "reenter"} /\ at' = at
      BY <1>1, <2>2, <2>5, <3>1, <3>3 DEF TargetInv
    <3>4. CASE Returned("write") /\ ret /\ at' = at + 1
      <4>1. at \in Nat
        BY <1>2, <3>4 DEF Returned
      <4>2. prog[at] = image[at] /\ \A i \in 1..(at - 1) : prog[i] = image[i]
        BY <1>1, <3>4 DEF MailInv, WriteMail, TargetInv, Returned
      <4>3. \A i \in 1..((at + 1) - 1) : prog[i] = image[i]
        BY <4>1, <4>2, OneMore
      <4>4. \A i \in Pages : prog[i] \subseteq Padded(image)[i]
        BY <1>1, <3>4 DEF TargetInv, Returned
      <4> QED
        BY <2>2, <2>5, <3>1, <3>4, <4>3, <4>4 DEF TargetInv
    <3> QED
      BY <2>1, <2>5, <3>2, <3>3, <3>4 DEF Arrives, ToLoad, Returned
  <2>6. CASE pc' \in {"write", "reenter"}
    <3>1. image' = image /\ Padded(image)' = Padded(image)
      BY <2>1, <2>6 DEF Passing, Padded
    <3>2. pc \in {"load", "write"} /\ at' = at
      BY <2>1, <2>6 DEF Arrives, ToWrite, ToReenter, Returned
    <3> QED
      BY <1>1, <2>2, <2>6, <3>1, <3>2 DEF TargetInv
  <2>7. CASE pc' = "go"
    <3>1. image' = image
      BY <2>1, <2>7 DEF Passing
    <3>2. CASE Returned("scan") /\ ret /\ at = Len(image) /\ match /\ buff = image[at]
      <4>1. prog[at] = image[at] /\ \A i \in 1..(at - 1) : prog[i] = image[i]
        BY <1>1, <3>2 DEF TargetInv, Returned
      <4>2. at \in Nat
        BY <1>2, <3>2 DEF Returned
      <4> QED
        BY <2>2, <2>7, <3>1, <3>2, <4>1, <4>2, LastPage DEF TargetInv
    <3>3. CASE Returned("write") /\ ret /\ ~(at < Len(image))
      <4>1. prog[at] = image[at] /\ \A i \in 1..(at - 1) : prog[i] = image[i]
        BY <1>1, <3>3 DEF MailInv, WriteMail, TargetInv, Returned
      <4>2. at \in Nat /\ at = Len(image)
        BY <1>1, <1>2, <3>3 DEF LoopInv, Returned, Pages
      <4> QED
        BY <2>2, <2>7, <3>1, <4>1, <4>2, LastPage DEF TargetInv
    <3> QED
      BY <2>1, <2>7, <3>2, <3>3 DEF Arrives, ToGo
  <2>8. CASE pc' \notin {"scan", "reconnect", "load", "write", "reenter", "go"}
    BY <2>8 DEF TargetInv
  <2> QED
    BY <2>3, <2>4, <2>5, <2>6, <2>7, <2>8
<1>8. CASE ChipDone \/ UNCHANGED vars
  BY <1>3, <1>8 DEF ChipDone
<1> QED
  BY <1>4, <1>5, <1>6, <1>7, <1>8 DEF Next, Main, Caller

-----------------------------------------------------------------------------
(* The theorems                                                            *)

LEMMA InitType == Init => TypeOK
<1> SUFFICES ASSUME Init PROVE TypeOK
  OBVIOUS
<1>1. ThreadOK
  <2>1. pc = "init" /\ at = 1 /\ step = 1 /\ ret \in BOOLEAN
    BY DEF Init
  <2>2. Working /\ Steps = 11
    BY <2>1 DEF Working, Labels, Steps, Starts
  <2>3. Len(Code) = 11
    BY <2>2, CodeLength
  <2>4. MaxPages \in Nat \ {0}
    BY BoundsAssumption
  <2> QED
    BY <2>1, <2>3, <2>4 DEF ThreadOK, Labels
<1>2. PICK q \in BOOLEAN, p \in Programs :
        /\ cells = [page |-> Padded(p), quad |-> q]
        /\ prog \in {Padded(image), Padded(p)}
  BY DEF Init
<1>3. Padded(p) \in [Pages -> Content] /\ Padded(image) \in [Pages -> Content]
  BY ProgramType DEF Init
<1>4. ChipOK
  <2>1. wel = FALSE /\ work = None
    BY DEF Init
  <2> QED
    BY <1>2, <1>3, <2>1 DEF ChipOK, Cells
<1>5. TargetOK
  <2>1. 1 \in Pages
    BY BoundsAssumption DEF Pages
  <2>2. /\ app = FALSE /\ inbox = None /\ reply = None /\ supported = {}
        /\ rom = [expects |-> "nothing", cmd |-> "GET", at |-> 1]
    BY DEF Init
  <2> QED
    BY <1>2, <1>3, <2>1, <2>2 DEF TargetOK
<1>6. DataOK
  BY BoundsAssumption DEF Init, DataOK, Erased, Content
<1>7. RestOK
  BY BoundsAssumption DEF Init, RestOK, MX_SPI2_Init
<1> QED
  BY <1>1, <1>4, <1>5, <1>6, <1>7, TypeParts

LEMMA InitCore == Init => CoreInv
<1> SUFFICES ASSUME Init PROVE CoreInv
  OBVIOUS
<1>1. pc = "init" /\ step = 1 /\ ~Busy
  BY DEF Init, Busy
<1> QED
  BY <1>1, InitType DEF CoreInv, LoopInv, QuadInv

LEMMA InitInv == Init => IInv
<1> SUFFICES ASSUME Init PROVE IInv
  OBVIOUS
<1>1. /\ pc = "init" /\ step = 1 /\ ~Busy /\ spi = "master" /\ mode = "UPDATER"
      /\ inbox = None /\ reply = None /\ rom.expects = "nothing"
  BY DEF Init, Busy, MX_SPI2_Init
<1>2. IdleInv /\ StoreInv /\ BackupInv
  BY <1>1 DEF IdleInv, StoreInv, BackupInv, CopiesRecordedProgram
<1>3. MailInv
  BY <1>1 DEF MailInv, StartMail, ScanMail, EraseMail, WriteMail, GoMail, Quiet
<1>4. TargetInv /\ RoleInv
  BY <1>1 DEF TargetInv, NoMixture, GoesWithProgram, RoleInv, SpiRole
<1> QED
  BY <1>2, <1>3, <1>4, InitCore DEF IInv

\* What holds whatever fails how often: types, no call without a function that is running
\* and no function that rests anywhere but in its caller's loop, and a quad enable bit that
\* is set or about to be (fvc.c:747-805, w25q_mem.c:66-130).
THEOREM CoreHolds == Spec => []CoreInv
<1>1. CoreInv /\ [Next]_vars => CoreInv'
  BY TypeStep, LoopStep, QuadStep DEF CoreInv
<1> QED
  BY InitCore, <1>1, PTL DEF Spec

\* Every variable keeps its range, whatever fails how often: a loop of the restore stays
\* within the program that is recorded and one of the update within the one that comes,
\* so no page beyond either flash is asked for (fvc.c:178, 353-403, 279-302).
THEOREM TypeCorrect == Spec => []TypeOK
<1>1. CoreInv => TypeOK
  BY DEF CoreInv
<1> QED
  BY CoreHolds, <1>1, PTL

\* The chip comes out of the start in quad mode, whatever fails how often: the first write
\* of the bit meets an idle chip whose latch is set, or W25Q_Init fails and the board
\* stops; nothing takes the bit back (w25q_mem.c:66-130, fvc.c:772-779).
THEOREM QuadModeStays == Spec => []QuadEnabled
<1>1. CoreInv => QuadEnabled
  BY DEF CoreInv, QuadInv, QuadEnabled, TypeOK, Labels
<1> QED
  BY CoreHolds, <1>1, PTL

\* The whole invariant, as long as of the failures that nobody notices at most one falls
\* between two updates.
THEOREM Invariant ==
  ASSUME MaxUnnoticed <= 1
  PROVE  Spec => []IInv
<1>1. IInv /\ [Next]_vars => IInv'
  <2> SUFFICES ASSUME IInv, [Next]_vars PROVE IInv'
    OBVIOUS
  <2>1. CoreInv'
    BY TypeStep, LoopStep, QuadStep DEF IInv, CoreInv
  <2> QED
    BY <2>1, IdleStep, StoreStep, BackupStep, MailStep, TargetStep, RoleStep DEF IInv
<1> QED
  BY InitInv, <1>1, PTL DEF Spec

\* What is copied to the target is the recorded program, if at most one failure goes
\* unnoticed: an erase or a page program that is lost leaves a page that differs from what
\* is compared with it, and a comparison that is deceived needs a second failure
\* (fvc.c:348-403, fvc_backup_management.c:99-118).
THEOREM CopiesOnlyRecorded ==
  ASSUME MaxUnnoticed <= 1
  PROVE  Spec => []CopiesRecordedProgram
<1>1. IInv => CopiesRecordedProgram
  BY DEF IInv, BackupInv
<1> QED
  BY Invariant, <1>1, PTL

\* A copy never adds a page of the program to what was there before, however the answers
\* of the bootloader are lost, late or damaged (fvc.c:257-304).
THEOREM NeverMixes ==
  ASSUME MaxUnnoticed <= 1
  PROVE  Spec => []NoMixture
<1>1. IInv => NoMixture
  BY DEF IInv, TargetInv
<1> QED
  BY Invariant, <1>1, PTL

\* The application is started only when the target holds what is recorded: each page that
\* the copy counts as written was written, and each page the validation counts as right
\* was read from where it belongs (fvc.c:158-225, 271-304).
THEOREM RunsOnlyRecorded ==
  ASSUME MaxUnnoticed <= 1
  PROVE  Spec => []GoesWithProgram
<1>1. IInv => GoesWithProgram
  BY DEF IInv, TargetInv
<1> QED
  BY Invariant, <1>1, PTL

\* The bootloader is always spoken to by a master, and the supervisor never listens but to
\* a target that holds the recorded program, which no late message changes any more
\* (fvc.c:430-452, 716-728, BSP/bsp.c:169-217).
THEOREM RolesOfSpi ==
  ASSUME MaxUnnoticed <= 1
  PROVE  Spec => []SpiRole
<1>1. IInv => SpiRole
  BY DEF IInv, RoleInv
<1> QED
  BY Invariant, <1>1, PTL

==============================================================================
