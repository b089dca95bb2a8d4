---------------------------- MODULE HostUpdate -----------------------------
(***************************************************************************)
(* The host's update tool (Python/main.py, Python/usart_process.py) with a *)
(* board's update handler (FVC/fvc.c) on the other end of a serial line.   *)
(*                                                                         *)
(* The tool updates the boards of a list one after the other.  It asks for *)
(* an update, sends the program packet by packet, each one after the       *)
(* answer to the one before, and waits for the board to finish.  Packets   *)
(* and answers have no sequence numbers.  The line loses, garbles and      *)
(* splits frames; both sides have timers, counted here in seconds, which   *)
(* elapse only when nothing else is left to do.                            *)
(*                                                                         *)
(* The line ends at one board.  Its identity is BoardId, 1 in this build   *)
(* (fvc_main writes it at every start); the list may name others.          *)
(***************************************************************************)
EXTENDS Integers, Sequences

CONSTANTS
  BoardId,        \* the board's identity
  Lists,          \* lists of boards the tool may be started with
  Packets,        \* packets of the program
  MaxRetransfers, \* _max_retransfers
  RetryLimit,     \* the 3 of "retry_counter > 3"
  HostTimeout,    \* _default_timeout_value_ns
  EndTimeout,     \* _timeout_for_end_of_update
  BoardTimeout,   \* the 3000 ms of bsp_interface_receive
  MaxSwallow,     \* bound: frames that make up for the bytes missing in a broken one
  MaxFaults       \* bound: faults of the line and of the board's memories

ASSUME ListsAssumption   == \A l \in Lists : l \in Seq(Nat)
ASSUME PacketsAssumption == Packets \in Nat
ASSUME LimitsAssumption  == MaxRetransfers \in Nat /\ RetryLimit \in Nat
ASSUME TimeAssumption    ==
  /\ HostTimeout \in Nat /\ EndTimeout \in Nat /\ BoardTimeout \in Nat
ASSUME BoundAssumption   == MaxSwallow \in Nat /\ MaxFaults \in Nat

VARIABLES
  list,      \* boards_to_update
  k,         \* the process of updateManagerProcess that runs
  at,        \* where it is: "start", "loop", "answer", "final", "done"
  state,     \* state of boardUpdateProcess
  pos,       \* packets read from the file
  retr,      \* retransfers_counter
  sent,      \* update_status
  ht,        \* what is left of parseData's timeout
  ended,     \* updateEndEventDict: the boards whose event is set
  result,    \* what each process printed of its update
  out,       \* its txQueue and the serial process's
  up,        \* the serial process's rx_queue
  rxq,       \* updateQueueDictRx[BoardId]; no other board's queue ever gets a frame
  need,      \* frames the serial process's read still waits for
  cli,       \* the main process
  closed,    \* parserCloseEvent and serialPortCloseEvent
  bpc,       \* where the board is
  mail,      \* its mailbox
  deaf,      \* its reception is not armed
  bin,       \* frames that its blocking receive gets
  say,       \* answers that it transmits
  got,       \* packets it programmed
  bretry,    \* its retry_counter
  bt,        \* what is left of its receive's timeout
  installed, \* the packets of the target's program
  faults, lost   \* what is left of the bound, and the types of frames that were hit

update  == <<k, at, state, pos, retr, sent, ht, ended, result>>
serial  == <<out, up, rxq, need>>
tool    == <<cli, closed>>
board   == <<bpc, mail, deaf, bin, say, got, bretry, bt, installed>>
nofault == UNCHANGED <<faults, lost>>
vars    == <<list, update, serial, tool, board, faults, lost>>

None    == [type |-> "none", dst |-> 0, n |-> 0]
Garbage == [type |-> "garbage", dst |-> 0, n |-> 0]
BadLength == [type |-> "bad length", dst |-> 0, n |-> 0]
UpdateRequest(b)  == [type |-> "UPDATE_REQUEST", dst |-> b, n |-> 0]
ProgramData(b, n) == [type |-> "PROGRAM_DATA", dst |-> b, n |-> n]

Answers == {"ACK", "NACK", "FATAL_ERROR", "FINISHED"}
Program == [n \in 1..Packets |-> n]
Ids     == {list[i] : i \in DOMAIN list}
id      == list[k]
Runs    == cli # "exited"
Awaits  == Runs /\ at \in {"answer", "final"}
HasAnswer == id = BoardId /\ rxq # <<>>

Fault(t) == faults > 0 /\ faults' = faults - 1 /\ lost' = lost \cup {t}

-----------------------------------------------------------------------------
(* boardUpdateProcess, one for each board of updateManagerProcess's list   *)

StartUpdate ==
  /\ Runs /\ at = "start"
  /\ at' = "loop" /\ state' = 0 /\ pos' = 0 /\ retr' = 0 /\ sent' = FALSE
  /\ UNCHANGED <<list, k, ht, ended, result, serial, tool, board>> /\ nofault

\* State 0: the update request.
Request ==
  /\ Runs /\ at = "loop" /\ id \notin ended /\ state = 0
  /\ out' = Append(out, UpdateRequest(id))
  /\ at' = "answer" /\ ht' = HostTimeout
  /\ UNCHANGED <<list, k, state, pos, retr, sent, ended, result, up, rxq, need, tool, board>>
  /\ nofault

\* State 1: the next packet, or the end of the file.
Prepare ==
  /\ Runs /\ at = "loop" /\ id \notin ended /\ state = 1
  /\ retr' = 0
  /\ IF pos < Packets
     THEN pos' = pos + 1 /\ state' = 2 /\ UNCHANGED <<sent, ended>>
     ELSE sent' = TRUE /\ ended' = ended \cup {id} /\ UNCHANGED <<pos, state>>
  /\ UNCHANGED <<list, k, at, ht, result, serial, tool, board>> /\ nofault

\* State 2: the packet, again after each NACK.
Send ==
  /\ Runs /\ at = "loop" /\ id \notin ended /\ state = 2 /\ retr < MaxRetransfers
  /\ out' = Append(out, ProgramData(id, pos))
  /\ at' = "answer" /\ ht' = HostTimeout
  /\ UNCHANGED <<list, k, state, pos, retr, sent, ended, result, up, rxq, need, tool, board>>
  /\ nofault

GiveUp ==
  /\ Runs /\ at = "loop" /\ id \notin ended /\ state = 2 /\ retr >= MaxRetransfers
  /\ ended' = ended \cup {id}
  /\ UNCHANGED <<list, k, at, state, pos, retr, sent, ht, result, serial, tool, board>> /\ nofault

\* Mutant: after a NACK the next packet is sent.
AnswerSkips ==
  /\ Runs /\ at = "answer" /\ HasAnswer
  /\ at' = "loop" /\ rxq' = Tail(rxq)
  /\ IF Head(rxq) = "ACK" \/ (Head(rxq) = "NACK" /\ state = 2)
     THEN state' = 1 /\ UNCHANGED <<retr, ended>>
     ELSE ended' = ended \cup {id} /\ UNCHANGED <<state, retr>>
  /\ UNCHANGED <<list, k, pos, sent, ht, result, out, up, need, tool, board>> /\ nofault

\* An answer: an ACK, a NACK to a packet, or anything else, which ends the update.
Answer ==
  /\ Runs /\ at = "answer" /\ HasAnswer
  /\ at' = "loop" /\ rxq' = Tail(rxq)
  /\ CASE Head(rxq) = "ACK" -> state' = 1 /\ UNCHANGED <<retr, ended>>
       [] Head(rxq) = "NACK" /\ state = 2 -> retr' = retr + 1 /\ UNCHANGED <<state, ended>>
       [] OTHER -> ended' = ended \cup {id} /\ UNCHANGED <<state, retr>>
  /\ UNCHANGED <<list, k, pos, sent, ht, result, out, up, need, tool, board>> /\ nofault

\* Mutant: silence is waited for again.
WaitAgain ==
  /\ Runs /\ at = "answer" /\ ht = 0 /\ ~HasAnswer
  /\ ht' = HostTimeout
  /\ UNCHANGED <<list, k, at, state, pos, retr, sent, ended, result, serial, tool, board>> /\ nofault

AnswerTimeout ==
  /\ Runs /\ at = "answer" /\ ht = 0 /\ ~HasAnswer
  /\ at' = "loop" /\ ended' = ended \cup {id}
  /\ UNCHANGED <<list, k, state, pos, retr, sent, ht, result, serial, tool, board>> /\ nofault

\* Behind the loop: when all packets were acknowledged, the wait for the end of the update.
\* updateManagerProcess joins a process before it starts the next one.
Conclude(r) ==
  /\ result' = [result EXCEPT ![k] = r]
  /\ k' = k + 1 /\ at' = IF k < Len(list) THEN "start" ELSE "done"

LoopEnds ==
  /\ Runs /\ at = "loop" /\ id \in ended
  /\ IF sent
     THEN ended' = ended \ {id} /\ at' = "final" /\ ht' = EndTimeout /\ UNCHANGED <<k, result>>
     ELSE Conclude("failed") /\ UNCHANGED <<ended, ht>>
  /\ UNCHANGED <<list, state, pos, retr, sent, serial, tool, board>> /\ nofault

Final ==
  /\ Runs /\ at = "final" /\ HasAnswer
  /\ rxq' = Tail(rxq)
  /\ Conclude(IF Head(rxq) = "FINISHED" THEN "finished" ELSE "failed")
  /\ UNCHANGED <<list, state, pos, retr, sent, ht, ended, out, up, need, tool, board>> /\ nofault

FinalTimeout ==
  /\ Runs /\ at = "final" /\ ht = 0 /\ ~HasAnswer
  /\ Conclude("failed")
  /\ UNCHANGED <<list, state, pos, retr, sent, ht, ended, serial, tool, board>> /\ nofault

-----------------------------------------------------------------------------
(* parseDataProcess and SerialProcess.  A frame whose length was hit keeps *)
(* the serial process in its read, and from writing, until the frames that *)
(* follow have made up for it.                                             *)

\* An answer goes to the queue of the board it comes from, if that is in the list.
Parse ==
  /\ Runs /\ up # <<>> /\ ~closed
  /\ up' = Tail(up)
  /\ rxq' = IF BoardId \in Ids THEN Append(rxq, Head(up)) ELSE rxq
  /\ UNCHANGED <<list, update, out, need, tool, board>> /\ nofault

\* What the board hears of f.  Its main loop has one mailbox, filled by the UART's callback;
\* the update handler listens only while it waits for a packet.  What comes while nobody
\* listens is an overrun, of which a byte may be left for the next reception.
Hears(f) ==
  CASE bpc = "idle" /\ ~deaf /\ mail = None -> mail' = f /\ UNCHANGED <<say, bin>>
    [] bpc = "idle" /\ ~deaf /\ mail # None -> say' = Append(say, "NACK") /\ UNCHANGED <<mail, bin>>
    [] bpc = "receive" /\ say = <<>> -> bin' = Append(bin, f) /\ UNCHANGED <<mail, say>>
    [] bpc = "idle" /\ deaf -> UNCHANGED <<mail, say, bin>>
    [] OTHER -> bin' \in {bin, Append(bin, Garbage)} /\ UNCHANGED <<mail, say>>

SerialWrite ==
  /\ Runs /\ out # <<>> /\ need = 0 /\ ~closed
  /\ out' = Tail(out)
  /\ Hears(Head(out))
  /\ UNCHANGED <<list, update, up, rxq, need, tool, bpc, deaf, got, bretry, bt, installed>>
  /\ nofault

\* The frame is lost or garbled, perhaps in its length, or a pause in it makes two of it; an
\* overrun disarms the reception of an idle board.
SerialWriteFault ==
  /\ Runs /\ out # <<>> /\ need = 0 /\ ~closed
  /\ out' = Tail(out)
  /\ \/ UNCHANGED <<mail, say, bin, deaf>> /\ Fault(Head(out).type)
     \/ Hears(Garbage) /\ UNCHANGED deaf /\ Fault(Head(out).type)
     \/ Hears(BadLength) /\ UNCHANGED deaf /\ Fault("length")
     \/ bpc = "receive" /\ say = <<>> /\ bin' = bin \o <<Garbage, Garbage>>
        /\ UNCHANGED <<mail, say, deaf>> /\ Fault("split")
     \/ bpc = "idle" /\ deaf' = TRUE /\ UNCHANGED <<mail, say, bin>> /\ Fault(Head(out).type)
  /\ UNCHANGED <<list, update, up, rxq, need, tool, bpc, got, bretry, bt, installed>>

SerialRead ==
  /\ say # <<>>
  /\ say' = Tail(say)
  /\ IF Runs /\ need = 0 /\ ~closed
     THEN up' = Append(up, Head(say)) /\ UNCHANGED need
     ELSE need' = (IF need = 0 THEN 0 ELSE need - 1) /\ UNCHANGED up
  /\ UNCHANGED <<list, update, out, rxq, tool, bpc, mail, deaf, bin, got, bretry, bt, installed>>
  /\ nofault

SerialReadFault ==
  /\ Runs /\ say # <<>> /\ need = 0 /\ ~closed
  /\ say' = Tail(say)
  /\ need' \in 0..MaxSwallow
  /\ Fault(Head(say))
  /\ UNCHANGED <<list, update, out, up, rxq, tool, bpc, mail, deaf, bin, got, bretry, bt, installed>>

-----------------------------------------------------------------------------
(* main                                                                    *)

\* The CLI ends; the loop over the events goes over the dictionary's keys, which have no set().
CliEnd ==
  /\ cli = "input" /\ cli' = IF Ids = {} THEN "close" ELSE "raised"
  /\ UNCHANGED <<list, update, serial, closed, board>> /\ nofault

\* The exception leaves main; with the main process the manager of all queues and events goes,
\* and with it every process that uses them.
ManagerEnds ==
  /\ cli = "raised" /\ cli' = "exited"
  /\ UNCHANGED <<list, update, serial, closed, board>> /\ nofault

Close ==
  /\ cli = "close" /\ cli' = "joined" /\ closed' = TRUE
  /\ UNCHANGED <<list, update, serial, board>> /\ nofault

-----------------------------------------------------------------------------
(* The board: _process_msg and _handle_update_program_request              *)

\* The end of _process_msg empties the mailbox and arms the reception, which an overrun that
\* waits ends again at once.
ToMainLoop(left) == bpc' = "idle" /\ mail' = None /\ deaf' \in {FALSE, left # <<>>}

\* A request is executed whatever its destination.
TakeRequest ==
  /\ bpc = "idle" /\ say = <<>> /\ mail.type = "UPDATE_REQUEST"
  /\ bpc' = "erase" /\ got' = <<>> /\ bretry' = 0 /\ bin' = <<>>
  /\ UNCHANGED <<list, update, serial, tool, mail, deaf, say, bt, installed>> /\ nofault

\* A packet is longer than the mailbox: what arrives of it is not a frame, and its other
\* parts may find the mailbox full.  A frame's data is copied by its length before the frame
\* is checked: with a wrong or too great one, what becomes of the main loop is not defined.
TakeOther ==
  /\ bpc = "idle" /\ say = <<>> /\ mail.type \in {"garbage", "bad length", "PROGRAM_DATA"}
  /\ \/ ToMainLoop(<<>>) /\ say' = <<"NACK">>
     \/ mail.type = "PROGRAM_DATA" /\ ToMainLoop(<<>>) /\ say' = <<"NACK", "NACK">>
     \/ mail.type # "garbage" /\ bpc' = "hung" /\ UNCHANGED <<mail, deaf, say>>
  /\ UNCHANGED <<list, update, serial, tool, bin, got, bretry, bt, installed>> /\ nofault

\* W25Q_EraseChip, which takes its time.
EraseDone ==
  /\ bpc = "erase"
  /\ say' = <<"ACK">> /\ bt' = BoardTimeout
  /\ bpc' = IF Packets = 0 THEN "check" ELSE "receive"
  /\ UNCHANGED <<list, update, serial, tool, mail, deaf, bin, got, bretry, installed>> /\ nofault

\* Mutant: failures are counted for each packet.
ReceiveFailsForgiving(left) ==
  /\ bretry' = IF Len(got) > 0 THEN bretry ELSE bretry + 1
  /\ say' = <<"NACK">> /\ bt' = BoardTimeout /\ UNCHANGED <<bpc, mail, deaf>>

\* A failure: the fourth one of an update ends it, with two errors sent.
ReceiveFails(left) ==
  /\ bretry' = bretry + 1
  /\ IF bretry' > RetryLimit
     THEN ToMainLoop(left) /\ say' = <<"FATAL_ERROR", "FATAL_ERROR">> /\ UNCHANGED bt
     ELSE say' = <<"NACK">> /\ bt' = BoardTimeout /\ UNCHANGED <<bpc, mail, deaf>>

\* A packet for this board is programmed; pages that do not read back as programmed count
\* as failures too, but are not reported.
ReceivePacket ==
  /\ bpc = "receive" /\ say = <<>> /\ bin # <<>>
  /\ bin' = Tail(bin)
  /\ IF Head(bin).type = "PROGRAM_DATA" /\ Head(bin).dst = BoardId
     THEN /\ got' = Append(got, Head(bin).n)
          /\ say' = <<"ACK">> /\ bt' = BoardTimeout
          /\ bpc' = IF Len(got') < Packets THEN "receive" ELSE "check"
          /\ UNCHANGED <<bretry, mail, deaf>>
     ELSE ReceiveFails(Tail(bin)) /\ UNCHANGED got
  /\ UNCHANGED <<list, update, serial, tool, installed>> /\ nofault

ReceiveBadLength ==
  /\ bpc = "receive" /\ say = <<>> /\ bin # <<>> /\ Head(bin).type = "bad length"
  /\ bpc' = "hung"
  /\ UNCHANGED <<list, update, serial, tool, mail, deaf, bin, say, got, bretry, bt, installed>>
  /\ nofault

PageFails ==
  /\ bpc = "receive" /\ say = <<>> /\ bin # <<>>
  /\ Head(bin).type = "PROGRAM_DATA" /\ Head(bin).dst = BoardId
  /\ Fault("page") /\ bretry' = bretry + 1
  /\ IF bretry' > RetryLimit
     THEN ToMainLoop(Tail(bin)) /\ say' = <<"FATAL_ERROR", "FATAL_ERROR">> /\ bin' = Tail(bin)
     ELSE UNCHANGED <<bpc, mail, deaf, say, bin>>
  /\ UNCHANGED <<list, update, serial, tool, got, bt, installed>>

ReceiveTimeout ==
  /\ bpc = "receive" /\ say = <<>> /\ bin = <<>> /\ bt = 0
  /\ ReceiveFails(<<>>)
  /\ UNCHANGED <<list, update, serial, tool, bin, got, installed>> /\ nofault

\* Mutant: the HMAC is not compared.
CheckNothing ==
  /\ bpc = "check" /\ say = <<>>
  /\ bpc' = "copy" /\ UNCHANGED <<mail, deaf, say>>
  /\ UNCHANGED <<list, update, serial, tool, bin, got, bretry, bt, installed>> /\ nofault

\* The HMAC of what was received, and the backup's record, which may fail to be written.
Check ==
  /\ bpc = "check" /\ say = <<>>
  /\ \/ got = Program /\ bpc' = "copy" /\ UNCHANGED <<mail, deaf, say>> /\ nofault
     \/ got # Program /\ ToMainLoop(bin) /\ say' = <<"FATAL_ERROR">> /\ nofault
     \/ got = Program /\ ToMainLoop(bin) /\ say' = <<"FATAL_ERROR">> /\ Fault("record")
  /\ UNCHANGED <<list, update, serial, tool, bin, got, bretry, bt, installed>>

\* The copy into the target; one that fails is not reported to the host.
CopyDone ==
  /\ bpc = "copy"
  /\ ToMainLoop(bin)
  /\ \/ installed' = got /\ say' = <<"FINISHED">> /\ nofault
     \/ installed' = <<>> /\ UNCHANGED say /\ Fault("copy")
  /\ UNCHANGED <<list, update, serial, tool, bin, got, bretry, bt>>

-----------------------------------------------------------------------------
(* Time                                                                    *)

\* Nobody has anything to do but to wait.
Quiet ==
  /\ say = <<>> /\ (Runs => up = <<>> /\ (out = <<>> \/ need > 0))
  /\ (bpc = "idle" => mail = None) /\ (bpc = "receive" => bin = <<>>) /\ bpc # "check"
  /\ at = "done" \/ ~Runs \/ (Awaits /\ ~HasAnswer)

Tick ==
  /\ Quiet
  /\ Awaits \/ bpc = "receive"
  /\ (Awaits => ht > 0) /\ (bpc = "receive" => bt > 0)
  /\ ht' = IF Awaits THEN ht - 1 ELSE ht
  /\ bt' = IF bpc = "receive" THEN bt - 1 ELSE bt
  /\ UNCHANGED <<list, k, at, state, pos, retr, sent, ended, result, serial, tool,
                 bpc, mail, deaf, bin, say, got, bretry, installed>> /\ nofault

-----------------------------------------------------------------------------

Init ==
  /\ list \in Lists
  /\ k = 1 /\ at = (IF list = <<>> THEN "done" ELSE "start")
  /\ state = 0 /\ pos = 0 /\ retr = 0 /\ sent = FALSE /\ ht = 0
  /\ ended = {} /\ result = [i \in DOMAIN list |-> "none"]
  /\ out = <<>> /\ up = <<>> /\ rxq = <<>> /\ need = 0
  /\ cli = "input" /\ closed = FALSE
  /\ bpc = "idle" /\ mail = None /\ deaf = FALSE /\ bin = <<>> /\ say = <<>>
  /\ got = <<>> /\ bretry = 0 /\ bt = 0 /\ installed = <<>>
  /\ faults = MaxFaults /\ lost = {}

Update ==
  \/ StartUpdate \/ Request \/ Prepare \/ Send \/ GiveUp \/ Answer \/ AnswerTimeout
  \/ LoopEnds \/ Final \/ FinalTimeout

Serial == SerialWrite \/ SerialWriteFault \/ SerialRead \/ SerialReadFault

Main == ManagerEnds \/ Close

Board ==
  \/ TakeRequest \/ TakeOther \/ EraseDone \/ ReceivePacket \/ ReceiveBadLength \/ PageFails
  \/ ReceiveTimeout \/ Check \/ CopyDone

Next == Update \/ Parse \/ Serial \/ CliEnd \/ Main \/ Board \/ Tick

Spec == Init /\ [][Next]_vars

\* Every process runs, and time passes; nobody has to end the tool.
FairSpec ==
  /\ Spec
  /\ WF_vars(Update) /\ WF_vars(Parse) /\ WF_vars(Serial) /\ WF_vars(Main)
  /\ WF_vars(Board) /\ WF_vars(Tick)

-----------------------------------------------------------------------------
(* Properties                                                              *)

\* The processes' variables have values of their types.
TypeOK ==
  /\ k \in 1..(Len(list) + 1) /\ at \in {"start", "loop", "answer", "final", "done"}
  /\ state \in 0..2 /\ pos \in 0..Packets /\ retr \in 0..MaxRetransfers /\ sent \in BOOLEAN
  /\ ht \in 0..(HostTimeout + EndTimeout) /\ bt \in 0..BoardTimeout
  /\ ended \subseteq Ids /\ result \in [DOMAIN list -> {"none", "failed", "finished"}]
  /\ need \in 0..MaxSwallow /\ cli \in {"input", "raised", "exited", "close", "joined"}
  /\ bpc \in {"idle", "erase", "receive", "check", "copy", "hung"}
  /\ Len(got) <= Packets /\ bretry \in 0..(RetryLimit + 1)
  /\ installed \in {<<>>, Program}

\* The tool reports an update finished only for the board on the line, and when the target
\* has the whole program, although answers to other packets, and of the update of another
\* board, may be taken for the ones it waits for.
FinishedIsInstalled ==
  [][\A i \in DOMAIN list : result'[i] = "finished" /\ result[i] # "finished"
       => list[i] = BoardId /\ installed = Program]_vars

\* The board gives up before the tool: when the tool has sent a packet as often as it may,
\* no board is waiting for it, unless answers were hit on their way.
BoardGivesUpFirst ==
  retr = MaxRetransfers /\ lost \cap Answers = {} => bpc # "receive"

\* Lost and garbled packets are sent again: an update that begins the list fails only when an
\* erase or a copy takes longer than the tool waits, as long as no request and no answer is hit,
\* no packet is split, no memory of the board fails, and the board forgives that many failures.
Repairable ==
  /\ list # <<>> /\ list[1] = BoardId
  /\ lost \subseteq {"PROGRAM_DATA"} /\ MaxFaults - faults <= RetryLimit

RepairsPackets ==
  [][Repairable =>
       /\ result'[1] = "failed" => result[1] = "failed" \/ ht = 0
       /\ k = 1 /\ ht' = 0 /\ ht # 0 => bpc \in {"erase", "copy"}]_vars

\* Every list of boards comes to its end, unless the tool is ended before.
ListEnds == <>(at = "done" \/ ~Runs)
=============================================================================
