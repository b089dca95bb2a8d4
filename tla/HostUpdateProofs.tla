-------------------------- MODULE HostUpdateProofs ---------------------------
(***************************************************************************)
(* Proofs about HostUpdate for any packets, limits, times and numbers of   *)
(* faults.                                                                 *)
(***************************************************************************)
EXTENDS HostUpdate, TLAPS

-----------------------------------------------------------------------------
(* The inductive invariant                                                 *)

Frame == [type : {"none", "garbage", "bad length", "UPDATE_REQUEST", "PROGRAM_DATA"},
          dst : Nat, n : Nat]

\* What the types need besides: where the counters may still be counted.
LocalInv ==
  /\ list \in Lists
  /\ at # "done" => k \in DOMAIN list
  /\ at = "answer" /\ state = 2 => retr < MaxRetransfers
  /\ out \in Seq(Frame) /\ bin \in Seq(Frame) /\ mail \in Frame
  /\ up \in Seq(Answers) /\ rxq \in Seq(Answers) /\ say \in Seq(Answers)
  /\ got \in Seq(Nat)
  /\ bpc = "erase" => got = <<>> /\ bretry = 0
  /\ bpc = "receive" => Len(got) < Packets /\ bretry <= RetryLimit
  /\ bpc = "copy" => got = Program

IsRequest(f) == f.type = "UPDATE_REQUEST"
IsData(f)    == f.type = "PROGRAM_DATA" /\ f.dst = BoardId

\* A list names the board on the line once: the tool keeps one event and one pair of
\* queues for each identity (Python/main.py:191-194).
NamedOnce ==
  \A l \in Lists : \A i, j \in DOMAIN l : l[i] = BoardId /\ l[j] = BoardId => i = j

\* The tool is past the board on the line, or at least past the answer to its request.
Over == \A i \in DOMAIN list : i >= k => list[i] # BoardId
Late == Over \/ (k \in DOMAIN list /\ id = BoardId /\ at # "start" /\ state > 0)

\* A request among these frames has no packet behind it, nor will it have one.
NoneBehind(q, j) ==
  IsRequest(q[j]) => Over /\ \A l \in DOMAIN q : l > j => ~IsData(q[l])

\* Packets come in one block, behind the board's request and before all requests of boards
\* that come later.
OneBlock ==
  \A i \in DOMAIN out : IsData(out[i]) =>
    Late /\ \A j \in DOMAIN out : j > i => NoneBehind(out, j)

\* The board has received a packet.
Fed ==
  \/ installed # <<>>
  \/ bpc \in {"receive", "check", "copy"} /\ got # <<>>
  \/ \E i \in DOMAIN bin : IsData(bin[i])

FedInv == Fed => Late /\ \A j \in DOMAIN out : NoneBehind(out, j)

\* Once a program is installed, no packet follows another request.
NoPackets ==
  Over /\ (\A i \in DOMAIN out : ~IsData(out[i])) /\ (\A i \in DOMAIN bin : ~IsData(bin[i]))

OnceInv ==
  installed # <<>> =>
    /\ bpc = "idle" /\ IsRequest(mail) => Over /\ \A i \in DOMAIN out : ~IsData(out[i])
    /\ bpc \in {"erase", "receive", "check"} => got = <<>> /\ NoPackets
    /\ bpc # "copy"

\* What the board says when it has installed the program.
Among(a, q)  == \E i \in DOMAIN q : q[i] = a
FinishedInv ==
  Among("FINISHED", say) \/ Among("FINISHED", up) \/ Among("FINISHED", rxq)
    => installed = Program

TypeInv == TypeOK /\ LocalInv
IInv    == TypeInv /\ OneBlock /\ FedInv /\ OnceInv /\ FinishedInv

-----------------------------------------------------------------------------
(* Types                                                                   *)

Counters ==
  /\ list \in Lists /\ k \in 1..(Len(list) + 1)
  /\ at \in {"start", "loop", "answer", "final", "done"}
  /\ at # "done" => k \in DOMAIN list
  /\ state \in 0..2 /\ pos \in 0..Packets /\ retr \in 0..MaxRetransfers
  /\ at = "answer" /\ state = 2 => retr < MaxRetransfers
  /\ ht \in 0..(HostTimeout + EndTimeout)
  /\ cli \in {"input", "raised", "exited", "close", "joined"}

Results ==
  /\ ended \subseteq Ids /\ result \in [DOMAIN list -> {"none", "failed", "finished"}]
  /\ sent \in BOOLEAN

ToolTypes == Counters /\ Results

QueueTypes ==
  /\ need \in 0..MaxSwallow
  /\ out \in Seq(Frame) /\ bin \in Seq(Frame) /\ mail \in Frame
  /\ up \in Seq(Answers) /\ rxq \in Seq(Answers) /\ say \in Seq(Answers)

BoardCounters ==
  /\ bpc \in {"idle", "erase", "receive", "check", "copy", "hung"}
  /\ bt \in 0..BoardTimeout /\ Len(got) <= Packets /\ bretry \in 0..(RetryLimit + 1)
  /\ bpc = "erase" => bretry = 0
  /\ bpc = "receive" => Len(got) < Packets /\ bretry <= RetryLimit

Contents ==
  /\ got \in Seq(Nat) /\ installed \in {<<>>, Program}
  /\ bpc = "erase" => got = <<>>
  /\ bpc = "copy" => got = Program

BoardTypes == BoardCounters /\ Contents

Types == ToolTypes /\ QueueTypes /\ BoardTypes

LEMMA Parts == TypeInv <=> Types
BY DEF TypeInv, TypeOK, LocalInv, Types, ToolTypes, Counters, Results, QueueTypes, BoardTypes,
   BoardCounters, Contents

LEMMA PartsNext == (TypeInv <=> Types)'
BY Parts, PTL

LEMMA ToolKept == ToolTypes /\ UNCHANGED <<list, update, cli>> => ToolTypes'
BY DEF ToolTypes, Counters, Results, update, Ids

LEMMA BoardKept ==
  BoardTypes /\ UNCHANGED <<bpc, got, bretry, bt, installed>> => BoardTypes'
BY DEF BoardTypes, BoardCounters, Contents, Program

\* The board that is being updated is one of the list.
LEMMA Current ==
  ASSUME ToolTypes, at # "done"
  PROVE  id \in Ids /\ id \in Nat /\ k \in 1..Len(list) /\ k \in Nat
<1>1. list \in Seq(Nat) /\ k \in DOMAIN list
  BY ListsAssumption DEF ToolTypes, Counters
<1> QED
  BY <1>1 DEF Ids, id

LEMMA FramesTyped ==
  /\ None \in Frame /\ Garbage \in Frame /\ BadLength \in Frame
  /\ \A b \in Nat : UpdateRequest(b) \in Frame
  /\ \A b \in Nat, n \in Nat : ProgramData(b, n) \in Frame
BY DEF Frame, None, Garbage, BadLength, UpdateRequest, ProgramData

LEMMA HearsTyped ==
  ASSUME QueueTypes, NEW f \in Frame, Hears(f)
  PROVE  mail' \in Frame /\ bin' \in Seq(Frame) /\ say' \in Seq(Answers)
<1>1. Append(bin, f) \in Seq(Frame) /\ Append(bin, Garbage) \in Seq(Frame)
      /\ Append(say, "NACK") \in Seq(Answers)
  BY FramesTyped DEF QueueTypes, Answers
<1> QED
  BY <1>1 DEF Hears, QueueTypes

\* What the actions of the tool leave alone.
LEMMA UpdateTyped == Types /\ Update => Types'
<1> SUFFICES ASSUME Types, Update PROVE Types'
  OBVIOUS
<1> USE PacketsAssumption, LimitsAssumption, TimeAssumption, BoundAssumption
<1>q. UNCHANGED <<list, bpc, got, bretry, bt, installed>>
  BY DEF Update, StartUpdate, Request, Prepare, Send, GiveUp, Answer, AnswerTimeout, LoopEnds,
         Final, FinalTimeout, board
<1>l. list \in Seq(Nat) /\ Len(list) \in Nat
  BY ListsAssumption DEF Types, ToolTypes, Counters
<1>r. Results'
  <2>1. sent' \in BOOLEAN
    <3>1. sent' = sent \/ sent' = TRUE \/ sent' = FALSE
      BY DEF Update, StartUpdate, Request, Prepare, Send, GiveUp, Answer, AnswerTimeout,
             LoopEnds, Final, FinalTimeout
    <3> QED
      BY <3>1 DEF Types, ToolTypes, Results
  <2>2. ended' \subseteq Ids
    BY Current DEF Update, StartUpdate, Request, Prepare, Send, GiveUp, Answer, AnswerTimeout,
       LoopEnds, Final, FinalTimeout, Types, ToolTypes, Results
  <2>3. result' \in [DOMAIN list -> {"none", "failed", "finished"}]
    <3>1. \/ result' = result
          \/ \E r \in {"failed", "finished"} : result' = [result EXCEPT ![k] = r]
      BY DEF Update, StartUpdate, Request, Prepare, Send, GiveUp, Answer, AnswerTimeout,
             LoopEnds, Final, FinalTimeout, Conclude
    <3> QED
      BY <3>1 DEF Types, ToolTypes, Results
  <2> QED
    BY <2>1, <2>2, <2>3, <1>q DEF Results, Ids
<1>b. BoardTypes'
  BY <1>q, BoardKept DEF Types
<1>1. CASE StartUpdate
  <2>1. Counters'
    BY <1>1, <1>l, Current DEF StartUpdate, Types, ToolTypes, Counters, tool
  <2>2. QueueTypes'
    BY <1>1, Current, FramesTyped DEF StartUpdate, Types, ToolTypes, Counters, QueueTypes, serial, board
  <2> QED
    BY <2>1, <2>2, <1>b, <1>r DEF Types, ToolTypes
<1>2. CASE Request
  <2>1. Counters'
    BY <1>2, <1>l, Current DEF Request, Types, ToolTypes, Counters, tool
  <2>2. QueueTypes'
    BY <1>2, Current, FramesTyped DEF Request, Types, ToolTypes, Counters, QueueTypes, serial, board
  <2> QED
    BY <2>1, <2>2, <1>b, <1>r DEF Types, ToolTypes
<1>3. CASE Prepare
  <2>1. Counters'
    BY <1>3, <1>l, Current DEF Prepare, Types, ToolTypes, Counters, tool
  <2>2. QueueTypes'
    BY <1>3, Current, FramesTyped DEF Prepare, Types, ToolTypes, Counters, QueueTypes, serial, board
  <2> QED
    BY <2>1, <2>2, <1>b, <1>r DEF Types, ToolTypes
<1>4. CASE Send
  <2>1. Counters'
    BY <1>4, <1>l, Current DEF Send, Types, ToolTypes, Counters, tool
  <2>2. QueueTypes'
    BY <1>4, Current, FramesTyped DEF Send, Types, ToolTypes, Counters, QueueTypes, serial, board
  <2> QED
    BY <2>1, <2>2, <1>b, <1>r DEF Types, ToolTypes
<1>5. CASE GiveUp
  <2>1. Counters'
    BY <1>5, <1>l, Current DEF GiveUp, Types, ToolTypes, Counters, tool
  <2>2. QueueTypes'
    BY <1>5, Current, FramesTyped DEF GiveUp, Types, ToolTypes, Counters, QueueTypes, serial, board
  <2> QED
    BY <2>1, <2>2, <1>b, <1>r DEF Types, ToolTypes
<1>6. CASE Answer
  <2>1. Counters'
    <3>1. /\ at = "answer" /\ at' = "loop" /\ UNCHANGED <<list, k, pos, ht, cli>>
          /\ \/ state' = 1 /\ retr' = retr
             \/ state = 2 /\ retr' = retr + 1 /\ state' = state
             \/ state' = state /\ retr' = retr
      BY <1>6 DEF Answer, tool
    <3> QED
      BY <3>1, <1>l DEF Types, ToolTypes, Counters
  <2>2. QueueTypes'
    BY <1>6, Current, FramesTyped DEF Answer, HasAnswer, Types, ToolTypes, Counters, QueueTypes, serial, board
  <2> QED
    BY <2>1, <2>2, <1>b, <1>r DEF Types, ToolTypes
<1>7. CASE AnswerTimeout
  <2>1. Counters'
    BY <1>7, <1>l, Current DEF AnswerTimeout, Types, ToolTypes, Counters, tool
  <2>2. QueueTypes'
    BY <1>7, Current, FramesTyped DEF AnswerTimeout, Types, ToolTypes, Counters, QueueTypes, serial, board
  <2> QED
    BY <2>1, <2>2, <1>b, <1>r DEF Types, ToolTypes
<1>8. CASE LoopEnds
  <2>1. Counters'
    BY <1>8, <1>l, Current DEF LoopEnds, Conclude, Types, ToolTypes, Counters, tool
  <2>2. QueueTypes'
    BY <1>8, Current, FramesTyped DEF LoopEnds, Conclude, Types, ToolTypes, Counters, QueueTypes, serial, board
  <2> QED
    BY <2>1, <2>2, <1>b, <1>r DEF Types, ToolTypes
<1>9. CASE Final
  <2>1. Counters'
    BY <1>9, <1>l, Current DEF Final, Conclude, HasAnswer, Types, ToolTypes, Counters, tool
  <2>2. QueueTypes'
    BY <1>9, Current, FramesTyped DEF Final, Conclude, HasAnswer, Types, ToolTypes, Counters, QueueTypes, serial, board
  <2> QED
    BY <2>1, <2>2, <1>b, <1>r DEF Types, ToolTypes
<1>10. CASE FinalTimeout
  <2>1. Counters'
    BY <1>10, <1>l, Current DEF FinalTimeout, Conclude, Types, ToolTypes, Counters, tool
  <2>2. QueueTypes'
    BY <1>10, Current, FramesTyped DEF FinalTimeout, Conclude, Types, ToolTypes, Counters, QueueTypes, serial, board
  <2> QED
    BY <2>1, <2>2, <1>b, <1>r DEF Types, ToolTypes
<1> QED
  BY <1>1, <1>2, <1>3, <1>4, <1>5, <1>6, <1>7, <1>8, <1>9, <1>10 DEF Update

LEMMA SerialTyped == Types /\ (Serial \/ Parse) => Types'
<1> SUFFICES ASSUME Types, Serial \/ Parse PROVE Types'
  OBVIOUS
<1>q. UNCHANGED <<list, update, cli, bpc, got, bretry, bt, installed>>
  BY DEF Serial, SerialWrite, SerialWriteFault, SerialRead, SerialReadFault, Parse, tool, board
<1>1. ToolTypes' /\ BoardTypes'
  BY <1>q, ToolKept, BoardKept DEF Types
<1>2. CASE SerialWrite
  <2>1. Head(out) \in Frame /\ Tail(out) \in Seq(Frame)
    BY <1>2 DEF SerialWrite, Types, QueueTypes
  <2> QED
    BY <1>1, <1>2, <2>1, HearsTyped DEF SerialWrite, Types, QueueTypes
<1>3. CASE SerialWriteFault
  <2>1. Tail(out) \in Seq(Frame) /\ bin \o <<Garbage, Garbage>> \in Seq(Frame)
    BY <1>3, FramesTyped DEF SerialWriteFault, Types, QueueTypes
  <2>2. mail' \in Frame /\ bin' \in Seq(Frame) /\ say' \in Seq(Answers)
    BY <1>3, <2>1, HearsTyped, FramesTyped DEF SerialWriteFault, Types, QueueTypes
  <2> QED
    BY <1>1, <1>3, <2>1, <2>2 DEF SerialWriteFault, Types, QueueTypes
<1>4. CASE SerialRead
  <2>1. Tail(say) \in Seq(Answers) /\ Append(up, Head(say)) \in Seq(Answers)
    BY <1>4 DEF SerialRead, Types, QueueTypes
  <2>2. need' \in 0..MaxSwallow
    BY <1>4, BoundAssumption DEF SerialRead, Types, QueueTypes
  <2> QED
    BY <1>1, <1>4, <2>1, <2>2 DEF SerialRead, Types, QueueTypes
<1>5. CASE SerialReadFault
  BY <1>1, <1>5, BoundAssumption DEF SerialReadFault, Types, QueueTypes
<1>6. CASE Parse
  BY <1>1, <1>6 DEF Parse, Types, QueueTypes, board
<1> QED
  BY <1>2, <1>3, <1>4, <1>5, <1>6 DEF Serial

LEMMA BackInLoop == \A left : ToMainLoop(left) => bpc' = "idle" /\ mail' = None
BY DEF ToMainLoop

LEMMA BoardTyped == Types /\ Board => Types'
<1> SUFFICES ASSUME Types, Board PROVE Types'
  OBVIOUS
<1> USE PacketsAssumption, LimitsAssumption, TimeAssumption
<1>q. UNCHANGED <<list, update, serial, tool>>
  BY DEF Board, TakeRequest, TakeOther, EraseDone, ReceivePacket, ReceiveBadLength, PageFails,
         ReceiveTimeout, Check, CopyDone
<1>s. /\ \A a \in Answers : <<a>> \in Seq(Answers) /\ <<a, a>> \in Seq(Answers)
      /\ <<>> \in Seq(Answers) /\ <<>> \in Seq(Frame) /\ <<>> \in Seq(Nat) /\ Len(<<>>) = 0
      /\ {"ACK", "NACK", "FATAL_ERROR", "FINISHED"} \subseteq Answers
  BY DEF Answers
<1>a. bin # <<>> => Head(bin) \in Frame /\ Tail(bin) \in Seq(Frame)
  BY DEF Types, QueueTypes
<1>g. \A n \in Nat : Append(got, n) \in Seq(Nat) /\ Len(Append(got, n)) = Len(got) + 1
  BY DEF Types, BoardTypes, Contents
<1>n. Len(got) \in Nat
  BY DEF Types, BoardTypes, Contents
<1>t. ToolTypes'
  BY <1>q, ToolKept DEF Types, tool
<1>1. CASE TakeRequest
  <2>1. QueueTypes'
    BY <1>1, <1>s, <1>a, FramesTyped, BackInLoop DEF TakeRequest, Types, QueueTypes, serial
  <2>2. BoardCounters'
    <3>1. bpc' = "erase" /\ bt' = bt /\ bretry' = 0 /\ Len(got') = 0
      BY <1>1, <1>s DEF TakeRequest
    <3> QED
      BY <3>1 DEF Types, BoardTypes, BoardCounters
  <2>3. Contents'
    BY <1>1, <1>s, <1>a, <1>g, BackInLoop DEF TakeRequest, Types, BoardTypes, Contents, Frame
  <2> QED
    BY <2>1, <2>2, <2>3, <1>t DEF Types, BoardTypes
<1>2. CASE TakeOther
  <2>1. QueueTypes'
    BY <1>2, <1>s, <1>a, FramesTyped, BackInLoop DEF TakeOther, Types, QueueTypes, serial
  <2>2. BoardCounters'
    BY <1>2, <1>s, <1>a, <1>g, <1>n, BackInLoop DEF TakeOther, Types, BoardTypes, BoardCounters, Contents, Frame
  <2>3. Contents'
    BY <1>2, <1>s, <1>a, <1>g, BackInLoop DEF TakeOther, Types, BoardTypes, Contents, Frame
  <2> QED
    BY <2>1, <2>2, <2>3, <1>t DEF Types, BoardTypes
<1>3. CASE EraseDone
  <2>1. QueueTypes'
    BY <1>3, <1>s, <1>a, FramesTyped, BackInLoop DEF EraseDone, Types, QueueTypes, serial
  <2>2. BoardCounters'
    <3>1. bpc' = IF Packets = 0 THEN "check" ELSE "receive"
      BY <1>3, <1>s DEF EraseDone
    <3>2. bt' = BoardTimeout /\ bretry' = 0 /\ Len(got') = 0
      BY <1>3, <1>s DEF EraseDone, Types, BoardTypes, BoardCounters, Contents
    <3> QED
      BY <3>1, <3>2 DEF BoardCounters
  <2>3. Contents'
    BY <1>3, <1>s, <1>a, <1>g, BackInLoop DEF EraseDone, Types, BoardTypes, Contents, Frame
  <2> QED
    BY <2>1, <2>2, <2>3, <1>t DEF Types, BoardTypes
<1>4. CASE ReceivePacket
  <2>1. QueueTypes'
    BY <1>4, <1>s, <1>a, FramesTyped, BackInLoop DEF ReceivePacket, ReceiveFails, Types, QueueTypes, serial
  <2>2. BoardCounters'
    <3>1. CASE Head(bin).type = "PROGRAM_DATA" /\ Head(bin).dst = BoardId
      <4>1. /\ bpc = "receive" /\ got' = Append(got, Head(bin).n) /\ bretry' = bretry
            /\ bt' = BoardTimeout /\ Head(bin).n \in Nat
            /\ bpc' = IF Len(got') < Packets THEN "receive" ELSE "check"
        BY <1>4, <1>a, <3>1 DEF ReceivePacket, Frame
      <4>2. Len(got') = Len(got) + 1
        BY <4>1, <1>g
      <4>3. bpc' = "receive" \/ bpc' = "check"
        BY <4>1
      <4> QED
        BY <4>1, <4>2, <4>3, <1>n DEF Types, BoardTypes, BoardCounters
    <3>2. CASE ~(Head(bin).type = "PROGRAM_DATA" /\ Head(bin).dst = BoardId)
      BY <1>4, <3>2, <1>a, <1>n, BackInLoop DEF ReceivePacket, ReceiveFails, Types, BoardTypes, BoardCounters
    <3> QED
      BY <3>1, <3>2
  <2>3. Contents'
    BY <1>4, <1>s, <1>a, <1>g, BackInLoop DEF ReceivePacket, ReceiveFails, Types, BoardTypes, Contents, Frame
  <2> QED
    BY <2>1, <2>2, <2>3, <1>t DEF Types, BoardTypes
<1>5. CASE ReceiveBadLength
  <2>1. QueueTypes'
    BY <1>5, <1>s, <1>a, FramesTyped, BackInLoop DEF ReceiveBadLength, Types, QueueTypes, serial
  <2>2. BoardCounters'
    BY <1>5, <1>s, <1>a, <1>g, <1>n, BackInLoop DEF ReceiveBadLength, Types, BoardTypes, BoardCounters, Contents, Frame
  <2>3. Contents'
    BY <1>5, <1>s, <1>a, <1>g, BackInLoop DEF ReceiveBadLength, Types, BoardTypes, Contents, Frame
  <2> QED
    BY <2>1, <2>2, <2>3, <1>t DEF Types, BoardTypes
<1>6. CASE PageFails
  <2>1. QueueTypes'
    BY <1>6, <1>s, <1>a, FramesTyped, BackInLoop DEF PageFails, Fault, Types, QueueTypes, serial
  <2>2. BoardCounters'
    BY <1>6, <1>n, BackInLoop DEF PageFails, Fault, Types, BoardTypes, BoardCounters
  <2>3. Contents'
    BY <1>6, <1>s, <1>a, <1>g, BackInLoop DEF PageFails, Fault, Types, BoardTypes, Contents, Frame
  <2> QED
    BY <2>1, <2>2, <2>3, <1>t DEF Types, BoardTypes
<1>7. CASE ReceiveTimeout
  <2>1. QueueTypes'
    BY <1>7, <1>s, <1>a, FramesTyped, BackInLoop DEF ReceiveTimeout, ReceiveFails, Types, QueueTypes, serial
  <2>2. BoardCounters'
    BY <1>7, <1>n, BackInLoop DEF ReceiveTimeout, ReceiveFails, Types, BoardTypes, BoardCounters
  <2>3. Contents'
    BY <1>7, <1>s, <1>a, <1>g, BackInLoop DEF ReceiveTimeout, ReceiveFails, Types, BoardTypes, Contents, Frame
  <2> QED
    BY <2>1, <2>2, <2>3, <1>t DEF Types, BoardTypes
<1>8. CASE Check
  <2>1. QueueTypes'
    BY <1>8, <1>s, <1>a, FramesTyped, BackInLoop DEF Check, Types, QueueTypes, serial
  <2>2. BoardCounters'
    BY <1>8, <1>s, <1>a, <1>g, <1>n, BackInLoop DEF Check, Types, BoardTypes, BoardCounters, Contents, Frame
  <2>3. Contents'
    BY <1>8, <1>s, <1>a, <1>g, BackInLoop DEF Check, Types, BoardTypes, Contents, Frame
  <2> QED
    BY <2>1, <2>2, <2>3, <1>t DEF Types, BoardTypes
<1>9. CASE CopyDone
  <2>1. QueueTypes'
    BY <1>9, <1>s, <1>a, FramesTyped, BackInLoop DEF CopyDone, Types, QueueTypes, serial
  <2>2. BoardCounters'
    BY <1>9, <1>s, <1>a, <1>g, <1>n, BackInLoop DEF CopyDone, Types, BoardTypes, BoardCounters, Contents, Frame
  <2>3. Contents'
    BY <1>9, <1>s, <1>a, <1>g, BackInLoop DEF CopyDone, Types, BoardTypes, Contents, Frame
  <2> QED
    BY <2>1, <2>2, <2>3, <1>t DEF Types, BoardTypes
<1> QED
  BY <1>1, <1>2, <1>3, <1>4, <1>5, <1>6, <1>7, <1>8, <1>9 DEF Board

LEMMA TypeStep == TypeInv /\ [Next]_vars => TypeInv'
<1> SUFFICES ASSUME Types, [Next]_vars PROVE Types'
  BY Parts, PartsNext
<1>1. CASE CliEnd \/ Main
  <2>1. ToolTypes'
    BY <1>1 DEF CliEnd, Main, ManagerEnds, Close, Types, ToolTypes, Counters, Results, Ids, update
  <2>2. QueueTypes' /\ BoardTypes'
    BY <1>1, BoardKept DEF CliEnd, Main, ManagerEnds, Close, Types, QueueTypes, serial, board
  <2> QED
    BY <2>1, <2>2 DEF Types
<1>2. CASE Tick
  <2>1. ToolTypes'
    BY <1>2, TimeAssumption DEF Tick, Types, ToolTypes, Counters, Results, Ids, tool
  <2>2. QueueTypes'
    BY <1>2 DEF Tick, Types, QueueTypes, serial
  <2>3. BoardTypes'
    BY <1>2, TimeAssumption DEF Tick, Types, BoardTypes, BoardCounters, Contents
  <2> QED
    BY <2>1, <2>2, <2>3 DEF Types
<1>3. CASE UNCHANGED vars
  <2>1. ToolTypes' /\ BoardTypes'
    BY <1>3, ToolKept, BoardKept DEF vars, Types, tool, board
  <2> QED
    BY <1>3, <2>1 DEF vars, Types, QueueTypes, serial, board
<1> QED
  BY <1>1, <1>2, <1>3, UpdateTyped, SerialTyped, BoardTyped DEF Next

LEMMA InitTyped == Init => TypeInv
<1> SUFFICES ASSUME Init PROVE Types
  BY Parts
<1>1. list \in Seq(Nat) /\ Len(list) \in Nat
  BY ListsAssumption DEF Init
<1>2. Counters
  <2>1. list \in Lists /\ k = 1 /\ state = 0 /\ pos = 0 /\ retr = 0 /\ ht = 0 /\ cli = "input"
        /\ at = IF list = <<>> THEN "done" ELSE "start"
    BY DEF Init
  <2>2. list # <<>> => 1 \in DOMAIN list
    BY <1>1
  <2> QED
    BY <1>1, <2>1, <2>2, PacketsAssumption, LimitsAssumption, TimeAssumption DEF Counters
<1>3. Results
  BY DEF Init, Results
<1>4. QueueTypes
  BY BoundAssumption, FramesTyped DEF Init, QueueTypes
<1>5. BoardTypes
  BY PacketsAssumption, LimitsAssumption, TimeAssumption
  DEF Init, BoardTypes, BoardCounters, Contents
<1> QED
  BY <1>2, <1>3, <1>4, <1>5 DEF Types, ToolTypes

\* Every variable of the tool and of the board keeps its range, whatever the line does: a
\* file is read and a program received no further than their last packets, and neither
\* counts failures past its limit (Python/main.py:37-121, fvc.c:352-410).
THEOREM TypeCorrect == Spec => []TypeOK
<1>1. TypeInv => TypeOK
  BY DEF TypeInv
<1> QED
  BY InitTyped, TypeStep, <1>1, PTL DEF Spec

-----------------------------------------------------------------------------
(* What the steps do to the list, the frames on their way and the board    *)

LEMMA ToolMoves ==
  ASSUME [Next]_vars
  PROVE  /\ list' = list
         /\ \/ k' = k + 1
            \/ /\ k' = k
               /\ at # "start" => at' # "start" /\ (state' = state \/ state' = 1 \/ state' = 2)
<1>1. CASE Update
  <2>1. CASE StartUpdate
    BY <2>1 DEF StartUpdate
  <2>2. CASE Request \/ Prepare \/ Send \/ GiveUp \/ AnswerTimeout
    BY <2>2 DEF Request, Prepare, Send, GiveUp, AnswerTimeout
  <2>3. CASE Answer
    BY <2>3 DEF Answer
  <2>4. CASE LoopEnds \/ Final \/ FinalTimeout
    BY <2>4 DEF LoopEnds, Final, FinalTimeout, Conclude
  <2> QED
    BY <1>1, <2>1, <2>2, <2>3, <2>4 DEF Update
<1>2. CASE Parse \/ Serial \/ CliEnd \/ Main \/ Tick
  BY <1>2 DEF Parse, Serial, SerialWrite, SerialWriteFault, SerialRead, SerialReadFault, CliEnd,
              Main, ManagerEnds, Close, Tick, update
<1>3. CASE Board
  BY <1>3 DEF Board, TakeRequest, TakeOther, EraseDone, ReceivePacket, ReceiveBadLength,
              PageFails, ReceiveTimeout, Check, CopyDone, update
<1>4. CASE UNCHANGED vars
  BY <1>4 DEF vars, update
<1> QED
  BY <1>1, <1>2, <1>3, <1>4 DEF Next

\* The tool does not come back to where a packet had not yet been sent.
LEMMA LateStays ==
  ASSUME Types, NamedOnce, [Next]_vars
  PROVE  (Over => Over') /\ (Late => Late')
<1>1. k \in Nat /\ list \in Lists /\ list \in Seq(Nat) /\ state \in 0..2
  BY ListsAssumption DEF Types, ToolTypes, Counters
<1>2. Over => Over'
  BY <1>1, ToolMoves DEF Over
<1>3. ASSUME k \in DOMAIN list, id = BoardId, at # "start", state > 0 PROVE Late'
  <2>1. CASE k' = k + 1
    <3>1. ASSUME NEW i \in DOMAIN list, i >= k + 1 PROVE list[i] # BoardId
      BY <1>1, <1>3, <3>1 DEF NamedOnce, id
    <3> QED
      BY <2>1, <3>1, ToolMoves DEF Late, Over
  <2>2. CASE k' # k + 1
    <3>1. list' = list /\ k' = k /\ at' # "start" /\ state' > 0
      BY <1>1, <1>3, <2>2, ToolMoves
    <3> QED
      BY <3>1, <1>3 DEF Late, id
  <2> QED
    BY <2>1, <2>2
<1> QED
  BY <1>2, <1>3 DEF Late

LEMMA OutKinds ==
  ASSUME [Next]_vars
  PROVE  \/ out' = out
         \/ out # <<>> /\ out' = Tail(out)
         \/ Request
         \/ Send
<1>1. CASE Update
  BY <1>1 DEF Update, StartUpdate, Prepare, GiveUp, Answer, AnswerTimeout, LoopEnds, Final,
              FinalTimeout, serial
<1>2. CASE Parse \/ Serial \/ CliEnd \/ Main \/ Tick
  BY <1>2 DEF Parse, Serial, SerialWrite, SerialWriteFault, SerialRead, SerialReadFault, CliEnd,
              Main, ManagerEnds, Close, Tick, serial
<1>3. CASE Board
  BY <1>3 DEF Board, TakeRequest, TakeOther, EraseDone, ReceivePacket, ReceiveBadLength,
              PageFails, ReceiveTimeout, Check, CopyDone, serial
<1>4. CASE UNCHANGED vars
  BY <1>4 DEF vars, serial
<1> QED
  BY <1>1, <1>2, <1>3, <1>4 DEF Next

\* A request is sent before the tool is past it, a packet to the board before it is over.
LEMMA Sending ==
  ASSUME Types
  PROVE  /\ Request => /\ out' = Append(out, UpdateRequest(id)) /\ id \in Nat
                       /\ Late => Over
         /\ Send => /\ out' = Append(out, ProgramData(id, pos)) /\ id \in Nat /\ pos \in Nat
                    /\ id = BoardId => Late /\ ~Over
<1>1. CASE Request
  BY <1>1, Current DEF Request, Send, Late, Types
<1>2. CASE Send
  <2>1. at = "loop" /\ state = 2 /\ out' = Append(out, ProgramData(id, pos))
    BY <1>2 DEF Send
  <2>2. k \in DOMAIN list /\ k \in Nat /\ id \in Nat /\ pos \in Nat
    BY <2>1, Current, PacketsAssumption DEF Types, ToolTypes, Counters
  <2>3. ~Request
    BY <2>1 DEF Request
  <2> QED
    BY <2>1, <2>2, <2>3 DEF Late, Over, id
<1> QED
  BY <1>1, <1>2

-----------------------------------------------------------------------------
(* Packets come in one block                                               *)

LEMMA NotBoth == \A f : ~(IsData(f) /\ IsRequest(f))
BY DEF IsData, IsRequest

LEMMA KindOfFrames ==
  /\ ~IsData(None) /\ ~IsRequest(None) /\ ~IsData(Garbage) /\ ~IsRequest(Garbage)
  /\ ~IsData(BadLength) /\ ~IsRequest(BadLength)
  /\ \A b : IsRequest(UpdateRequest(b)) /\ ~IsData(UpdateRequest(b))
  /\ \A b, n : ~IsRequest(ProgramData(b, n)) /\ (IsData(ProgramData(b, n)) => b = BoardId)
BY DEF IsData, IsRequest, None, Garbage, BadLength, UpdateRequest, ProgramData

LEMMA BlockStep == Types /\ NamedOnce /\ OneBlock /\ [Next]_vars => OneBlock'
<1> SUFFICES ASSUME Types, NamedOnce, OneBlock, [Next]_vars,
                    NEW i \in DOMAIN out', IsData(out'[i])
             PROVE  Late' /\ \A j \in DOMAIN out' : j > i => NoneBehind(out, j)'
  BY DEF OneBlock
<1>0. out \in Seq(Frame)
  BY DEF Types, QueueTypes
<1>1. CASE out' = out
  BY <1>1, LateStays DEF OneBlock, NoneBehind
<1>2. CASE out # <<>> /\ out' = Tail(out)
  <2>1. \A j \in DOMAIN out' : j + 1 \in DOMAIN out /\ out'[j] = out[j + 1] /\ j \in Nat
    BY <1>0, <1>2
  <2>2. Late /\ \A j \in DOMAIN out : j > i + 1 => NoneBehind(out, j)
    BY <2>1 DEF OneBlock
  <2>3. ASSUME NEW j \in DOMAIN out', j > i PROVE NoneBehind(out, j)'
    <3>1. NoneBehind(out, j + 1)
      BY <2>1, <2>2, <2>3
    <3> QED
      BY <2>1, <3>1, LateStays DEF NoneBehind
  <2> QED
    BY <2>2, <2>3, LateStays
<1>3. CASE Request
  <2>1. /\ DOMAIN out' = 1..(Len(out) + 1) /\ DOMAIN out = 1..Len(out) /\ Len(out) \in Nat
        /\ \A j \in DOMAIN out : out'[j] = out[j]
        /\ out'[Len(out) + 1] = UpdateRequest(id)
    BY <1>0, <1>3, Sending, FramesTyped
  <2>2. i \in DOMAIN out
    BY <2>1, KindOfFrames
  <2>3. Late /\ Over /\ \A j \in DOMAIN out : j > i => NoneBehind(out, j)
    BY <1>3, <2>1, <2>2, Sending DEF OneBlock
  <2>4. ASSUME NEW j \in DOMAIN out', j > i PROVE NoneBehind(out, j)'
    <3>1. CASE j = Len(out) + 1
      BY <2>1, <2>3, <3>1, LateStays DEF NoneBehind
    <3>2. CASE j # Len(out) + 1
      <4>1. j \in DOMAIN out /\ NoneBehind(out, j)
        BY <2>1, <2>3, <2>4, <3>2
      <4>2. ~IsData(out'[Len(out) + 1])
        BY <2>1, KindOfFrames
      <4> QED
        BY <2>1, <4>1, <4>2, LateStays DEF NoneBehind
    <3> QED
      BY <3>1, <3>2
  <2> QED
    BY <2>3, <2>4, LateStays
<1>4. CASE Send
  <2>1. /\ DOMAIN out' = 1..(Len(out) + 1) /\ DOMAIN out = 1..Len(out) /\ Len(out) \in Nat
        /\ \A j \in DOMAIN out : out'[j] = out[j]
        /\ out'[Len(out) + 1] = ProgramData(id, pos)
    BY <1>0, <1>4, Sending, FramesTyped
  <2>2. CASE i = Len(out) + 1
    <3>1. Late
      BY <1>4, <2>1, <2>2, Sending, KindOfFrames
    <3> QED
      BY <2>1, <2>2, <3>1, LateStays
  <2>3. CASE i # Len(out) + 1
    <3>1. i \in DOMAIN out /\ Late /\ \A j \in DOMAIN out : j > i => NoneBehind(out, j)
      BY <2>1, <2>3 DEF OneBlock
    <3>2. ASSUME NEW j \in DOMAIN out', j > i PROVE NoneBehind(out, j)'
      <4>1. CASE j = Len(out) + 1
        BY <2>1, <4>1, KindOfFrames DEF NoneBehind
      <4>2. CASE j # Len(out) + 1
        <5>1. j \in DOMAIN out /\ NoneBehind(out, j)
          BY <2>1, <3>1, <3>2, <4>2
        <5>2. IsRequest(out[j]) => ~IsData(out'[Len(out) + 1])
          BY <1>4, <2>1, <5>1, Sending, KindOfFrames DEF NoneBehind
        <5> QED
          BY <2>1, <5>1, <5>2, LateStays DEF NoneBehind
      <4> QED
        BY <4>1, <4>2
    <3> QED
      BY <3>1, <3>2, LateStays
  <2> QED
    BY <2>2, <2>3
<1> QED
  BY <1>1, <1>2, <1>3, <1>4, OutKinds

-----------------------------------------------------------------------------
(* What the board has been fed                                             *)

BoardGets == SerialWrite /\ IsData(Head(out))

\* What the board's receive gets: less than before, a frame that is none, or the next frame
\* of the line.
LEMMA BinKinds ==
  ASSUME Types, [Next]_vars, NEW i \in DOMAIN bin', IsData(bin'[i])
  PROVE  BoardGets \/ \E j \in DOMAIN bin : IsData(bin[j])
<1>0. bin \in Seq(Frame) /\ out \in Seq(Frame)
  BY DEF Types, QueueTypes
<1>1. ASSUME NEW f, f \in Frame, Hears(f), ~IsData(f)
      PROVE  \E j \in DOMAIN bin : IsData(bin[j])
  <2>1. bin' = bin \/ bin' = Append(bin, f) \/ bin' = Append(bin, Garbage)
    BY <1>1 DEF Hears
  <2>2. Garbage \in Frame /\ ~IsData(Garbage)
    BY FramesTyped, KindOfFrames
  <2>3. \A g \in Frame : ~IsData(g) /\ bin' = Append(bin, g) => i \in DOMAIN bin /\ bin'[i] = bin[i]
    <3>1. ASSUME NEW g \in Frame, ~IsData(g), bin' = Append(bin, g)
          PROVE  i \in DOMAIN bin /\ bin'[i] = bin[i]
      <4>1. i # Len(bin) + 1
        BY <1>0, <3>1 DEF IsData
      <4> QED
        BY <1>0, <3>1, <4>1
    <3> QED
      BY <3>1
  <2>4. i \in DOMAIN bin /\ bin'[i] = bin[i]
    BY <1>1, <2>1, <2>2, <2>3
  <2> QED
    BY <2>4 DEF IsData
<1>2. CASE SerialWrite
  <2>1. Head(out) \in Frame
    BY <1>0, <1>2 DEF SerialWrite
  <2> QED
    BY <1>1, <1>2, <2>1 DEF SerialWrite, BoardGets
<1>3. CASE SerialWriteFault
  <2>1. \/ bin' = bin \/ Hears(Garbage) \/ Hears(BadLength)
        \/ bin' = bin \o <<Garbage, Garbage>>
    BY <1>3 DEF SerialWriteFault
  <2>2. CASE bin' = bin \o <<Garbage, Garbage>>
    <3>1. /\ DOMAIN bin' = 1..(Len(bin) + 2) /\ DOMAIN bin = 1..Len(bin) /\ Len(bin) \in Nat
          /\ \A j \in DOMAIN bin : bin'[j] = bin[j]
          /\ bin'[Len(bin) + 1] = Garbage /\ bin'[Len(bin) + 2] = Garbage
      BY <1>0, <2>2, FramesTyped
    <3> QED
      BY <3>1, KindOfFrames
  <2> QED
    BY <1>1, <2>1, <2>2, FramesTyped, KindOfFrames
<1>4. CASE Board
  <2>1. bin' = bin \/ bin' = <<>> \/ (bin # <<>> /\ bin' = Tail(bin))
    BY <1>4 DEF Board, TakeRequest, TakeOther, EraseDone, ReceivePacket, ReceiveBadLength,
                PageFails, ReceiveTimeout, Check, CopyDone
  <2> QED
    BY <1>0, <2>1
<1>5. CASE Update \/ Parse \/ SerialRead \/ SerialReadFault \/ CliEnd \/ Main \/ Tick
  <2>1. bin' = bin
    BY <1>5 DEF Update, StartUpdate, Request, Prepare, Send, GiveUp, Answer, AnswerTimeout,
                LoopEnds, Final, FinalTimeout, Parse, SerialRead, SerialReadFault, CliEnd, Main,
                ManagerEnds, Close, Tick, board
  <2> QED
    BY <2>1
<1>6. CASE UNCHANGED vars
  BY <1>6 DEF vars, board
<1> QED
  BY <1>2, <1>3, <1>4, <1>5, <1>6 DEF Next, Serial

\* Outside the board's actions nothing changes there but what it hears.
LEMMA BoardStays ==
  ASSUME [Next]_vars, ~Board
  PROVE  bpc' = bpc /\ got' = got /\ installed' = installed
BY DEF Next, Update, StartUpdate, Request, Prepare, Send, GiveUp, Answer, AnswerTimeout,
       LoopEnds, Final, FinalTimeout, Parse, Serial, SerialWrite, SerialWriteFault, SerialRead,
       SerialReadFault, CliEnd, Main, ManagerEnds, Close, Tick, vars, board

LEMMA FedGrows ==
  ASSUME Types, [Next]_vars, Fed'
  PROVE  Fed \/ BoardGets
<1>1. CASE \E i \in DOMAIN bin' : IsData(bin'[i])
  BY <1>1, BinKinds DEF Fed
<1>2. CASE installed' # <<>> \/ (bpc' \in {"receive", "check", "copy"} /\ got' # <<>>)
  <2>1. CASE ~Board
    BY <1>2, <2>1, BoardStays DEF Fed
  <2>2. CASE TakeRequest \/ TakeOther \/ EraseDone \/ ReceiveBadLength \/ PageFails
             \/ ReceiveTimeout \/ Check
    <3>1. installed' = installed
      BY <2>2 DEF TakeRequest, TakeOther, EraseDone, ReceiveBadLength, PageFails, ReceiveTimeout,
                  Check
    <3>2. ASSUME bpc' \in {"receive", "check", "copy"}
          PROVE  got' = <<>> \/ (bpc \in {"receive", "check", "copy"} /\ got' = got)
      BY <2>2, <3>2, BackInLoop
      DEF TakeRequest, TakeOther, EraseDone, ReceiveBadLength, PageFails, ReceiveTimeout, Check,
          Types, BoardTypes, Contents
    <3> QED
      BY <1>2, <3>1, <3>2 DEF Fed
  <2>3. CASE ReceivePacket
    <3>1. installed' = installed /\ bpc = "receive" /\ bin # <<>>
      BY <2>3 DEF ReceivePacket
    <3>2. got' = got \/ IsData(Head(bin))
      BY <2>3 DEF ReceivePacket, IsData
    <3>3. IsData(Head(bin)) => 1 \in DOMAIN bin /\ IsData(bin[1])
      BY <3>1 DEF Types, QueueTypes
    <3> QED
      BY <1>2, <3>1, <3>2, <3>3 DEF Fed
  <2>4. CASE CopyDone
    <3>1. bpc = "copy" /\ bpc' = "idle" /\ (installed' = got \/ installed' = <<>>)
      BY <2>4, BackInLoop DEF CopyDone
    <3> QED
      BY <1>2, <3>1 DEF Fed
  <2> QED
    BY <2>1, <2>2, <2>3, <2>4 DEF Board
<1> QED
  BY <1>1, <1>2 DEF Fed

LEMMA FedStep == Types /\ NamedOnce /\ OneBlock /\ FedInv /\ [Next]_vars => FedInv'
<1> SUFFICES ASSUME Types, NamedOnce, OneBlock, FedInv, [Next]_vars, Fed'
             PROVE  Late' /\ \A j \in DOMAIN out' : NoneBehind(out, j)'
  BY DEF FedInv
<1>0. out \in Seq(Frame)
  BY DEF Types, QueueTypes
<1>1. CASE BoardGets
  <2>1. out # <<>> /\ out' = Tail(out) /\ 1 \in DOMAIN out /\ IsData(out[1])
    BY <1>0, <1>1 DEF BoardGets, SerialWrite
  <2>2. Late /\ \A j \in DOMAIN out : j > 1 => NoneBehind(out, j)
    BY <2>1 DEF OneBlock
  <2>3. \A j \in DOMAIN out' : j + 1 \in DOMAIN out /\ out'[j] = out[j + 1] /\ j \in Nat /\ j > 0
    BY <1>0, <2>1
  <2>4. ASSUME NEW j \in DOMAIN out' PROVE NoneBehind(out, j)'
    <3>1. NoneBehind(out, j + 1)
      BY <2>2, <2>3
    <3> QED
      BY <2>3, <3>1, LateStays DEF NoneBehind
  <2> QED
    BY <2>2, <2>4, LateStays
<1>2. CASE Fed
  <2>0. Late /\ \A j \in DOMAIN out : NoneBehind(out, j)
    BY <1>2 DEF FedInv
  <2>1. CASE out' = out
    BY <2>0, <2>1, LateStays DEF NoneBehind
  <2>2. CASE out # <<>> /\ out' = Tail(out)
    <3>1. \A j \in DOMAIN out' : j + 1 \in DOMAIN out /\ out'[j] = out[j + 1] /\ j \in Nat
      BY <1>0, <2>2
    <3>2. ASSUME NEW j \in DOMAIN out' PROVE NoneBehind(out, j)'
      <4>1. NoneBehind(out, j + 1)
        BY <2>0, <3>1
      <4> QED
        BY <3>1, <4>1, LateStays DEF NoneBehind
    <3> QED
      BY <2>0, <3>2, LateStays
  <2>3. CASE Request
    <3>1. /\ DOMAIN out' = 1..(Len(out) + 1) /\ DOMAIN out = 1..Len(out) /\ Len(out) \in Nat
          /\ \A j \in DOMAIN out : out'[j] = out[j]
          /\ out'[Len(out) + 1] = UpdateRequest(id)
      BY <1>0, <2>3, Sending, FramesTyped
    <3>2. Over' /\ ~IsData(out'[Len(out) + 1])
      BY <2>0, <2>3, <3>1, Sending, KindOfFrames, LateStays
    <3> QED
      BY <2>0, <3>1, <3>2, LateStays DEF NoneBehind
  <2>4. CASE Send
    <3>1. /\ DOMAIN out' = 1..(Len(out) + 1) /\ DOMAIN out = 1..Len(out) /\ Len(out) \in Nat
          /\ \A j \in DOMAIN out : out'[j] = out[j]
          /\ out'[Len(out) + 1] = ProgramData(id, pos)
      BY <1>0, <2>4, Sending, FramesTyped
    <3>2. /\ ~IsRequest(out'[Len(out) + 1])
          /\ Over => ~IsData(out'[Len(out) + 1])
      BY <2>4, <3>1, Sending, KindOfFrames
    <3> QED
      BY <2>0, <3>1, <3>2, LateStays DEF NoneBehind
  <2> QED
    BY <2>1, <2>2, <2>3, <2>4, OutKinds
<1> QED
  BY <1>1, <1>2, FedGrows

-----------------------------------------------------------------------------
(* The board installs one program                                          *)

NoDataOut == Over /\ \A i \in DOMAIN out : ~IsData(out[i])

LEMMA NoDataOutStays ==
  ASSUME Types, NamedOnce, [Next]_vars, NoDataOut
  PROVE  NoDataOut'
<1>0. out \in Seq(Frame)
  BY DEF Types, QueueTypes
<1>1. Over'
  BY LateStays DEF NoDataOut
<1>2. CASE out' = out \/ (out # <<>> /\ out' = Tail(out))
  BY <1>0, <1>1, <1>2 DEF NoDataOut
<1>3. CASE Request \/ Send
  <2>1. PICK f \in Frame : out' = Append(out, f) /\ ~IsData(f)
    BY <1>3, Sending, FramesTyped, KindOfFrames DEF NoDataOut
  <2> QED
    BY <1>0, <1>1, <2>1 DEF NoDataOut
<1> QED
  BY <1>2, <1>3, OutKinds

LEMMA OnceStep == Types /\ NamedOnce /\ FedInv /\ OnceInv /\ [Next]_vars => OnceInv'
<1> SUFFICES ASSUME Types, NamedOnce, FedInv, OnceInv, [Next]_vars, installed' # <<>>
             PROVE  /\ bpc' = "idle" /\ IsRequest(mail') => NoDataOut'
                    /\ bpc' \in {"erase", "receive", "check"} => got' = <<>> /\ NoPackets'
                    /\ bpc' # "copy"
  BY DEF OnceInv, NoDataOut
<1>0. out \in Seq(Frame) /\ bin \in Seq(Frame)
  BY DEF Types, QueueTypes
<1>1. CASE installed = <<>>
  <2>1. CopyDone
    BY <1>1, BoardStays
    DEF Board, TakeRequest, TakeOther, EraseDone, ReceivePacket, ReceiveBadLength, PageFails,
        ReceiveTimeout, Check
  <2> QED
    BY <2>1, BackInLoop, KindOfFrames DEF CopyDone
<1>2. CASE installed # <<>>
  <2>0. /\ bpc = "idle" /\ IsRequest(mail) => NoDataOut
        /\ bpc \in {"erase", "receive", "check"} => got = <<>> /\ NoPackets
        /\ bpc # "copy"
    BY <1>2 DEF OnceInv, NoDataOut
  <2>n. NoPackets => NoDataOut /\ NoDataOut'
    BY NoDataOutStays DEF NoPackets, NoDataOut
  <2>p. NoPackets => NoPackets'
    <3>1. NoPackets => ~BoardGets
      BY <1>0 DEF NoPackets, BoardGets, SerialWrite
    <3>2. NoPackets => \A i \in DOMAIN bin' : ~IsData(bin'[i])
      BY <3>1, BinKinds DEF NoPackets
    <3> QED
      BY <3>2, <2>n DEF NoPackets, NoDataOut
  <2>1. CASE ~Board
    <3>1. bpc' = bpc /\ got' = got
      BY <2>1, BoardStays
    <3>2. ASSUME bpc = "idle", IsRequest(mail') PROVE NoDataOut'
      <4>1. CASE mail' = mail
        BY <2>0, <3>2, <4>1, NoDataOutStays
      <4>2. CASE mail' # mail
        <5>1. \A f : Hears(f) => mail' = mail \/ mail' = f
          BY DEF Hears
        <5>2. SerialWrite
          BY <2>1, <3>2, <4>2, <5>1, KindOfFrames
          DEF Next, Update, StartUpdate, Request, Prepare, Send, GiveUp, Answer, AnswerTimeout,
              LoopEnds, Final, FinalTimeout, Parse, Serial, SerialWriteFault, SerialRead,
              SerialReadFault, CliEnd, Main, ManagerEnds, Close, Tick, vars, board
        <5>3. out # <<>> /\ 1 \in DOMAIN out /\ IsRequest(out[1]) /\ out' = Tail(out)
          BY <1>0, <3>2, <4>2, <5>1, <5>2 DEF SerialWrite
        <5>4. Over /\ \A l \in DOMAIN out : l > 1 => ~IsData(out[l])
          BY <1>2, <5>3 DEF FedInv, Fed, NoneBehind
        <5>5. \A l \in DOMAIN out' : l + 1 \in DOMAIN out /\ l + 1 > 1 /\ out'[l] = out[l + 1]
          BY <1>0, <5>3
        <5> QED
          BY <5>4, <5>5, LateStays DEF NoDataOut
      <4> QED
        BY <4>1, <4>2
    <3> QED
      BY <2>0, <2>p, <3>1, <3>2
  <2>2. CASE TakeRequest
    <3>1. bpc = "idle" /\ IsRequest(mail) /\ bpc' = "erase" /\ got' = <<>> /\ bin' = <<>>
      BY <2>2 DEF TakeRequest, IsRequest
    <3> QED
      BY <2>0, <3>1, NoDataOutStays DEF NoPackets, NoDataOut
  <2>3. CASE TakeOther
    BY <2>3, BackInLoop, KindOfFrames DEF TakeOther
  <2>4. CASE EraseDone
    BY <2>4, <2>0, <2>p DEF EraseDone
  <2>5. CASE ReceivePacket
    <3>1. bpc = "receive" /\ got = <<>> /\ NoPackets /\ bin # <<>> /\ 1 \in DOMAIN bin
      BY <1>0, <2>0, <2>5 DEF ReceivePacket
    <3>2. ~(Head(bin).type = "PROGRAM_DATA" /\ Head(bin).dst = BoardId)
      BY <1>0, <3>1 DEF NoPackets, IsData
    <3>3. got' = got /\ ReceiveFails(Tail(bin))
      BY <2>5, <3>2 DEF ReceivePacket
    <3>4. (bpc' = "idle" /\ mail' = None) \/ bpc' = bpc
      BY <3>3, BackInLoop DEF ReceiveFails
    <3> QED
      BY <2>p, <3>1, <3>3, <3>4, KindOfFrames
  <2>6. CASE ReceiveBadLength
    BY <2>6 DEF ReceiveBadLength
  <2>7. CASE PageFails
    <3>1. bpc = "receive" /\ got' = got
      BY <2>7 DEF PageFails
    <3>2. (bpc' = "idle" /\ mail' = None) \/ bpc' = bpc
      BY <2>7, BackInLoop DEF PageFails
    <3> QED
      BY <2>0, <2>p, <3>1, <3>2, KindOfFrames
  <2>8. CASE ReceiveTimeout
    <3>1. bpc = "receive" /\ got' = got
      BY <2>8 DEF ReceiveTimeout
    <3>2. (bpc' = "idle" /\ mail' = None) \/ bpc' = bpc
      BY <2>8, BackInLoop DEF ReceiveTimeout, ReceiveFails
    <3> QED
      BY <2>0, <2>p, <3>1, <3>2, KindOfFrames
  <2>9. CASE Check
    <3>1. bpc = "check" /\ got = <<>> /\ installed = Program
      BY <1>2, <2>0, <2>9 DEF Check, Types, BoardTypes, Contents
    <3>2. bpc' = "idle" /\ mail' = None
      BY <1>2, <2>9, <3>1, BackInLoop DEF Check
    <3> QED
      BY <3>2, KindOfFrames
  <2>10. CASE CopyDone
    BY <2>0, <2>10 DEF CopyDone
  <2> QED
    BY <2>1, <2>2, <2>3, <2>4, <2>5, <2>6, <2>7, <2>8, <2>9, <2>10 DEF Board
<1> QED
  BY <1>1, <1>2

-----------------------------------------------------------------------------
(* What the board has said when it has installed the program               *)

LEMMA AmongQueue ==
  ASSUME NEW q \in Seq(Answers), NEW a, NEW b \in Answers
  PROVE  /\ Among(a, Append(q, b)) => Among(a, q) \/ a = b
         /\ q # <<>> => Head(q) \in Answers /\ Among(Head(q), q)
         /\ q # <<>> /\ Among(a, Tail(q)) => Among(a, q)
<1>1. Among(a, Append(q, b)) => Among(a, q) \/ a = b
  BY DEF Among
<1>2. q # <<>> => Head(q) \in Answers /\ Among(Head(q), q)
  <2>1. q # <<>> => 1 \in DOMAIN q /\ Head(q) = q[1]
    OBVIOUS
  <2> QED
    BY <2>1 DEF Among
<1>3. q # <<>> /\ Among(a, Tail(q)) => Among(a, q)
  <2>1. ASSUME q # <<>> PROVE \A i \in DOMAIN Tail(q) : i + 1 \in DOMAIN q /\ Tail(q)[i] = q[i + 1]
    BY <2>1
  <2> QED
    BY <2>1 DEF Among
<1> QED
  BY <1>1, <1>2, <1>3

Finished(q) == Among("FINISHED", q)
OnItsWay    == Finished(say) \/ Finished(up) \/ Finished(rxq)

LEMMA SaidFinished ==
  ASSUME Types, [Next]_vars, OnItsWay'
  PROVE  OnItsWay \/ (CopyDone /\ installed' = got)
<1>0. /\ say \in Seq(Answers) /\ up \in Seq(Answers) /\ rxq \in Seq(Answers)
      /\ "NACK" \in Answers
  BY DEF Types, QueueTypes, Answers
<1>1. CASE Board
  <2>0. up' = up /\ rxq' = rxq
    BY <1>1 DEF Board, TakeRequest, TakeOther, EraseDone, ReceivePacket, ReceiveBadLength,
                PageFails, ReceiveTimeout, Check, CopyDone, serial
  <2>1. ~Finished(<<"NACK">>) /\ ~Finished(<<"NACK", "NACK">>) /\ ~Finished(<<"ACK">>)
        /\ ~Finished(<<"FATAL_ERROR">>) /\ ~Finished(<<"FATAL_ERROR", "FATAL_ERROR">>)
    BY DEF Finished, Among
  <2>2. \/ say' = say \/ ~Finished(say') \/ (CopyDone /\ installed' = got)
    BY <1>1, <2>1
    DEF Board, TakeRequest, TakeOther, EraseDone, ReceivePacket, ReceiveFails, ReceiveBadLength,
        PageFails, ReceiveTimeout, Check, CopyDone
  <2> QED
    BY <2>0, <2>2 DEF OnItsWay
<1>2. CASE SerialWrite \/ SerialWriteFault
  <2>1. up' = up /\ rxq' = rxq
    BY <1>2 DEF SerialWrite, SerialWriteFault
  <2>2. \A f : Hears(f) => say' = say \/ say' = Append(say, "NACK")
    BY DEF Hears
  <2>3. say' = say \/ say' = Append(say, "NACK")
    BY <1>2, <2>2 DEF SerialWrite, SerialWriteFault
  <2>4. Finished(say') => Finished(say)
    BY <1>0, <2>3, AmongQueue DEF Finished
  <2> QED
    BY <2>1, <2>4 DEF OnItsWay
<1>3. CASE SerialRead \/ SerialReadFault
  <2>1. say # <<>> /\ say' = Tail(say) /\ rxq' = rxq /\ (up' = up \/ up' = Append(up, Head(say)))
    BY <1>3 DEF SerialRead, SerialReadFault
  <2>2. Head(say) \in Answers /\ (Finished(say') => Finished(say))
    <3>1. Head(say) \in Answers
      BY ONLY <1>0, <2>1, AmongQueue
    <3>2. Finished(say') => Finished(say)
      BY <1>0, <2>1, AmongQueue DEF Finished
    <3> QED
      BY <3>1, <3>2
  <2>3. Finished(up') => Finished(up) \/ Head(say) = "FINISHED"
    <3> DEFINE answer == Head(say)
    <3>1. answer \in Answers /\ (up' = up \/ up' = Append(up, answer))
      BY <2>1, <2>2
    <3> HIDE DEF answer
    <3>2. Finished(Append(up, answer)) => Finished(up) \/ answer = "FINISHED"
      BY <1>0, <3>1, AmongQueue DEF Finished
    <3>3. Finished(up') => Finished(up) \/ answer = "FINISHED"
      BY <3>1, <3>2
    <3> QED
      BY <3>3 DEF answer
  <2>4. Head(say) = "FINISHED" => Finished(say)
    <3>1. Among(Head(say), say)
      BY ONLY <1>0, <2>1, AmongQueue
    <3> QED
      BY <3>1 DEF Finished
  <2> QED
    BY <2>1, <2>2, <2>3, <2>4 DEF OnItsWay
<1>4. CASE Parse
  <2>1. up # <<>> /\ up' = Tail(up) /\ say' = say /\ (rxq' = rxq \/ rxq' = Append(rxq, Head(up)))
    BY <1>4 DEF Parse, board
  <2>2. Head(up) \in Answers
    BY <1>0, <2>1, AmongQueue
  <2>3. Finished(up') => Finished(up)
    BY <1>0, <2>1, AmongQueue DEF Finished
  <2>4. Finished(rxq') => Finished(rxq) \/ Head(up) = "FINISHED"
    <3> DEFINE answer == Head(up)
    <3>1. answer \in Answers /\ (rxq' = rxq \/ rxq' = Append(rxq, answer))
      BY <2>1, <2>2
    <3> HIDE DEF answer
    <3>2. Finished(Append(rxq, answer)) => Finished(rxq) \/ answer = "FINISHED"
      BY <1>0, <3>1, AmongQueue DEF Finished
    <3>3. Finished(rxq') => Finished(rxq) \/ answer = "FINISHED"
      BY <3>1, <3>2
    <3> QED
      BY <3>3 DEF answer
  <2>5. Head(up) = "FINISHED" => Finished(up)
    <3>1. Among(Head(up), up)
      BY ONLY <1>0, <2>1, AmongQueue
    <3> QED
      BY <3>1 DEF Finished
  <2> QED
    BY <2>1, <2>3, <2>4, <2>5 DEF OnItsWay
<1>5. CASE Update \/ CliEnd \/ Main \/ Tick \/ UNCHANGED vars
  <2>1. say' = say /\ up' = up
    BY <1>5 DEF Update, StartUpdate, Request, Prepare, Send, GiveUp, Answer, AnswerTimeout,
                LoopEnds, Final, FinalTimeout, CliEnd, Main, ManagerEnds, Close, Tick, vars,
                serial, board
  <2>2. rxq' = rxq \/ (rxq # <<>> /\ rxq' = Tail(rxq))
    BY <1>5 DEF Update, StartUpdate, Request, Prepare, Send, GiveUp, Answer, AnswerTimeout,
                LoopEnds, Final, FinalTimeout, HasAnswer, CliEnd, Main, ManagerEnds, Close, Tick,
                vars, serial
  <2>3. Finished(rxq') => Finished(rxq)
    BY <1>0, <2>2, AmongQueue DEF Finished
  <2> QED
    BY <2>1, <2>3 DEF OnItsWay
<1> QED
  BY <1>1, <1>2, <1>3, <1>4, <1>5 DEF Next, Serial

LEMMA FinishedStep == Types /\ OnceInv /\ FinishedInv /\ [Next]_vars => FinishedInv'
<1> SUFFICES ASSUME Types, OnceInv, FinishedInv, [Next]_vars, OnItsWay'
             PROVE  installed' = Program
  BY DEF FinishedInv, OnItsWay, Finished, Program
<1>1. CASE CopyDone
  <2>1. bpc = "copy" /\ got = Program /\ installed = <<>>
    BY <1>1 DEF CopyDone, OnceInv, Types, BoardTypes, Contents
  <2>2. CASE installed' = got
    BY <2>1, <2>2
  <2>3. CASE installed' # got
    <3>1. installed' = <<>>
      BY <1>1, <2>3 DEF CopyDone
    <3>2. OnItsWay
      BY <2>3, SaidFinished
    <3> QED
      BY <2>1, <3>1, <3>2 DEF FinishedInv, OnItsWay, Finished
  <2> QED
    BY <2>2, <2>3
<1>2. CASE ~CopyDone
  <2>1. installed' = installed
    BY <1>2, BoardStays
    DEF Board, TakeRequest, TakeOther, EraseDone, ReceivePacket, ReceiveBadLength, PageFails,
        ReceiveTimeout, Check
  <2>2. OnItsWay
    BY <1>2, SaidFinished
  <2> QED
    BY <2>1, <2>2 DEF FinishedInv, OnItsWay, Finished
<1> QED
  BY <1>1, <1>2

LEMMA InitInv == Init => IInv
<1> SUFFICES ASSUME Init PROVE IInv
  OBVIOUS
<1>1. TypeInv
  BY InitTyped
<1>2. OneBlock /\ FedInv /\ OnceInv
  BY DEF Init, OneBlock, Fed, FedInv, OnceInv
<1>3. FinishedInv
  BY DEF Init, FinishedInv, Among
<1> QED
  BY <1>1, <1>2, <1>3 DEF IInv

\* The order of frames and answers on their way, for lists that name the board on the line
\* once: its packets come in one block behind its request, so the board is fed in one of its
\* updates and none of the others can install anything.
THEOREM Invariant ==
  ASSUME NamedOnce
  PROVE  Spec => []IInv
<1>1. IInv /\ [Next]_vars => IInv'
  <2> SUFFICES ASSUME IInv, [Next]_vars PROVE IInv'
    OBVIOUS
  <2>1. TypeInv' /\ Types
    BY TypeStep, Parts DEF IInv
  <2> QED
    BY NamedOnce, <2>1, BlockStep, FedStep, OnceStep, FinishedStep DEF IInv
<1> QED
  BY InitInv, <1>1, PTL DEF Spec

\* "Update finished" is printed only for the board that sent it and only while its target
\* holds the whole program (Python/main.py:108-116, fvc.c:441-452): the answer may be late,
\* and taken by a process that waits for another one, but no second update of the board can
\* have begun to change the target since it was sent.
THEOREM FinishedMeansInstalled ==
  ASSUME NamedOnce
  PROVE  Spec => FinishedIsInstalled
<1>1. IInv /\ [Next]_vars =>
        [\A i \in DOMAIN list : result'[i] = "finished" /\ result[i] # "finished"
           => list[i] = BoardId /\ installed = Program]_vars
  <2> SUFFICES ASSUME IInv, Next, NEW i \in DOMAIN list,
                      result'[i] = "finished", result[i] # "finished"
               PROVE  list[i] = BoardId /\ installed = Program
    BY DEF vars, update
  <2>0. Types /\ rxq \in Seq(Answers) /\ result \in [DOMAIN list -> {"none", "failed", "finished"}]
    BY Parts DEF IInv, Types, QueueTypes, ToolTypes, Results
  <2>1. LoopEnds \/ Final \/ FinalTimeout
    BY DEF Next, Update, StartUpdate, Request, Prepare, Send, GiveUp, Answer, AnswerTimeout,
           Parse, Serial, SerialWrite, SerialWriteFault, SerialRead, SerialReadFault, CliEnd,
           Main, ManagerEnds, Close, Tick, Board, TakeRequest, TakeOther, EraseDone,
           ReceivePacket, ReceiveBadLength, PageFails, ReceiveTimeout, Check, CopyDone, update
  <2>2. CASE LoopEnds \/ FinalTimeout
    BY <2>0, <2>2 DEF LoopEnds, FinalTimeout, Conclude
  <2>3. CASE Final
    <3>1. id = BoardId /\ rxq # <<>>
          /\ result' = [result EXCEPT ![k] = IF Head(rxq) = "FINISHED" THEN "finished" ELSE "failed"]
      BY <2>3 DEF Final, HasAnswer, Conclude
    <3>2. i = k /\ Head(rxq) = "FINISHED"
      BY <2>0, <3>1
    <3>3. Among("FINISHED", rxq)
      BY <2>0, <3>1, <3>2 DEF Among
    <3> QED
      BY <3>1, <3>2, <3>3 DEF IInv, FinishedInv, id
  <2> QED
    BY <2>1, <2>2, <2>3
<1> QED
  BY Invariant, <1>1, PTL DEF Spec, FinishedIsInstalled
=============================================================================
