-------------------------- MODULE HostLimitProofs --------------------------
(***************************************************************************)
(* The retry limits and times of HostUpdate's two sides fit, for any       *)
(* packets, numbers of faults, and limits and times in the code's order:   *)
(* the board gives up before the tool, and until then every packet that    *)
(* was hit is sent again.                                                  *)
(***************************************************************************)
EXTENDS HostUpdateProofs, SequenceTheorems

-----------------------------------------------------------------------------
(* The inductive invariant                                                 *)

\* No answer was hit.
Unhit == lost \cap Answers = {}

\* The answers on their way, the oldest first.
InFlight == rxq \o (up \o say)

\* Those behind the first i begin with n refusals.
Refusals(q, i, n) == i + n <= Len(q) /\ \A j \in 1..n : q[i + j] = "NACK"

\* The tool sends packets to the board on the line.
Counting ==
  /\ k \in DOMAIN list /\ id = BoardId /\ state \in {1, 2}
  /\ at = "answer" \/ (at = "loop" /\ id \notin ended)

\* The refusals of a packet are counted from an acknowledgement on: one on its way, at i, or
\* the last one that the tool has taken, at 0, and some of them already.
Since(i) == IF i = 0 THEN Counting ELSE InFlight[i] = "ACK"
Taken(i) == IF i = 0 /\ state = 2 THEN retr ELSE 0

\* The board has no update before it.
Unasked ==
  \/ bpc = "hung"
  \/ /\ bpc \notin {"erase", "receive"} /\ ~IsRequest(mail)
     /\ \A i \in DOMAIN out : ~IsRequest(out[i])

\* Nor will it have another one for this tool's board.
Spent == Late /\ Unasked

Applies == Unhit /\ Runs /\ ~Over /\ Packets > 0

\* No more refusals follow an acknowledgement than the board forgives, unless it has left
\* the update behind for good.
RunInv ==
  Applies => \A i \in 0..Len(InFlight), n \in Nat :
    Since(i) /\ Refusals(InFlight, i, n) => Taken(i) + n <= RetryLimit \/ Spent

\* When there is nothing but refusals behind an acknowledgement, the board that receives has
\* counted all of them, and the board in its main loop has left the update behind.
LastInv ==
  Applies => \A i \in 0..Len(InFlight) :
    Since(i) /\ Refusals(InFlight, i, Len(InFlight) - i) =>
      /\ bpc = "receive" => Taken(i) + (Len(InFlight) - i) <= bretry
      /\ bpc = "idle" => Spent

LimitInv == Unhit /\ retr > RetryLimit => Unasked

\* Smaller facts: refusals are counted of packets only, a closed tool has no boards, and
\* the board is silent while it erases and copies.
CountInv ==
  /\ at \in {"loop", "answer", "final"} /\ (id # BoardId \/ state = 0) => retr = 0
  /\ state = 2 => pos > 0
SilenceInv ==
  /\ need > 0 => ~Unhit
  /\ cli = "close" \/ closed => Ids = {}
  /\ bpc \in {"erase", "copy"} => say = <<>>
  /\ bpc \in {"check", "copy"} /\ Packets > 0 => got # <<>>

RetryInv == CountInv /\ SilenceInv /\ RunInv /\ LastInv /\ LimitInv

-----------------------------------------------------------------------------
(* The answers on their way                                                *)

LEMMA Moving ==
  ASSUME NEW S, NEW a \in Seq(S), NEW b \in Seq(S), b # <<>>
  PROVE  Append(a, Head(b)) \o Tail(b) = a \o b
<1> DEFINE c == Append(a, Head(b))
           t == Tail(b)
<1>1. /\ t \in Seq(S) /\ Len(t) = Len(b) - 1 /\ Len(b) \in Nat /\ Len(b) > 0
      /\ \A i \in 1..Len(t) : t[i] = b[i + 1]
  BY HeadTailProperties
<1>2. /\ c \in Seq(S) /\ Len(c) = Len(a) + 1 /\ Len(a) \in Nat
      /\ \A i \in 1..Len(a) : c[i] = a[i]
      /\ c[Len(a) + 1] = b[1]
  BY HeadTailProperties, AppendProperties
<1> HIDE DEF c, t
<1>3. /\ c \o t \in Seq(S) /\ Len(c \o t) = Len(c) + Len(t)
      /\ \A i \in 1..(Len(c) + Len(t)) : (c \o t)[i] = IF i <= Len(c) THEN c[i] ELSE t[i - Len(c)]
  BY <1>1, <1>2, ConcatProperties, Zenon
<1>4. /\ a \o b \in Seq(S) /\ Len(a \o b) = Len(a) + Len(b)
      /\ \A i \in 1..(Len(a) + Len(b)) : (a \o b)[i] = IF i <= Len(a) THEN a[i] ELSE b[i - Len(a)]
  BY ConcatProperties, Zenon
<1>5. Len(c \o t) = Len(a \o b)
  BY <1>1, <1>2, <1>3, <1>4
<1>6. ASSUME NEW i \in 1..Len(c \o t) PROVE (c \o t)[i] = (a \o b)[i]
  <2>1. CASE i <= Len(a)
    BY <1>1, <1>2, <1>3, <1>4, <2>1
  <2>2. CASE i = Len(a) + 1
    BY <1>1, <1>2, <1>3, <1>4, <2>2
  <2>3. CASE i > Len(a) + 1
    <3>1. /\ (c \o t)[i] = t[i - Len(c)] /\ (a \o b)[i] = b[i - Len(a)]
          /\ i - Len(c) \in 1..Len(t)
      BY <1>1, <1>2, <1>3, <1>4, <2>3
    <3>2. t[i - Len(c)] = b[(i - Len(c)) + 1]
      BY <1>1, <3>1
    <3>3. (i - Len(c)) + 1 = i - Len(a)
      BY <1>1, <1>2
    <3> QED
      BY <3>1, <3>2, <3>3
  <2> QED
    BY <1>1, <1>2, <2>1, <2>2, <2>3
<1> HIDE DEF c, t
<1>7. c \o t = a \o b
  BY <1>3, <1>4, <1>5, <1>6, SeqEqual, Zenon
<1> QED
  BY <1>7 DEF c, t

LEMMA Taking ==
  ASSUME NEW S, NEW a \in Seq(S), NEW b \in Seq(S), a # <<>>
  PROVE  /\ a \o b \in Seq(S) /\ Len(a \o b) > 0 /\ (a \o b)[1] = Head(a)
         /\ Tail(a) \o b \in Seq(S) /\ Len(Tail(a) \o b) = Len(a \o b) - 1
         /\ \A i \in 1..Len(Tail(a) \o b) : (Tail(a) \o b)[i] = (a \o b)[i + 1]
<1> DEFINE t == Tail(a)
<1>1. /\ t \in Seq(S) /\ Len(t) = Len(a) - 1 /\ Len(a) \in Nat /\ Len(a) > 0 /\ Len(b) \in Nat
      /\ \A i \in 1..Len(t) : t[i] = a[i + 1]
      /\ Head(a) = a[1]
  BY HeadTailProperties
<1> HIDE DEF t
<1>2. /\ t \o b \in Seq(S) /\ Len(t \o b) = Len(t) + Len(b)
      /\ \A i \in 1..(Len(t) + Len(b)) : (t \o b)[i] = IF i <= Len(t) THEN t[i] ELSE b[i - Len(t)]
  BY <1>1, ConcatProperties, Zenon
<1>3. /\ a \o b \in Seq(S) /\ Len(a \o b) = Len(a) + Len(b)
      /\ \A i \in 1..(Len(a) + Len(b)) : (a \o b)[i] = IF i <= Len(a) THEN a[i] ELSE b[i - Len(a)]
  BY ConcatProperties, Zenon
<1>4. ASSUME NEW i \in 1..Len(t \o b) PROVE (t \o b)[i] = (a \o b)[i + 1]
  <2>1. CASE i <= Len(t)
    BY <1>1, <1>2, <1>3, <2>1
  <2>2. CASE i > Len(t)
    <3>1. (t \o b)[i] = b[i - Len(t)] /\ (a \o b)[i + 1] = b[(i + 1) - Len(a)]
      BY <1>1, <1>2, <1>3, <2>2
    <3>2. i - Len(t) = (i + 1) - Len(a)
      BY <1>1
    <3> QED
      BY <3>1, <3>2
  <2> QED
    BY <1>1, <2>1, <2>2
<1>5. (a \o b)[1] = Head(a) /\ Len(a \o b) > 0 /\ Len(t \o b) = Len(a \o b) - 1
  BY <1>1, <1>2, <1>3
<1> QED
  BY <1>2, <1>3, <1>4, <1>5 DEF t

LEMMA Saying ==
  ASSUME NEW a \in Seq(Answers), NEW b \in Seq(Answers), NEW c \in Seq(Answers),
         NEW x \in Answers
  PROVE  a \o (b \o Append(c, x)) = Append(a \o (b \o c), x)
<1>1. <<x>> \in Seq(Answers) /\ b \o c \in Seq(Answers) /\ a \o (b \o c) \in Seq(Answers)
  BY ConcatProperties
<1>2. Append(c, x) = c \o <<x>> /\ Append(a \o (b \o c), x) = (a \o (b \o c)) \o <<x>>
  BY <1>1, AppendIsConcat
<1>3. b \o (c \o <<x>>) = (b \o c) \o <<x>>
  BY <1>1, ConcatAssociative
<1>4. a \o ((b \o c) \o <<x>>) = (a \o (b \o c)) \o <<x>>
  BY <1>1, ConcatAssociative
<1> QED
  BY <1>2, <1>3, <1>4

LEMMA Joins ==
  \A a, b, c \in Seq(Answers) : (a \o b) \o c = a \o (b \o c)
<1> SUFFICES ASSUME NEW a \in Seq(Answers), NEW b \in Seq(Answers), NEW c \in Seq(Answers)
             PROVE  (a \o b) \o c = a \o (b \o c)
  OBVIOUS
<1> QED
  BY ConcatAssociative

LEMMA InFlightTyped ==
  ASSUME Types
  PROVE  /\ rxq \in Seq(Answers) /\ up \in Seq(Answers) /\ say \in Seq(Answers)
         /\ up \o say \in Seq(Answers) /\ InFlight \in Seq(Answers) /\ Len(InFlight) \in Nat
         /\ \A i \in 1..Len(InFlight) : InFlight[i] \in Answers
<1>1. rxq \in Seq(Answers) /\ up \in Seq(Answers) /\ say \in Seq(Answers)
  BY DEF Types, QueueTypes
<1>2. up \o say \in Seq(Answers)
  BY <1>1, ConcatProperties
<1>3. InFlight \in Seq(Answers)
  BY <1>1, <1>2, ConcatProperties DEF InFlight
<1> QED
  BY <1>1, <1>2, <1>3

\* What the board says comes behind everything else.
LEMMA SaysMore ==
  ASSUME Types, rxq' = rxq, up' = up
  PROVE  /\ say' = say => InFlight' = InFlight
         /\ \A x \in Answers : say' = Append(say, x) => InFlight' = Append(InFlight, x)
         /\ \A x \in Answers : say = <<>> /\ say' = <<x>> => InFlight' = Append(InFlight, x)
         /\ \A x \in Answers : say = <<>> /\ say' = <<x, x>> =>
              InFlight' = Append(Append(InFlight, x), x)
<1>1. say' = say => InFlight' = InFlight
  BY DEF InFlight
<1>0. rxq \in Seq(Answers) /\ up \in Seq(Answers) /\ say \in Seq(Answers)
  BY InFlightTyped
<1>s. \A c \in Seq(Answers) : \A x \in Answers :
        rxq \o (up \o Append(c, x)) = Append(rxq \o (up \o c), x)
  BY <1>0, Saying
<1>2. ASSUME NEW x \in Answers, say' = Append(say, x) PROVE InFlight' = Append(InFlight, x)
  <2>1. InFlight' = rxq \o (up \o Append(say, x))
    BY <1>2 DEF InFlight
  <2> QED
    BY <1>0, <1>s, <2>1, Zenon DEF InFlight
<1>3. ASSUME NEW x \in Answers, say = <<>>, say' = <<x, x>>
      PROVE  InFlight' = Append(Append(InFlight, x), x)
  <2>1. Append(say, x) \in Seq(Answers) /\ say' = Append(Append(say, x), x)
    BY <1>3
  <2>2. InFlight' = Append(rxq \o (up \o Append(say, x)), x)
    <3>1. InFlight' = rxq \o (up \o Append(Append(say, x), x))
      BY <2>1 DEF InFlight
    <3> QED
      BY <1>s, <2>1, <3>1, Zenon
  <2>3. rxq \o (up \o Append(say, x)) = Append(InFlight, x)
    BY <1>0, <1>s, Zenon DEF InFlight
  <2> QED
    BY <2>2, <2>3
<1>4. ASSUME NEW x \in Answers, say = <<>>, say' = <<x>> PROVE InFlight' = Append(InFlight, x)
  <2>1. say' = Append(say, x)
    BY <1>4
  <2> QED
    BY <1>2, <2>1
<1> QED
  BY <1>1, <1>2, <1>3, <1>4

\* Answers go from queue to queue in their order.
LEMMA PassesOn ==
  ASSUME Types
  PROVE  /\ up # <<>> /\ rxq' = Append(rxq, Head(up)) /\ up' = Tail(up) /\ say' = say
              => InFlight' = InFlight
         /\ say # <<>> /\ rxq' = rxq /\ up' = Append(up, Head(say)) /\ say' = Tail(say)
              => InFlight' = InFlight
<1>1. ASSUME up # <<>>, rxq' = Append(rxq, Head(up)), up' = Tail(up), say' = say
      PROVE  InFlight' = InFlight
  <2>1. Head(up) \in Answers /\ Tail(up) \in Seq(Answers) /\ Append(rxq, Head(up)) \in Seq(Answers)
    BY <1>1, InFlightTyped, HeadTailProperties, AppendProperties
  <2>0. rxq \in Seq(Answers) /\ up \in Seq(Answers) /\ say \in Seq(Answers)
    BY InFlightTyped
  <2>2. InFlight' = (Append(rxq, Head(up)) \o Tail(up)) \o say
    <3>1. InFlight' = Append(rxq, Head(up)) \o (Tail(up) \o say)
      BY <1>1 DEF InFlight
    <3> QED
      BY <2>0, <2>1, <3>1, Joins, Zenon
  <2>3. Append(rxq, Head(up)) \o Tail(up) = rxq \o up
    BY <1>1, <2>0, Moving, Zenon
  <2>4. InFlight = (rxq \o up) \o say
    <3>1. (rxq \o up) \o say = rxq \o (up \o say)
      BY <2>0, Joins, Zenon
    <3> QED
      BY <3>1 DEF InFlight
  <2> QED
    BY <2>2, <2>3, <2>4
<1>2. ASSUME say # <<>>, rxq' = rxq, up' = Append(up, Head(say)), say' = Tail(say)
      PROVE  InFlight' = InFlight
  BY <1>2, InFlightTyped, Moving DEF InFlight
<1> QED
  BY <1>1, <1>2

-----------------------------------------------------------------------------
(* Refusals when answers are taken and more of them come                   *)

Longer(q, p) == Len(q) <= Len(p) /\ \A i \in 1..Len(q) : p[i] = q[i]

LEMMA RefusalsGrow ==
  ASSUME NEW q \in Seq(Answers), NEW p \in Seq(Answers), Longer(q, p),
         NEW i \in 0..Len(p), NEW n \in Nat, Refusals(p, i, n)
  PROVE  /\ i + n <= Len(q) => i \in 0..Len(q) /\ Refusals(q, i, n)
         /\ i <= Len(q) /\ i + n > Len(q) =>
              /\ i \in 0..Len(q) /\ Refusals(q, i, Len(q) - i)
              /\ Len(p) > Len(q) /\ p[Len(q) + 1] = "NACK"
<1>1. Len(q) \in Nat /\ Len(p) \in Nat /\ i \in Nat
  OBVIOUS
<1>2. \A j \in 1..n : p[i + j] = "NACK"
  BY DEF Refusals
<1>3. ASSUME i + n <= Len(q) PROVE i \in 0..Len(q) /\ Refusals(q, i, n)
  <2>1. \A j \in 1..n : i + j \in 1..Len(q)
    BY <1>1, <1>3
  <2> QED
    BY <1>1, <1>2, <1>3, <2>1 DEF Refusals, Longer
<1>4. ASSUME i <= Len(q), i + n > Len(q)
      PROVE  /\ i \in 0..Len(q) /\ Refusals(q, i, Len(q) - i)
             /\ Len(p) > Len(q) /\ p[Len(q) + 1] = "NACK"
  <2>1. \A j \in 1..(Len(q) - i) : j \in 1..n /\ i + j \in 1..Len(q)
    BY <1>1, <1>4
  <2>2. (Len(q) + 1) - i \in 1..n /\ i + ((Len(q) + 1) - i) = Len(q) + 1
    BY <1>1, <1>4
  <2>3. p[Len(q) + 1] = "NACK"
    BY <1>2, <2>2
  <2>4. Refusals(q, i, Len(q) - i)
    BY <1>1, <1>2, <2>1 DEF Refusals, Longer
  <2> QED
    BY <1>1, <1>4, <2>3, <2>4 DEF Refusals
<1> QED
  BY <1>3, <1>4

LEMMA RefusalsTaken ==
  ASSUME NEW q \in Seq(Answers), NEW p \in Seq(Answers),
         Len(q) > 0, Len(p) = Len(q) - 1, \A i \in 1..Len(p) : p[i] = q[i + 1],
         NEW i \in 0..Len(p), NEW n \in Nat, Refusals(p, i, n)
  PROVE  /\ Refusals(q, i + 1, n)
         /\ i = 0 /\ q[1] = "NACK" => Refusals(q, 0, n + 1)
<1>1. Len(q) \in Nat /\ Len(p) \in Nat /\ i \in Nat /\ i + n <= Len(p)
  BY DEF Refusals
<1>2. ASSUME NEW j \in 1..n PROVE q[(i + 1) + j] = "NACK"
  <2>1. i + j \in 1..Len(p) /\ (i + j) + 1 = (i + 1) + j
    BY <1>1
  <2> QED
    BY <2>1 DEF Refusals
<1>3. ASSUME i = 0, q[1] = "NACK", NEW j \in 1..(n + 1) PROVE q[j] = "NACK"
  <2>1. CASE j = 1
    BY <1>3, <2>1
  <2>2. CASE j # 1
    <3>1. j - 1 \in 1..n /\ (i + 1) + (j - 1) = j
      BY <1>3, <2>2
    <3> QED
      BY <1>2, <3>1
  <2> QED
    BY <2>1, <2>2
<1> QED
  BY <1>1, <1>2, <1>3 DEF Refusals

-----------------------------------------------------------------------------
(* What lasts                                                              *)

LEMMA Lasting ==
  ASSUME [Next]_vars
  PROVE  lost \subseteq lost' /\ (Runs' => Runs)
<1>1. CASE Update
  BY <1>1 DEF Update, StartUpdate, Request, Prepare, Send, GiveUp, Answer, AnswerTimeout,
              LoopEnds, Final, FinalTimeout, tool, nofault, Runs
<1>2. CASE Parse \/ Serial \/ Tick
  BY <1>2 DEF Parse, Serial, SerialWrite, SerialWriteFault, SerialRead, SerialReadFault, Fault,
              Tick, tool, nofault, Runs
<1>3. CASE CliEnd \/ Main
  BY <1>3 DEF CliEnd, Main, ManagerEnds, Close, nofault, Runs
<1>4. CASE Board
  BY <1>4 DEF Board, TakeRequest, TakeOther, EraseDone, ReceivePacket, ReceiveBadLength,
              PageFails, ReceiveTimeout, Check, CopyDone, Fault, tool, nofault, Runs
<1>5. CASE UNCHANGED vars
  BY <1>5 DEF vars, tool, Runs
<1> QED
  BY <1>1, <1>2, <1>3, <1>4, <1>5 DEF Next

LEMMA AppliesBefore ==
  ASSUME Types, NamedOnce, [Next]_vars, Applies'
  PROVE  Applies
<1>1. Unhit /\ Runs /\ Packets > 0
  BY Lasting DEF Applies, Unhit
<1>2. ~Over
  BY LateStays DEF Applies
<1> QED
  BY <1>1, <1>2 DEF Applies

\* The mailbox gets its requests from the line.
LEMMA MailKinds ==
  ASSUME [Next]_vars
  PROVE  mail' = mail \/ ~IsRequest(mail') \/ (out # <<>> /\ mail' = Head(out))
<1>h. \A f : Hears(f) => mail' = mail \/ mail' = f
  BY DEF Hears
<1>1. CASE Update \/ Parse \/ SerialRead \/ SerialReadFault \/ CliEnd \/ Main \/ Tick
  BY <1>1 DEF Update, StartUpdate, Request, Prepare, Send, GiveUp, Answer, AnswerTimeout,
              LoopEnds, Final, FinalTimeout, Parse, SerialRead, SerialReadFault, CliEnd, Main,
              ManagerEnds, Close, Tick, board
<1>2. CASE SerialWrite \/ SerialWriteFault
  BY <1>h, <1>2, KindOfFrames DEF SerialWrite, SerialWriteFault
<1>3. CASE Board
  BY <1>3, BackInLoop, KindOfFrames
  DEF Board, TakeRequest, TakeOther, EraseDone, ReceivePacket, ReceiveFails, ReceiveBadLength,
      PageFails, ReceiveTimeout, Check, CopyDone
<1>4. CASE UNCHANGED vars
  BY <1>4 DEF vars, board
<1> QED
  BY <1>1, <1>2, <1>3, <1>4 DEF Next, Serial

\* A new update begins with a request only.
LEMMA UnaskedStays ==
  ASSUME Types, [Next]_vars, Unasked, ~Request
  PROVE  Unasked'
<1>0. out \in Seq(Frame)
  BY DEF Types, QueueTypes
<1>1. CASE bpc = "hung"
  <2>1. bpc' = "hung"
    BY <1>1, BoardStays
    DEF Board, TakeRequest, TakeOther, EraseDone, ReceivePacket, ReceiveBadLength, PageFails,
        ReceiveTimeout, Check, CopyDone
  <2> QED
    BY <2>1 DEF Unasked
<1>2. CASE bpc # "hung"
  <2>0. /\ bpc \notin {"erase", "receive"} /\ ~IsRequest(mail)
        /\ \A i \in DOMAIN out : ~IsRequest(out[i])
    BY <1>2 DEF Unasked
  <2>1. bpc' \notin {"erase", "receive"}
    BY <2>0, BoardStays, BackInLoop
    DEF Board, TakeRequest, TakeOther, EraseDone, ReceivePacket, ReceiveBadLength, PageFails,
        ReceiveTimeout, Check, CopyDone, IsRequest
  <2>2. ~IsRequest(mail')
    <3>1. out # <<>> => 1 \in DOMAIN out /\ Head(out) = out[1]
      BY <1>0
    <3> QED
      BY <2>0, <3>1, MailKinds
  <2>3. \A i \in DOMAIN out' : ~IsRequest(out'[i])
    <3>1. CASE out' = out
      BY <2>0, <3>1
    <3>2. CASE out # <<>> /\ out' = Tail(out)
      BY <1>0, <2>0, <3>2
    <3>3. CASE Send
      <4>1. PICK f \in Frame : out' = Append(out, f) /\ ~IsRequest(f)
        BY <3>3, Sending, FramesTyped, KindOfFrames
      <4> QED
        BY <1>0, <2>0, <4>1
    <3> QED
      BY <3>1, <3>2, <3>3, OutKinds
  <2> QED
    BY <2>1, <2>2, <2>3 DEF Unasked
<1> QED
  BY <1>1, <1>2

LEMMA SpentStays ==
  ASSUME Types, NamedOnce, [Next]_vars, Spent, ~Over'
  PROVE  Spent'
<1>1. ~Request
  BY Sending, LateStays DEF Spent
<1> QED
  BY <1>1, UnaskedStays, LateStays DEF Spent

LEMMA CountStep == Types /\ CountInv /\ [Next]_vars => CountInv'
<1> SUFFICES ASSUME Types, CountInv, [Next]_vars PROVE CountInv'
  OBVIOUS
<1>0. pos \in Nat
  BY PacketsAssumption DEF Types, ToolTypes, Counters
<1>1. CASE StartUpdate
  BY <1>1 DEF StartUpdate, CountInv
<1>2. CASE Request \/ Send \/ GiveUp \/ AnswerTimeout
  BY <1>2 DEF Request, Send, GiveUp, AnswerTimeout, CountInv, id
<1>3. CASE Prepare
  BY <1>0, <1>3 DEF Prepare, CountInv, id
<1>4. CASE Answer
  <2>1. /\ id' = BoardId /\ pos' = pos /\ at = "answer"
        /\ \/ state' = 1
           \/ state = 2 /\ state' = 2
           \/ state' = state /\ retr' = retr
    BY <1>4 DEF Answer, HasAnswer, id
  <2>2. id = BoardId
    BY <1>4 DEF Answer, HasAnswer
  <2> QED
    BY <2>1, <2>2 DEF CountInv
<1>5. CASE LoopEnds \/ Final \/ FinalTimeout
  BY <1>5 DEF LoopEnds, Final, FinalTimeout, Conclude, CountInv, id
<1>6. CASE Parse \/ Serial \/ CliEnd \/ Main
  BY <1>6 DEF Parse, Serial, SerialWrite, SerialWriteFault, SerialRead, SerialReadFault, CliEnd,
              Main, ManagerEnds, Close, update, CountInv, id
<1>7. CASE Tick
  BY <1>7 DEF Tick, CountInv, id
<1>8. CASE Board
  BY <1>8 DEF Board, TakeRequest, TakeOther, EraseDone, ReceivePacket, ReceiveBadLength,
              PageFails, ReceiveTimeout, Check, CopyDone, update, CountInv, id
<1>9. CASE UNCHANGED vars
  BY <1>9 DEF vars, update, CountInv, id
<1> QED
  BY <1>1, <1>2, <1>3, <1>4, <1>5, <1>6, <1>7, <1>8, <1>9 DEF Next, Update

LEMMA SilenceStep == Types /\ SilenceInv /\ [Next]_vars => SilenceInv'
<1> SUFFICES ASSUME Types, SilenceInv, [Next]_vars PROVE SilenceInv'
  OBVIOUS
<1>1. need' > 0 => ~Unhit'
  <2>0. need \in Nat /\ (need > 0 => ~Unhit') /\ say \in Seq(Answers)
    BY Lasting, BoundAssumption DEF SilenceInv, Unhit, Types, QueueTypes
  <2>1. CASE SerialRead
    BY <2>0, <2>1 DEF SerialRead
  <2>2. CASE SerialReadFault
    <3>1. Head(say) \in Answers /\ Head(say) \in lost'
      BY <2>0, <2>2 DEF SerialReadFault, Fault
    <3> QED
      BY <3>1 DEF Unhit
  <2>3. CASE ~SerialRead /\ ~SerialReadFault
    <3>1. need' = need
      BY <2>3 DEF Next, Update, StartUpdate, Request, Prepare, Send, GiveUp, Answer,
         AnswerTimeout, LoopEnds, Final, FinalTimeout, Parse, Serial, SerialWrite,
         SerialWriteFault, CliEnd, Main, ManagerEnds, Close, Tick, Board, TakeRequest, TakeOther,
         EraseDone, ReceivePacket, ReceiveBadLength, PageFails, ReceiveTimeout, Check, CopyDone,
         vars, serial
    <3> QED
      BY <2>0, <3>1
  <2> QED
    BY <2>1, <2>2, <2>3
<1>2. cli' = "close" \/ closed' => Ids' = {}
  <2>1. list' = list /\ (cli = "close" \/ closed => Ids = {})
    BY ToolMoves DEF SilenceInv
  <2>2. cli' = "close" \/ closed' => cli = "close" \/ closed \/ Ids = {}
    BY DEF Next, Update, StartUpdate, Request, Prepare, Send, GiveUp, Answer,
         AnswerTimeout, LoopEnds, Final, FinalTimeout, Parse, Serial, SerialWrite,
         SerialWriteFault, SerialRead, SerialReadFault, CliEnd, Main, ManagerEnds, Close, Tick,
         Board, TakeRequest, TakeOther, EraseDone, ReceivePacket, ReceiveBadLength, PageFails,
         ReceiveTimeout, Check, CopyDone, vars, tool
  <2> QED
    BY <2>1, <2>2 DEF Ids
<1>3. bpc' \in {"erase", "copy"} => say' = <<>>
  <2>0. bpc \in {"erase", "copy"} => say = <<>>
    BY DEF SilenceInv
  <2>1. CASE Board
    BY <2>1, BackInLoop
    DEF Board, TakeRequest, TakeOther, EraseDone, ReceivePacket, ReceiveFails, ReceiveBadLength,
        PageFails, ReceiveTimeout, Check, CopyDone, Types, BoardTypes, BoardCounters
  <2>2. CASE ~Board
    <3>1. bpc' = bpc
      BY <2>2, BoardStays
    <3>2. bpc # "idle" => \A f : Hears(f) => say' = say
      BY DEF Hears
    <3>3. bpc # "idle" /\ say = <<>> => say' = say
      BY <2>2, <3>2 DEF Next, Update, StartUpdate, Request, Prepare, Send, GiveUp, Answer,
         AnswerTimeout, LoopEnds, Final, FinalTimeout, Parse, Serial, SerialWrite,
         SerialWriteFault, SerialRead, SerialReadFault, CliEnd, Main, ManagerEnds, Close, Tick,
         vars, board
    <3> QED
      BY <2>0, <3>1, <3>3
  <2> QED
    BY <2>1, <2>2
<1>4. bpc' \in {"check", "copy"} /\ Packets > 0 => got' # <<>>
  <2>0. bpc \in {"check", "copy"} /\ Packets > 0 => got # <<>>
    BY DEF SilenceInv
  <2>1. CASE Board /\ ~ReceivePacket
    <3>1. CASE EraseDone
      BY <3>1, PacketsAssumption DEF EraseDone
    <3>2. CASE ~EraseDone
      <4>1. bpc' \in {"check", "copy"} => bpc = "check" /\ got' = got
        BY <2>1, <3>2, BackInLoop
        DEF Board, TakeRequest, TakeOther, ReceiveFails, ReceiveBadLength, PageFails,
            ReceiveTimeout, Check, CopyDone
      <4> QED
        BY <2>0, <4>1
    <3> QED
      BY <3>1, <3>2
  <2>2. CASE ~Board
    BY <2>0, <2>2, BoardStays
  <2>3. CASE ReceivePacket
    <3>1. bpc = "receive" /\ \E n : bpc' # "check" \/ got' = Append(got, n)
      BY <2>3, BackInLoop DEF ReceivePacket, ReceiveFails
    <3>2. bpc' # "copy"
      BY <2>3, BackInLoop DEF ReceivePacket, ReceiveFails
    <3>3. got \in Seq(Nat) /\ \A n : Append(got, n) # <<>>
      BY DEF Types, BoardTypes, Contents
    <3> QED
      BY <3>1, <3>2, <3>3
  <2> QED
    BY <2>1, <2>2, <2>3
<1> QED
  BY <1>1, <1>2, <1>3, <1>4 DEF SilenceInv

-----------------------------------------------------------------------------
(* What a step adds to the answers on their way                            *)

\* m answers x.
Grown(q, p, x, m) ==
  Longer(q, p) /\ Len(p) = Len(q) + m /\ \A j \in (Len(q) + 1)..Len(p) : p[j] = x
Adds(x, m) == Grown(InFlight, InFlight', x, m)

LEMMA Grows ==
  \A q \in Seq(Answers), x \in Answers :
    /\ Grown(q, q, x, 0)
    /\ Grown(q, Append(q, x), x, 1)
    /\ Grown(q, Append(Append(q, x), x), x, 2)
<1> SUFFICES ASSUME NEW q \in Seq(Answers), NEW x \in Answers
             PROVE  /\ Grown(q, q, x, 0)
                    /\ Grown(q, Append(q, x), x, 1)
                    /\ Grown(q, Append(Append(q, x), x), x, 2)
  OBVIOUS
<1> DEFINE p == Append(q, x)
           r == Append(p, x)
<1>0. Len(q) \in Nat
  OBVIOUS
<1>1. /\ p \in Seq(Answers) /\ Len(p) = Len(q) + 1 /\ p[Len(q) + 1] = x
      /\ \A i \in 1..Len(q) : p[i] = q[i]
  BY AppendProperties
<1> HIDE DEF p
<1>2. /\ Len(r) = Len(p) + 1 /\ r[Len(p) + 1] = x
      /\ \A i \in 1..Len(p) : r[i] = p[i]
  BY <1>1, AppendProperties
<1> HIDE DEF r
<1>3. Grown(q, q, x, 0)
  BY <1>0 DEF Grown, Longer
<1>4. Grown(q, p, x, 1)
  BY <1>0, <1>1 DEF Grown, Longer
<1>5. Grown(q, r, x, 2)
  BY <1>0, <1>1, <1>2 DEF Grown, Longer
<1> QED
  BY <1>3, <1>4, <1>5 DEF r, p

LEMMA Added ==
  ASSUME Types, NEW x \in Answers
  PROVE  /\ InFlight' = InFlight => Adds(x, 0)
         /\ rxq' = rxq /\ up' = up =>
              /\ say' = say => InFlight' = InFlight
              /\ say' = Append(say, x) => Adds(x, 1)
              /\ say = <<>> /\ say' = <<x>> => Adds(x, 1)
              /\ say = <<>> /\ say' = <<x, x>> => Adds(x, 2)
<1>0. InFlight \in Seq(Answers)
  BY InFlightTyped
<1>1. /\ InFlight' = InFlight => Adds(x, 0)
      /\ InFlight' = Append(InFlight, x) => Adds(x, 1)
      /\ InFlight' = Append(Append(InFlight, x), x) => Adds(x, 2)
  BY <1>0, Grows, Zenon DEF Adds
<1>2. ASSUME rxq' = rxq, up' = up
      PROVE  /\ say' = say => InFlight' = InFlight
             /\ say' = Append(say, x) => InFlight' = Append(InFlight, x)
             /\ say = <<>> /\ say' = <<x>> => InFlight' = Append(InFlight, x)
             /\ say = <<>> /\ say' = <<x, x>> => InFlight' = Append(Append(InFlight, x), x)
  BY <1>2, SaysMore, Zenon
<1> QED
  BY <1>1, <1>2

\* The board says nothing, or it refuses what its main loop gets, or it refuses a packet and
\* counts it, or it acknowledges and goes on with the update, or it leaves the update.
SaysNothing  == /\ InFlight' = InFlight
                /\ \/ bpc' = bpc /\ bretry' >= bretry
                   \/ bpc' \notin {"receive", "idle"}
                   \/ bpc' = "idle" /\ Spent'
RefusesFrame == /\ bpc = "idle" /\ bpc' = "idle"
                /\ Adds("NACK", 1) \/ Adds("NACK", 2)
RefusesPacket == /\ bpc = "receive" /\ bpc' = "receive"
                 /\ bretry' = bretry + 1 /\ bretry' <= RetryLimit
                 /\ Adds("NACK", 1)
Acknowledges == bpc' # "idle" /\ Adds("ACK", 1)
Concludes    == /\ bpc' = "idle"
                /\ \E x \in {"FATAL_ERROR", "FINISHED"} : Adds(x, 1) \/ Adds(x, 2)

LEMMA FailureKinds ==
  ASSUME Types, rxq' = rxq, up' = up, bpc = "receive", say = <<>>, NEW left,
         ReceiveFails(left)
  PROVE  RefusesPacket \/ Concludes
<1>0. "NACK" \in Answers /\ "FATAL_ERROR" \in Answers
  BY DEF Answers
<1>1. bretry' = bretry + 1
  BY DEF ReceiveFails
<1>2. CASE bretry' > RetryLimit
  <2>1. bpc' = "idle" /\ say' = <<"FATAL_ERROR", "FATAL_ERROR">>
    BY <1>2, BackInLoop DEF ReceiveFails
  <2>2. Adds("FATAL_ERROR", 2)
    BY ONLY Types, rxq' = rxq, up' = up, say = <<>>, <1>0, <2>1, Added
  <2> QED
    BY <2>1, <2>2 DEF Concludes
<1>3. CASE ~(bretry' > RetryLimit)
  <2>1. bpc' = bpc /\ say' = <<"NACK">>
    BY <1>3 DEF ReceiveFails
  <2>2. Adds("NACK", 1)
    BY ONLY Types, rxq' = rxq, up' = up, say = <<>>, <1>0, <2>1, Added
  <2>3. bretry' <= RetryLimit
    BY <1>1, <1>3, LimitsAssumption DEF Types, BoardTypes, BoardCounters
  <2> QED
    BY <1>1, <2>1, <2>2, <2>3 DEF RefusesPacket
<1> QED
  BY <1>2, <1>3

\* A copy that fails is not reported, but the packets of the update have come, so all of the
\* board's requests are behind.
LEMMA CopyFailed ==
  ASSUME Types, FedInv, NamedOnce, SilenceInv, [Next]_vars, Applies, CopyDone
  PROVE  Spent'
<1>0. bpc = "copy" /\ bpc' = "idle" /\ mail' = None /\ out' = out
  BY BackInLoop DEF CopyDone, serial
<1>1. got # <<>>
  BY <1>0 DEF SilenceInv, Applies
<1>2. Late /\ \A j \in DOMAIN out : ~IsRequest(out[j])
  BY <1>0, <1>1 DEF FedInv, Fed, NoneBehind, Applies
<1>3. Late'
  BY <1>2, LateStays
<1> QED
  BY <1>0, <1>2, <1>3, KindOfFrames DEF Spent, Unasked

Kinds == SaysNothing \/ RefusesFrame \/ RefusesPacket \/ Acknowledges \/ Concludes

LEMMA BoardAdds ==
  ASSUME Types, FedInv, NamedOnce, SilenceInv, [Next]_vars, Applies, Board
  PROVE  Kinds
<1>0. rxq' = rxq /\ up' = up
  BY DEF Board, TakeRequest, TakeOther, EraseDone, ReceivePacket, ReceiveBadLength, PageFails,
         ReceiveTimeout, Check, CopyDone, serial
<1>a. {"ACK", "NACK", "FATAL_ERROR", "FINISHED"} \subseteq Answers
  BY DEF Answers
<1>s. /\ say' = say => InFlight' = InFlight
      /\ \A x \in Answers : say = <<>> /\ say' = <<x>> => Adds(x, 1)
      /\ \A x \in Answers : say = <<>> /\ say' = <<x, x>> => Adds(x, 2)
  BY ONLY Types, <1>0, <1>a, Added
<1>1. CASE TakeRequest
  <2>1. bpc' = "erase" /\ say' = say
    BY <1>1 DEF TakeRequest
  <2> QED
    BY <1>s, <2>1 DEF Kinds, SaysNothing
<1>2. CASE TakeOther
  <2>1. /\ bpc = "idle" /\ say = <<>>
        /\ \/ bpc' = "idle" /\ (say' = <<"NACK">> \/ say' = <<"NACK", "NACK">>)
           \/ bpc' = "hung" /\ say' = say
    BY <1>2, BackInLoop DEF TakeOther
  <2>2. CASE bpc' = "hung" /\ say' = say
    BY <1>s, <2>2 DEF Kinds, SaysNothing
  <2>3. CASE bpc' = "idle" /\ (say' = <<"NACK">> \/ say' = <<"NACK", "NACK">>)
    <3>1. Adds("NACK", 1) \/ Adds("NACK", 2)
      BY ONLY <1>a, <1>s, <2>1, <2>3
    <3> QED
      BY <2>1, <2>3, <3>1 DEF Kinds, RefusesFrame
  <2> QED
    BY <2>1, <2>2, <2>3
<1>3. CASE EraseDone
  <2>1. say = <<>> /\ say' = <<"ACK">> /\ bpc' # "idle"
    BY <1>3 DEF EraseDone, SilenceInv
  <2>2. Adds("ACK", 1)
    BY ONLY <1>a, <1>s, <2>1
  <2> QED
    BY <2>1, <2>2 DEF Kinds, Acknowledges
<1>4. CASE ReceivePacket
  <2>1. bpc = "receive" /\ say = <<>>
        /\ ((say' = <<"ACK">> /\ bpc' # "idle") \/ ReceiveFails(Tail(bin)))
    BY <1>4 DEF ReceivePacket
  <2>2. CASE say' = <<"ACK">> /\ bpc' # "idle"
    <3>1. Adds("ACK", 1)
      BY ONLY <1>a, <1>s, <2>1, <2>2
    <3> QED
      BY <2>2, <3>1 DEF Kinds, Acknowledges
  <2>3. CASE ReceiveFails(Tail(bin))
    BY <1>0, <2>1, <2>3, FailureKinds DEF Kinds
  <2> QED
    BY <2>1, <2>2, <2>3
<1>5. CASE ReceiveBadLength
  <2>1. bpc' = "hung" /\ say' = say
    BY <1>5 DEF ReceiveBadLength
  <2> QED
    BY <1>s, <2>1 DEF Kinds, SaysNothing
<1>6. CASE PageFails
  <2>1. /\ say = <<>>
        /\ \/ bpc' = "idle" /\ say' = <<"FATAL_ERROR", "FATAL_ERROR">>
           \/ bpc' = bpc /\ say' = say /\ bretry' = bretry + 1
    BY <1>6, BackInLoop DEF PageFails
  <2>2. CASE bpc' = bpc /\ say' = say /\ bretry' = bretry + 1
    <3>1. bretry' >= bretry
      BY <2>2 DEF Types, BoardTypes, BoardCounters
    <3> QED
      BY <1>s, <2>2, <3>1 DEF Kinds, SaysNothing
  <2>3. CASE bpc' = "idle" /\ say' = <<"FATAL_ERROR", "FATAL_ERROR">>
    <3>1. Adds("FATAL_ERROR", 2)
      BY ONLY <1>a, <1>s, <2>1, <2>3
    <3> QED
      BY <2>3, <3>1 DEF Kinds, Concludes
  <2> QED
    BY <2>1, <2>2, <2>3
<1>7. CASE ReceiveTimeout
  <2>1. bpc = "receive" /\ say = <<>> /\ ReceiveFails(<<>>)
    BY <1>7 DEF ReceiveTimeout
  <2> QED
    BY <1>0, <2>1, FailureKinds DEF Kinds
<1>8. CASE Check
  <2>1. /\ say = <<>>
        /\ \/ bpc' = "copy" /\ say' = say
           \/ bpc' = "idle" /\ say' = <<"FATAL_ERROR">>
    BY <1>8, BackInLoop DEF Check
  <2>2. CASE bpc' = "copy" /\ say' = say
    BY <1>s, <2>2 DEF Kinds, SaysNothing
  <2>3. CASE bpc' = "idle" /\ say' = <<"FATAL_ERROR">>
    <3>1. Adds("FATAL_ERROR", 1)
      BY ONLY <1>a, <1>s, <2>1, <2>3
    <3> QED
      BY <2>3, <3>1 DEF Kinds, Concludes
  <2> QED
    BY <2>1, <2>2, <2>3
<1>9. CASE CopyDone
  <2>1. say = <<>> /\ bpc' = "idle" /\ (say' = <<"FINISHED">> \/ say' = say)
    BY <1>9, BackInLoop DEF CopyDone, SilenceInv
  <2>2. CASE say' = <<"FINISHED">>
    <3>1. Adds("FINISHED", 1)
      BY ONLY <1>a, <1>s, <2>1, <2>2
    <3> QED
      BY <2>1, <3>1 DEF Kinds, Concludes
  <2>3. CASE say' = say
    BY <1>9, <1>s, <2>1, <2>3, CopyFailed DEF Kinds, SaysNothing
  <2> QED
    BY <2>1, <2>2, <2>3
<1> QED
  BY <1>1, <1>2, <1>3, <1>4, <1>5, <1>6, <1>7, <1>8, <1>9 DEF Board

LEMMA LineAdds ==
  ASSUME Types, NamedOnce, SilenceInv, [Next]_vars, Applies', ~Board, ~Answer, ~Final
  PROVE  Kinds
<1>0. Applies /\ Unhit'
  BY AppliesBefore DEF Applies
<1>b. bpc' = bpc /\ bretry' = bretry /\ bretry' >= bretry
  <2>1. bpc' = bpc
    BY BoardStays
  <2>2. bretry' = bretry
    BY DEF Next, Update, StartUpdate, Request, Prepare, Send, GiveUp, AnswerTimeout,
       LoopEnds, FinalTimeout, Parse, Serial, SerialWrite, SerialWriteFault, SerialRead,
       SerialReadFault, CliEnd, Main, ManagerEnds, Close, Tick, vars, board
  <2> QED
    BY <2>1, <2>2 DEF Types, BoardTypes, BoardCounters
<1>n. "NACK" \in Answers
  BY DEF Answers
<1>l. need = 0 /\ ~closed /\ BoardId \in Ids /\ Runs
  <2>1. BoardId \in Ids
    BY <1>0 DEF Applies, Over, Ids
  <2> QED
    BY <1>0, <2>1, BoundAssumption DEF Applies, SilenceInv, Types, QueueTypes
<1>q. SUFFICES (InFlight' = InFlight) \/ (bpc = "idle" /\ Adds("NACK", 1))
  BY <1>b DEF Kinds, SaysNothing, RefusesFrame
<1>1. CASE SerialWrite \/ SerialWriteFault
  <2>0. rxq' = rxq /\ up' = up
    BY <1>1 DEF SerialWrite, SerialWriteFault
  <2>1. \A f : Hears(f) => say' = say \/ (bpc = "idle" /\ say' = Append(say, "NACK"))
    BY DEF Hears
  <2>2. say' = say \/ (bpc = "idle" /\ say' = Append(say, "NACK"))
    BY <1>1, <2>1 DEF SerialWrite, SerialWriteFault
  <2>3. say' = Append(say, "NACK") => Adds("NACK", 1)
    BY ONLY Types, <1>n, <2>0, Added
  <2>4. say' = say => InFlight' = InFlight
    BY ONLY Types, <1>n, <2>0, Added
  <2> QED
    BY <2>2, <2>3, <2>4
<1>2. CASE SerialRead
  <2>1. say # <<>> /\ rxq' = rxq /\ up' = Append(up, Head(say)) /\ say' = Tail(say)
    BY <1>l, <1>2 DEF SerialRead
  <2> QED
    BY ONLY Types, <2>1, PassesOn
<1>3. CASE SerialReadFault
  <2>1. Head(say) \in Answers
    BY <1>3 DEF SerialReadFault, Types, QueueTypes
  <2> QED
    BY <1>0, <1>3, <2>1 DEF SerialReadFault, Fault, Unhit
<1>4. CASE Parse
  <2>1. up # <<>> /\ rxq' = Append(rxq, Head(up)) /\ up' = Tail(up) /\ say' = say
    BY <1>l, <1>4 DEF Parse, board
  <2> QED
    BY ONLY Types, <2>1, PassesOn
<1>5. CASE ~Serial /\ ~Parse
  <2>1. rxq' = rxq /\ up' = up /\ say' = say
    BY <1>5 DEF Next, Update, StartUpdate, Request, Prepare, Send, GiveUp, AnswerTimeout,
       LoopEnds, FinalTimeout, CliEnd, Main, ManagerEnds, Close, Tick, vars, serial, board
  <2> QED
    BY <2>1 DEF InFlight
<1> QED
  BY <1>1, <1>2, <1>3, <1>4, <1>5 DEF Serial

\* Where the tool counts refusals, it goes on counting, or begins with the next packet.
LEMMA CountsOn ==
  ASSUME Types, [Next]_vars, ~Answer, ~Final, Counting'
  PROVE  /\ Counting
         /\ Taken(0)' = Taken(0) \/ Taken(0)' = 0
<1>1. CASE StartUpdate \/ Request
  BY <1>1 DEF StartUpdate, Request, Counting
<1>2. CASE GiveUp \/ AnswerTimeout \/ LoopEnds \/ FinalTimeout
  BY <1>2, Current DEF GiveUp, AnswerTimeout, LoopEnds, FinalTimeout, Conclude, Counting, id, Types
<1>3. CASE Prepare
  BY <1>3 DEF Prepare, Counting, Taken, id
<1>4. CASE Send
  BY <1>4 DEF Send, Counting, Taken, id
<1>5. CASE ~Update
  <2>1. list' = list /\ k' = k /\ at' = at /\ state' = state /\ retr' = retr /\ ended' = ended
    BY <1>5 DEF Next, Parse, Serial, SerialWrite, SerialWriteFault, SerialRead, SerialReadFault,
       CliEnd, Main, ManagerEnds, Close, Tick, Board, TakeRequest, TakeOther, EraseDone,
       ReceivePacket, ReceiveBadLength, PageFails, ReceiveTimeout, Check, CopyDone, vars, update
  <2> QED
    BY <2>1 DEF Counting, Taken, id
<1> QED
  BY <1>1, <1>2, <1>3, <1>4, <1>5 DEF Update

-----------------------------------------------------------------------------
(* The refusals that are counted                                           *)

Counted(i, n)  == Taken(i) + n <= RetryLimit
Reported(i, n) == Taken(i) + n <= bretry

LEMMA TakenTyped ==
  ASSUME Types, NEW i \in Nat
  PROVE  /\ Taken(i) \in Nat
         /\ i # 0 => Taken(i) = 0
BY LimitsAssumption DEF Taken, Types, ToolTypes, Counters

LEMMA TakenNext == (Types => \A i \in Nat : Taken(i) \in Nat)'
<1>1. Types => \A i \in Nat : Taken(i) \in Nat
  BY TakenTyped
<1> QED
  BY <1>1, PTL

LEMMA SinceBefore ==
  ASSUME Types, [Next]_vars, ~Answer, ~Final, Longer(InFlight, InFlight'),
         NEW i \in 0..Len(InFlight), Since(i)'
  PROVE  Since(i) /\ Taken(i)' <= Taken(i)
<1>1. CASE i = 0
  <2>1. Counting'
    BY <1>1 DEF Since
  <2>2. Counting /\ (Taken(i)' = Taken(i) \/ Taken(i)' = 0)
    BY <1>1, <2>1, CountsOn
  <2> QED
    BY <1>1, <2>2, TakenTyped DEF Since
<1>2. CASE i # 0
  <2>1. InFlight[i] = InFlight'[i] /\ InFlight'[i] = "ACK"
    BY <1>2 DEF Since, Longer
  <2>2. Taken(i) = 0 /\ Taken(i)' = 0
    BY <1>2 DEF Taken
  <2> QED
    BY <1>2, <2>1, <2>2 DEF Since
<1> QED
  BY <1>1, <1>2

LEMMA InFlightNext == (Types => InFlight \in Seq(Answers) /\ Len(InFlight) \in Nat)'
<1>1. Types => InFlight \in Seq(Answers) /\ Len(InFlight) \in Nat
  BY InFlightTyped
<1> QED
  BY <1>1, PTL

\* The same for each of the kinds: q is what was on its way, p what is.
LEMMA KindsGrow ==
  ASSUME Types, Types', Kinds
  PROVE  /\ Longer(InFlight, InFlight')
         /\ SaysNothing => Len(InFlight') = Len(InFlight)
         /\ RefusesPacket => Len(InFlight') = Len(InFlight) + 1
         /\ \A j \in (Len(InFlight) + 1)..Len(InFlight') :
              /\ RefusesFrame \/ RefusesPacket => InFlight'[j] = "NACK"
              /\ Acknowledges => j = Len(InFlight') /\ InFlight'[j] = "ACK"
              /\ Concludes => InFlight'[j] \notin {"ACK", "NACK"}
<1>0. InFlight \in Seq(Answers) /\ Len(InFlight) \in Nat
  BY InFlightTyped
<1> DEFINE q == InFlight
           p == InFlight'
<1>1. SaysNothing => Longer(q, p) /\ Len(p) = Len(q)
  BY <1>0 DEF SaysNothing, Longer
<1>2. RefusesFrame => Grown(q, p, "NACK", 1) \/ Grown(q, p, "NACK", 2)
  BY DEF RefusesFrame, Adds
<1>3. RefusesPacket => Grown(q, p, "NACK", 1)
  BY DEF RefusesPacket, Adds
<1>4. Acknowledges => Grown(q, p, "ACK", 1)
  BY DEF Acknowledges, Adds
<1>5. Concludes => \E x \in {"FATAL_ERROR", "FINISHED"} : Grown(q, p, x, 1) \/ Grown(q, p, x, 2)
  BY DEF Concludes, Adds
<1>q. q \in Seq(Answers) /\ Len(q) \in Nat
  BY <1>0
<1> HIDE DEF q, p
<1>6. Longer(q, p)
  BY <1>1, <1>2, <1>3, <1>4, <1>5 DEF Kinds, Grown
<1>7. RefusesPacket => Len(p) = Len(q) + 1
  BY <1>3 DEF Grown
<1>8. ASSUME NEW j \in (Len(q) + 1)..Len(p)
      PROVE  /\ RefusesFrame \/ RefusesPacket => p[j] = "NACK"
             /\ Acknowledges => j = Len(p) /\ p[j] = "ACK"
             /\ Concludes => p[j] \notin {"ACK", "NACK"}
  <2>1. RefusesFrame \/ RefusesPacket => p[j] = "NACK"
    BY <1>2, <1>3 DEF Grown
  <2>2. Acknowledges => j = Len(p) /\ p[j] = "ACK"
    BY <1>q, <1>4 DEF Grown
  <2>3. Concludes => p[j] \notin {"ACK", "NACK"}
    BY <1>5 DEF Grown
  <2> QED
    BY <2>1, <2>2, <2>3
<1> QED
  BY <1>1, <1>6, <1>7, <1>8 DEF q, p

LEMMA RunStep ==
  ASSUME Types, Types', FedInv, NamedOnce, SilenceInv, RunInv, LastInv, [Next]_vars, Applies',
         ~Answer, ~Final,
         NEW i \in 0..Len(InFlight'), NEW n \in Nat, Since(i)', Refusals(InFlight', i, n)
  PROVE  Counted(i, n)' \/ Spent'
<1>1. Applies
  BY AppliesBefore
<1>2. Kinds
  BY <1>1, BoardAdds, LineAdds
<1>3. InFlight \in Seq(Answers) /\ InFlight' \in Seq(Answers)
      /\ Len(InFlight) \in Nat /\ Len(InFlight') \in Nat
  BY InFlightTyped, InFlightNext
<1> DEFINE q == InFlight
           p == InFlight'
<1>4. Longer(q, p)
  BY <1>2, KindsGrow
<1>5. /\ i + n <= Len(q) => i \in 0..Len(q) /\ Refusals(q, i, n)
      /\ i <= Len(q) /\ i + n > Len(q) =>
           /\ i \in 0..Len(q) /\ Refusals(q, i, Len(q) - i)
           /\ Len(p) > Len(q) /\ p[Len(q) + 1] = "NACK"
  BY <1>3, <1>4, RefusalsGrow
<1>6. i \in Nat /\ i + n <= Len(p)
  BY <1>3 DEF Refusals
<1>7. Spent => Spent'
  BY SpentStays DEF Applies
<1>8. CASE i > Len(q)
  <2>1. i \in (Len(q) + 1)..Len(p) /\ i # 0 /\ p[i] = "ACK"
    BY <1>3, <1>8 DEF Since
  <2>2. i = Len(p)
    BY <1>2, <1>3, <2>1, KindsGrow DEF Kinds
  <2>3. n = 0
    BY <1>3, <1>6, <2>2
  <2> QED
    BY <2>1, <2>3, LimitsAssumption DEF Counted, Taken
<1>9. CASE i + n <= Len(q)
  <2>1. i \in 0..Len(q) /\ Refusals(q, i, n)
    BY <1>5, <1>9
  <2>2. Since(i) /\ Taken(i)' <= Taken(i)
    BY <1>4, <2>1, SinceBefore
  <2>3. Taken(i) + n <= RetryLimit \/ Spent
    BY <1>1, <2>1, <2>2 DEF RunInv
  <2>4. Taken(i) \in Nat /\ Taken(i)' \in Nat
    BY <1>6, TakenTyped, TakenNext
  <2>5. Taken(i) + n <= RetryLimit => Taken(i)' + n <= RetryLimit
    BY <2>2, <2>4, LimitsAssumption
  <2> QED
    BY <1>7, <2>3, <2>5 DEF Counted
<1>10. CASE i <= Len(q) /\ i + n > Len(q)
  <2>1. /\ i \in 0..Len(q) /\ Refusals(q, i, Len(q) - i)
        /\ Len(p) > Len(q) /\ p[Len(q) + 1] = "NACK"
    BY <1>5, <1>10
  <2>2. Since(i) /\ Taken(i)' <= Taken(i)
    BY <1>4, <2>1, SinceBefore
  <2>3. /\ bpc = "receive" => Taken(i) + (Len(q) - i) <= bretry
        /\ bpc = "idle" => Spent
    BY <1>1, <2>1, <2>2 DEF LastInv
  <2>4. Taken(i) \in Nat /\ Taken(i)' \in Nat /\ bretry \in Nat
    BY <1>6, TakenTyped, TakenNext, LimitsAssumption DEF Types, BoardTypes, BoardCounters
  <2>5. RefusesFrame \/ RefusesPacket
    <3>1. Len(q) + 1 \in (Len(q) + 1)..Len(p)
      BY <1>3, <2>1
    <3> QED
      BY <1>2, <1>3, <2>1, <3>1, KindsGrow DEF Kinds
  <2>6. CASE RefusesFrame
    BY <1>7, <2>3, <2>6 DEF RefusesFrame
  <2>7. CASE RefusesPacket
    <3>1. bpc = "receive" /\ bretry + 1 <= RetryLimit
      BY <2>7 DEF RefusesPacket
    <3>2. Len(p) = Len(q) + 1
      BY <1>2, <2>7, KindsGrow
    <3>3. Taken(i) + (Len(q) - i) <= bretry
      BY <2>3, <3>1
    <3>4. Taken(i)' + n <= RetryLimit
      BY <1>3, <1>6, <2>2, <2>4, <3>1, <3>2, <3>3, LimitsAssumption
    <3> QED
      BY <3>4 DEF Counted
  <2> QED
    BY <2>5, <2>6, <2>7
<1> QED
  BY <1>3, <1>6, <1>8, <1>9, <1>10

LEMMA LastStep ==
  ASSUME Types, Types', FedInv, NamedOnce, SilenceInv, LastInv, [Next]_vars, Applies',
         ~Answer, ~Final,
         NEW i \in 0..Len(InFlight'), Since(i)', Refusals(InFlight', i, Len(InFlight') - i)
  PROVE  /\ bpc' = "receive" => Reported(i, Len(InFlight) - i)'
         /\ bpc' = "idle" => Spent'
<1>1. Applies
  BY AppliesBefore
<1>2. Kinds
  BY <1>1, BoardAdds, LineAdds
<1>3. InFlight \in Seq(Answers) /\ InFlight' \in Seq(Answers)
      /\ Len(InFlight) \in Nat /\ Len(InFlight') \in Nat
  BY InFlightTyped, InFlightNext
<1> DEFINE q == InFlight
           p == InFlight'
           n == Len(p) - i
<1>4. Longer(q, p) /\ Len(q) <= Len(p)
  BY <1>2, KindsGrow DEF Longer
<1>6. i \in Nat /\ i <= Len(p) /\ n \in Nat /\ i + n = Len(p)
  BY <1>3
<1>5. /\ i + n <= Len(q) => i \in 0..Len(q) /\ Refusals(q, i, n)
      /\ i <= Len(q) /\ i + n > Len(q) =>
           /\ i \in 0..Len(q) /\ Refusals(q, i, Len(q) - i)
           /\ Len(p) > Len(q) /\ p[Len(q) + 1] = "NACK"
  BY <1>3, <1>4, <1>6, RefusalsGrow
<1>7. Spent => Spent'
  BY SpentStays DEF Applies
<1>b. bretry \in Nat /\ bretry' \in Nat
  BY LimitsAssumption DEF Types, BoardTypes, BoardCounters
<1>8. CASE i > Len(q)
  <2>1. i \in (Len(q) + 1)..Len(p) /\ i # 0 /\ p[i] = "ACK"
    BY <1>3, <1>8 DEF Since
  <2>2. i = Len(p) /\ Acknowledges
    BY <1>2, <1>3, <2>1, KindsGrow DEF Kinds
  <2>3. Taken(i)' = 0
    BY <2>1 DEF Taken
  <2> QED
    BY <1>3, <1>b, <2>2, <2>3 DEF Reported, Acknowledges
<1>9. CASE Len(p) = Len(q)
  <2>1. i \in 0..Len(q) /\ Refusals(q, i, Len(q) - i)
    BY <1>5, <1>6, <1>9
  <2>2. Since(i) /\ Taken(i)' <= Taken(i)
    BY <1>4, <2>1, SinceBefore
  <2>3. /\ bpc = "receive" => Taken(i) + (Len(q) - i) <= bretry
        /\ bpc = "idle" => Spent
    BY <1>1, <2>1, <2>2 DEF LastInv
  <2>4. Taken(i) \in Nat /\ Taken(i)' \in Nat
    BY <1>6, TakenTyped, TakenNext
  <2>5. SaysNothing
    <3>1. ~RefusesFrame
      BY <1>3, <1>9 DEF RefusesFrame, Adds, Grown
    <3>2. ~RefusesPacket
      BY <1>3, <1>9 DEF RefusesPacket, Adds, Grown
    <3>3. ~Acknowledges
      BY <1>3, <1>9 DEF Acknowledges, Adds, Grown
    <3>4. ~Concludes
      BY <1>3, <1>9 DEF Concludes, Adds, Grown
    <3> QED
      BY <1>2, <3>1, <3>2, <3>3, <3>4 DEF Kinds
  <2>6. CASE bpc' = bpc /\ bretry' >= bretry
    <3>1. bpc' = "receive" => Taken(i)' + (Len(p) - i) <= bretry'
      BY <1>3, <1>6, <1>9, <1>b, <2>2, <2>3, <2>4, <2>6
    <3> QED
      BY <1>7, <2>3, <2>6, <3>1 DEF Reported
  <2>7. CASE bpc' \notin {"receive", "idle"} \/ (bpc' = "idle" /\ Spent')
    BY <2>7
  <2> QED
    BY <2>5, <2>6, <2>7 DEF SaysNothing
<1>10. CASE i <= Len(q) /\ Len(p) > Len(q)
  <2>1. /\ i \in 0..Len(q) /\ Refusals(q, i, Len(q) - i)
        /\ p[Len(q) + 1] = "NACK"
    BY <1>5, <1>6, <1>10
  <2>2. Since(i) /\ Taken(i)' <= Taken(i)
    BY <1>4, <2>1, SinceBefore
  <2>3. /\ bpc = "receive" => Taken(i) + (Len(q) - i) <= bretry
        /\ bpc = "idle" => Spent
    BY <1>1, <2>1, <2>2 DEF LastInv
  <2>4. Taken(i) \in Nat /\ Taken(i)' \in Nat
    BY <1>6, TakenTyped, TakenNext
  <2>5. RefusesFrame \/ RefusesPacket
    <3>1. Len(q) + 1 \in (Len(q) + 1)..Len(p)
      BY <1>3, <1>10
    <3>2. ~SaysNothing
      BY <1>2, <1>3, <1>10, KindsGrow
    <3> QED
      BY <1>2, <2>1, <3>1, <3>2, KindsGrow DEF Kinds
  <2>6. CASE RefusesFrame
    BY <1>7, <2>3, <2>6 DEF RefusesFrame
  <2>7. CASE RefusesPacket
    <3>1. bpc = "receive" /\ bpc' = "receive" /\ bretry' = bretry + 1
      BY <2>7 DEF RefusesPacket
    <3>2. Len(p) = Len(q) + 1
      BY <1>2, <2>7, KindsGrow
    <3>3. Taken(i) + (Len(q) - i) <= bretry
      BY <2>3, <3>1
    <3>4. Taken(i)' + (Len(p) - i) <= bretry'
      BY <1>3, <1>6, <1>b, <2>2, <2>4, <3>1, <3>2, <3>3
    <3> QED
      BY <3>1, <3>4 DEF Reported
  <2> QED
    BY <2>5, <2>6, <2>7
<1> QED
  BY <1>3, <1>4, <1>6, <1>8, <1>9, <1>10

\* An answer that is taken is the oldest one.
LEMMA AnswerTaken ==
  ASSUME Types, Answer \/ Final
  PROVE  /\ UNCHANGED <<list, bpc, bretry>>
         /\ Len(InFlight) > 0 /\ Len(InFlight') = Len(InFlight) - 1
         /\ \A i \in 1..Len(InFlight') : InFlight'[i] = InFlight[i + 1]
         /\ InFlight[1] = Head(rxq)
<1>1. UNCHANGED <<list, bpc, bretry>> /\ rxq # <<>> /\ rxq' = Tail(rxq) /\ up' = up /\ say' = say
  BY DEF Answer, Final, HasAnswer, board
<1>2. InFlight' = Tail(rxq) \o (up \o say)
  BY <1>1 DEF InFlight
<1> QED
  BY <1>1, <1>2, InFlightTyped, Taking DEF InFlight
\* What the tool counts of it.
LEMMA AnswerCounts ==
  ASSUME Types, Types', Answer \/ Final,
         NEW i \in 0..Len(InFlight'), NEW n \in Nat, Since(i)', Refusals(InFlight', i, n)
  PROVE  \/ /\ i + 1 \in 0..Len(InFlight) /\ Since(i + 1) /\ Refusals(InFlight, i + 1, n)
            /\ Taken(i)' = 0 /\ Taken(i + 1) = 0
         \/ /\ i = 0 /\ Since(0) /\ Refusals(InFlight, 0, n + 1)
            /\ Taken(0)' = Taken(0) + 1
<1>0. InFlight \in Seq(Answers) /\ InFlight' \in Seq(Answers)
      /\ Len(InFlight) \in Nat /\ Len(InFlight') \in Nat /\ i \in Nat
  BY InFlightTyped, InFlightNext
<1>1. /\ Refusals(InFlight, i + 1, n)
      /\ i = 0 /\ InFlight[1] = "NACK" => Refusals(InFlight, 0, n + 1)
  BY <1>0, AnswerTaken, RefusalsTaken
<1>2. i + 1 \in 0..Len(InFlight) /\ i + 1 # 0 /\ Taken(i + 1) = 0
  BY <1>0, AnswerTaken DEF Taken
<1>3. CASE i # 0
  <2>1. InFlight'[i] = "ACK" /\ InFlight'[i] = InFlight[i + 1]
    BY <1>0, <1>3, AnswerTaken DEF Since
  <2>2. Since(i + 1) /\ Taken(i)' = 0
    BY <1>2, <1>3, <2>1 DEF Since, Taken
  <2> QED
    BY <1>1, <1>2, <2>2
<1>4. CASE i = 0
  <2>1. Counting' /\ Answer
    <3>1. Counting'
      BY <1>4 DEF Since
    <3>2. Final => at' \in {"start", "done"}
      BY DEF Final, Conclude
    <3> QED
      BY <3>1, <3>2 DEF Counting
  <2>2. /\ at = "answer" /\ at' = "loop" /\ k' = k /\ list' = list /\ id = BoardId /\ id' = id
    BY <2>1 DEF Answer, HasAnswer, id
  <2>3. CASE Head(rxq) = "ACK"
    <3>1. state' = 1 /\ InFlight[1] = "ACK"
      BY <2>1, <2>3, AnswerTaken DEF Answer
    <3>2. Since(i + 1) /\ Taken(i)' = 0
      BY <1>4, <3>1 DEF Since, Taken
    <3> QED
      BY <1>1, <1>2, <3>2
  <2>4. CASE Head(rxq) = "NACK" /\ state = 2
    <3>1. state' = 2 /\ retr' = retr + 1 /\ InFlight[1] = "NACK"
      BY <2>1, <2>4, AnswerTaken DEF Answer
    <3>2. Since(0)
      BY <2>1, <2>2, <2>4 DEF Since, Counting
    <3>3. Taken(0)' = Taken(0) + 1
      BY <2>4, <3>1 DEF Taken
    <3> QED
      BY <1>1, <1>4, <3>1, <3>2, <3>3
  <2>5. CASE Head(rxq) # "ACK" /\ ~(Head(rxq) = "NACK" /\ state = 2)
    <3>1. ended' = ended \cup {id}
      BY <2>1, <2>5 DEF Answer
    <3> QED
      BY <2>1, <2>2, <3>1 DEF Counting
  <2> QED
    BY <2>3, <2>4, <2>5
<1> QED
  BY <1>3, <1>4

LEMMA AnswerStep ==
  ASSUME Types, Types', NamedOnce, RunInv, LastInv, [Next]_vars, Applies', Answer \/ Final,
         NEW i \in 0..Len(InFlight'), NEW n \in Nat, Since(i)', Refusals(InFlight', i, n)
  PROVE  /\ Counted(i, n)' \/ Spent'
         /\ n = Len(InFlight') - i =>
              /\ bpc' = "receive" => Reported(i, n)'
              /\ bpc' = "idle" => Spent'
<1>0. InFlight \in Seq(Answers) /\ InFlight' \in Seq(Answers)
      /\ Len(InFlight) \in Nat /\ Len(InFlight') \in Nat /\ i \in Nat
  BY InFlightTyped, InFlightNext
<1>1. Applies
  BY AppliesBefore
<1>2. Spent => Spent'
  BY SpentStays DEF Applies
<1>3. bpc' = bpc /\ bretry' = bretry /\ Len(InFlight') = Len(InFlight) - 1
  BY AnswerTaken
<1>4. Taken(0) \in Nat /\ bretry \in Nat
  BY TakenTyped, LimitsAssumption DEF Types, BoardTypes, BoardCounters
<1>5. CASE /\ i + 1 \in 0..Len(InFlight) /\ Since(i + 1) /\ Refusals(InFlight, i + 1, n)
           /\ Taken(i)' = 0 /\ Taken(i + 1) = 0
  <2>1. Taken(i + 1) + n <= RetryLimit \/ Spent
    BY <1>1, <1>5 DEF RunInv
  <2>2. n = Len(InFlight') - i =>
          /\ bpc = "receive" => Taken(i + 1) + n <= bretry
          /\ bpc = "idle" => Spent
    <3>1. n = Len(InFlight') - i => n = Len(InFlight) - (i + 1)
      BY <1>0, <1>3
    <3> QED
      BY <1>1, <1>5, <3>1 DEF LastInv
  <2> QED
    BY <1>2, <1>3, <1>5, <2>1, <2>2 DEF Counted, Reported
<1>6. CASE /\ i = 0 /\ Since(0) /\ Refusals(InFlight, 0, n + 1)
           /\ Taken(0)' = Taken(0) + 1
  <2>0. 0 \in 0..Len(InFlight) /\ n + 1 \in Nat
    BY <1>0
  <2>1. Taken(0) + (n + 1) <= RetryLimit \/ Spent
    BY <1>1, <1>6, <2>0 DEF RunInv
  <2>2. n = Len(InFlight') - i =>
          /\ bpc = "receive" => Taken(0) + (n + 1) <= bretry
          /\ bpc = "idle" => Spent
    <3>1. n = Len(InFlight') - i => n + 1 = Len(InFlight) - 0
      BY <1>0, <1>3, <1>6
    <3> QED
      BY <1>1, <1>6, <2>0, <3>1 DEF LastInv
  <2>3. Taken(0)' + n = Taken(0) + (n + 1)
    BY <1>4, <1>6
  <2> QED
    BY <1>2, <1>3, <1>6, <2>1, <2>2, <2>3 DEF Counted, Reported
<1> QED
  BY <1>5, <1>6, AnswerCounts

LEMMA RunLastStep ==
  ASSUME Types, Types', FedInv, NamedOnce, SilenceInv, RunInv, LastInv, [Next]_vars
  PROVE  RunInv' /\ LastInv'
<1>1. ASSUME Applies', NEW i \in 0..Len(InFlight'), NEW n \in Nat, Since(i)',
             Refusals(InFlight', i, n)
      PROVE  Counted(i, n)' \/ Spent'
  BY <1>1, RunStep, AnswerStep
<1>2. ASSUME Applies', NEW i \in 0..Len(InFlight'), Since(i)',
             Refusals(InFlight', i, Len(InFlight') - i)
      PROVE  /\ bpc' = "receive" => Reported(i, Len(InFlight) - i)'
             /\ bpc' = "idle" => Spent'
  <2>1. Len(InFlight') - i \in Nat
    BY InFlightNext
  <2> QED
    BY <1>2, <2>1, LastStep, AnswerStep DEF Reported
<1>3. RunInv'
  BY <1>1 DEF RunInv, Counted
<1>4. LastInv'
  BY <1>2 DEF LastInv, Reported
<1> QED
  BY <1>3, <1>4

\* When the tool has counted more refusals than the board forgives, the board is through with
\* the update.
LEMMA LimitStep ==
  ASSUME Types, Types', NamedOnce, CountInv, RunInv, LimitInv, [Next]_vars
  PROVE  LimitInv'
<1> SUFFICES ASSUME Unhit', retr' > RetryLimit PROVE Unasked'
  BY DEF LimitInv
<1>0. Unhit /\ retr \in Nat /\ retr' \in Nat /\ RetryLimit \in Nat
  BY Lasting, LimitsAssumption DEF Unhit, Types, ToolTypes, Counters
<1>1. CASE retr' = retr
  <2>1. Unasked
    BY <1>0, <1>1 DEF LimitInv
  <2>2. ~Request
    BY <1>0, <1>1 DEF Request, CountInv
  <2> QED
    BY <2>1, <2>2, UnaskedStays
<1>2. CASE retr' = 0
  BY <1>0, <1>2
<1>3. CASE retr' # retr /\ retr' # 0
  <2>1. Answer /\ Head(rxq) = "NACK" /\ state = 2 /\ retr' = retr + 1
    <3>1. Answer
      BY <1>3 DEF Next, Update, StartUpdate, Request, Prepare, Send, GiveUp, AnswerTimeout,
         LoopEnds, Final, FinalTimeout, Parse, Serial, SerialWrite, SerialWriteFault, SerialRead,
         SerialReadFault, CliEnd, Main, ManagerEnds, Close, Tick, Board, TakeRequest, TakeOther,
         EraseDone, ReceivePacket, ReceiveBadLength, PageFails, ReceiveTimeout, Check, CopyDone,
         vars, update
    <3> QED
      BY <1>3, <3>1 DEF Answer
  <2>2. at = "answer" /\ id = BoardId /\ Runs /\ k \in DOMAIN list /\ k \in Nat
    BY <2>1, Current DEF Answer, HasAnswer, Types, ToolTypes, Counters
  <2>3. Applies
    <3>1. ~Over
      BY <2>2 DEF Over, id
    <3>2. pos > 0 /\ pos \in 0..Packets
      BY <2>1 DEF CountInv, Types, ToolTypes, Counters
    <3> QED
      BY <1>0, <2>2, <3>1, <3>2, PacketsAssumption DEF Applies
  <2>4. InFlight \in Seq(Answers) /\ Len(InFlight) > 0 /\ InFlight[1] = "NACK"
    BY <2>1, AnswerTaken, InFlightTyped
  <2>5. 0 \in 0..Len(InFlight) /\ Since(0) /\ Refusals(InFlight, 0, 1) /\ Taken(0) = retr
    BY <2>1, <2>2, <2>4 DEF Since, Counting, Refusals, Taken
  <2>6. Taken(0) + 1 <= RetryLimit \/ Spent
    BY <2>3, <2>5 DEF RunInv
  <2>7. Unasked
    BY <1>0, <2>1, <2>5, <2>6 DEF Spent
  <2>8. ~Request
    BY <2>2 DEF Request
  <2> QED
    BY <2>7, <2>8, UnaskedStays
<1> QED
  BY <1>1, <1>2, <1>3

LEMMA InitRetry == Init => RetryInv
<1> SUFFICES ASSUME Init PROVE RetryInv
  OBVIOUS
<1>1. CountInv /\ SilenceInv /\ LimitInv
  BY LimitsAssumption DEF Init, CountInv, SilenceInv, LimitInv
<1>2. InFlight = <<>>
  BY DEF Init, InFlight
<1>3. ASSUME NEW i \in 0..Len(InFlight) PROVE ~Since(i)
  <2>1. i = 0
    BY <1>2
  <2> QED
    BY <2>1 DEF Since, Counting, Init
<1> QED
  BY <1>1, <1>3 DEF RetryInv, RunInv, LastInv

\* The retry counters fit: when the tool has sent a packet as often as _max_retransfers says,
\* the board, which forgives fewer failures in an update, has left its packet loop, so the tool
\* never gives up while the board is still waiting for that packet (Python/main.py:76-93,
\* fvc.c:395-410).  This holds for lists that name the board once and unless an answer was
\* hit; requests and packets may be.
THEOREM BoardGivesUp ==
  ASSUME NamedOnce, RetryLimit < MaxRetransfers
  PROVE  Spec => []BoardGivesUpFirst
<1>1. IInv /\ RetryInv /\ [Next]_vars /\ IInv' => RetryInv'
  <2> SUFFICES ASSUME IInv, RetryInv, [Next]_vars, IInv' PROVE RetryInv'
    OBVIOUS
  <2>1. Types /\ Types' /\ FedInv
    BY Parts, PartsNext DEF IInv
  <2>2. CountInv' /\ SilenceInv'
    BY <2>1, CountStep, SilenceStep DEF RetryInv
  <2>3. RunInv' /\ LastInv'
    BY <2>1, RunLastStep DEF RetryInv
  <2>4. LimitInv'
    BY <2>1, LimitStep DEF RetryInv
  <2> QED
    BY <2>2, <2>3, <2>4 DEF RetryInv
<1>2. IInv /\ RetryInv => BoardGivesUpFirst
  BY LimitsAssumption DEF RetryInv, LimitInv, Unhit, Unasked, BoardGivesUpFirst
<1>3. Spec => []IInv
  BY Invariant
<1> QED
  BY InitRetry, <1>1, <1>2, <1>3, PTL DEF Spec

-----------------------------------------------------------------------------
(* Repair: the update that begins the list, as long as only packets are    *)
(* hit, and no more of them than the board forgives.                       *)

Hits     == MaxFaults - faults
UnderWay == Repairable /\ Runs /\ k = 1

\* Nobody has begun.
AtRest == out = <<>> /\ InFlight = <<>> /\ bpc = "idle" /\ mail = None /\ ~deaf

\* The board has the first n packets and waits for the next one, or is at what follows the
\* last one.  The answers q are on their way, and at the end the last one behind them.
Reached(n, q) ==
  /\ out = <<>> /\ got = [j \in 1..n |-> j] /\ bretry <= Hits
  /\ \/ n < Packets /\ bpc = "receive" /\ bin = <<>> /\ bt = BoardTimeout /\ InFlight = q
     \/ n = Packets /\ bpc \in {"check", "copy"} /\ InFlight = q
     \/ n = Packets /\ bpc = "idle" /\ mail = None /\ InFlight = Append(q, "FINISHED")

\* The request is on the line, in the mailbox, or executed.
Asked ==
  /\ state = 0 /\ pos = 0 /\ InFlight = <<>>
  /\ \/ out = <<UpdateRequest(id)>> /\ bpc = "idle" /\ mail = None /\ ~deaf
     \/ out = <<>> /\ bpc = "idle" /\ mail = UpdateRequest(id)
     \/ out = <<>> /\ bpc = "erase" /\ bin = <<>>

\* Packet pos is on the line, has arrived, was garbled or lost, or its refusal is on its way.
\* Each refusal takes a hit.
Arrives ==
  /\ out = <<>> /\ bin = <<ProgramData(id, pos)>> /\ InFlight = <<>>
  /\ retr <= bretry /\ bretry <= Hits
Coming ==
  /\ out = <<ProgramData(id, pos)>> /\ bin = <<>> /\ InFlight = <<>>
  /\ ht = HostTimeout /\ bt = BoardTimeout /\ retr <= bretry /\ bretry <= Hits
Missing ==
  /\ out = <<>> /\ InFlight = <<>>
  /\ bin = <<Garbage>> \/ (bin = <<>> /\ bt < ht)
  /\ retr <= bretry /\ bretry + 1 <= Hits
Refused ==
  /\ out = <<>> /\ bin = <<>> /\ InFlight = <<"NACK">>
  /\ bt = BoardTimeout /\ retr + 1 <= bretry /\ bretry <= Hits
Sent ==
  /\ state = 2 /\ pos > 0 /\ got = [j \in 1..(pos - 1) |-> j] /\ bpc = "receive"
  /\ Coming \/ Arrives \/ Missing \/ Refused

\* The tool before the end of its loop, and behind it.
InLoop ==
  /\ id \notin ended /\ ~sent
  /\ \/ at = "start" /\ AtRest
     \/ at = "loop" /\ state = 0 /\ pos = 0 /\ AtRest
     \/ at = "loop" /\ state = 1 /\ Reached(pos, <<>>)
     \/ at = "loop" /\ state = 2 /\ pos > 0 /\ Reached(pos - 1, <<>>) /\ retr <= bretry
     \/ at = "answer" /\ (Asked \/ Sent \/ Reached(pos, <<"ACK">>))
AtItsEnd ==
  \/ at = "loop" /\ id \in ended /\ sent /\ Reached(Packets, <<>>)
  \/ at = "loop" /\ id \in ended /\ ~sent /\ ht = 0
  \/ at = "final" /\ Reached(Packets, <<>>)

RepairInv == UnderWay => InLoop \/ AtItsEnd

\* What is left of the bound on faults.
Bounded == faults \in 0..MaxFaults

-----------------------------------------------------------------------------
(* What the cases of RepairInv have in common                              *)

LEMMA NoneInFlight ==
  ASSUME Types
  PROVE  InFlight = <<>> <=> rxq = <<>> /\ up = <<>> /\ say = <<>>
<1>1. /\ rxq \in Seq(Answers) /\ up \in Seq(Answers) /\ say \in Seq(Answers)
      /\ up \o say \in Seq(Answers) /\ InFlight \in Seq(Answers)
  BY InFlightTyped
<1>2. Len(up \o say) = Len(up) + Len(say)
  BY <1>1, ConcatProperties
<1>3. Len(InFlight) = Len(rxq) + Len(up \o say)
  BY <1>1, ConcatProperties DEF InFlight
<1>4. \A q \in Seq(Answers) : Len(q) \in Nat /\ (q = <<>> <=> Len(q) = 0)
  BY EmptySeq
<1> QED
  BY ONLY <1>1, <1>2, <1>3, <1>4

LEMMA Faults ==
  ASSUME Bounded, [Next]_vars
  PROVE  Bounded' /\ faults' <= faults
<1>1. faults' = faults \/ (faults > 0 /\ faults' = faults - 1)
  BY DEF Next, Update, StartUpdate, Request, Prepare, Send, GiveUp, Answer, AnswerTimeout,
     LoopEnds, Final, FinalTimeout, Parse, Serial, SerialWrite, SerialWriteFault, SerialRead,
     SerialReadFault, CliEnd, Main, ManagerEnds, Close, Tick, Board, TakeRequest, TakeOther,
     EraseDone, ReceivePacket, ReceiveBadLength, PageFails, ReceiveTimeout, Check, CopyDone,
     Fault, nofault, vars
<1> QED
  BY <1>1, BoundAssumption DEF Bounded

\* An update that is under way was so before, and the board on the line is the one updated.
Ground == Types /\ SilenceInv /\ Bounded

LEMMA UnderWayBefore ==
  ASSUME Ground, [Next]_vars, UnderWay'
  PROVE  UnderWay
<1>1. list' = list /\ (k' = k \/ k' = k + 1)
  BY ToolMoves
<1>2. k = 1
  BY <1>1, ListsAssumption DEF UnderWay, Ground, Types, ToolTypes, Counters
<1>3. lost \subseteq {"PROGRAM_DATA"} /\ Runs
  BY Lasting DEF UnderWay, Repairable
<1>4. MaxFaults - faults <= RetryLimit
  <2>1. faults \in Int /\ faults' \in Int /\ faults' <= faults /\ MaxFaults \in Int
    BY Faults, BoundAssumption DEF Ground, Bounded
  <2>2. MaxFaults - faults' <= RetryLimit /\ RetryLimit \in Int
    BY LimitsAssumption DEF UnderWay, Repairable
  <2>3. \A m, f, g, r \in Int : g <= f /\ m - g <= r => m - f <= r
    OBVIOUS
  <2> QED
    BY ONLY <2>1, <2>2, <2>3
<1> QED
  BY <1>1, <1>2, <1>3, <1>4 DEF UnderWay, Repairable

LEMMA Context ==
  ASSUME Ground, UnderWay
  PROVE  /\ id = BoardId /\ 1 \in DOMAIN list /\ BoardId \in Ids /\ BoardId \in Nat
         /\ need = 0 /\ ~closed /\ cli # "close" /\ Unhit /\ Runs
         /\ Hits \in Nat /\ Hits <= RetryLimit
<1>1. list \in Seq(Nat) /\ list # <<>> /\ list[1] = BoardId
  BY ListsAssumption DEF Ground, UnderWay, Repairable, Types, ToolTypes, Counters
<1>2. 1 \in DOMAIN list /\ BoardId \in Ids /\ BoardId \in Nat
  <2>1. 1 \in DOMAIN list /\ list[1] \in Nat
    BY <1>1
  <2> QED
    BY <1>1, <2>1 DEF Ids
<1>3. Unhit
  BY DEF UnderWay, Repairable, Unhit, Answers
<1>4. need = 0 /\ ~closed /\ cli # "close"
  BY <1>2, <1>3, BoundAssumption DEF Ground, SilenceInv, Types, QueueTypes
<1>5. Hits \in Nat /\ Hits <= RetryLimit
  BY BoundAssumption, LimitsAssumption DEF Ground, Bounded, UnderWay, Repairable, Hits
<1> QED
  BY <1>1, <1>2, <1>3, <1>4, <1>5 DEF id, UnderWay

\* The only faults that count are those of packets on the line.
LEMMA PacketsAreHit ==
  ASSUME Ground, UnderWay', NEW t, Fault(t)
  PROVE  t = "PROGRAM_DATA" /\ Hits' = Hits + 1
BY BoundAssumption DEF UnderWay, Repairable, Fault, Hits, Ground, Bounded

-----------------------------------------------------------------------------
(* What the tool waits for, when the others go on                          *)

\* Answers pass from queue to queue, or the main process goes on.
Passes ==
  /\ [Next]_vars
  /\ ~Update /\ ~SerialWrite /\ ~SerialWriteFault /\ ~Board /\ ~Tick

LEMMA ToolStays ==
  ASSUME [Next]_vars, ~Update
  PROVE  /\ UNCHANGED <<list, k, at, state, pos, retr, sent, ended, result>>
         /\ id' = id
         /\ ~Tick => ht' = ht
BY DEF Next, Parse, Serial, SerialWrite, SerialWriteFault, SerialRead, SerialReadFault, CliEnd,
       Main, ManagerEnds, Close, Tick, Board, TakeRequest, TakeOther, EraseDone, ReceivePacket,
       ReceiveBadLength, PageFails, ReceiveTimeout, Check, CopyDone, update, vars, id

LEMMA Passing ==
  ASSUME Ground, UnderWay, UnderWay', Passes
  PROVE  /\ InFlight' = InFlight /\ Hits' = Hits /\ ht' = ht
         /\ UNCHANGED <<out, bpc, mail, deaf, bin, got, bretry, bt>>
<1>1. need = 0 /\ ~closed /\ BoardId \in Ids /\ Runs
  BY Context
<1>2. CASE SerialRead
  <2>1. say # <<>> /\ rxq' = rxq /\ up' = Append(up, Head(say)) /\ say' = Tail(say)
    BY <1>1, <1>2 DEF SerialRead
  <2>2. InFlight' = InFlight
    BY ONLY Ground, <2>1, PassesOn DEF Ground
  <2> QED
    BY <1>2, <2>2 DEF SerialRead, Hits, nofault, update
<1>3. CASE SerialReadFault
  <2>1. Head(say) = "PROGRAM_DATA"
    BY <1>3, PacketsAreHit DEF SerialReadFault
  <2>2. Head(say) \in Answers
    BY <1>3 DEF SerialReadFault, Ground, Types, QueueTypes
  <2> QED
    BY <2>1, <2>2 DEF Answers
<1>4. CASE Parse
  <2>1. up # <<>> /\ rxq' = Append(rxq, Head(up)) /\ up' = Tail(up) /\ say' = say
    BY <1>1, <1>4 DEF Parse, board
  <2>2. InFlight' = InFlight
    BY ONLY Ground, <2>1, PassesOn DEF Ground
  <2> QED
    BY <1>4, <2>2 DEF Parse, Hits, nofault, board, update
<1>5. CASE CliEnd \/ Main \/ UNCHANGED vars
  BY <1>5 DEF CliEnd, Main, ManagerEnds, Close, vars, serial, board, update, nofault, InFlight,
              Hits
<1> QED
  BY <1>2, <1>3, <1>4, <1>5 DEF Passes, Next, Serial

\* The board acts on what it has heard, and only adds to what it says.
LEMMA BoardActs ==
  ASSUME Board
  PROVE  rxq' = rxq /\ up' = up /\ out' = out /\ ht' = ht
BY DEF Board, TakeRequest, TakeOther, EraseDone, ReceivePacket, ReceiveBadLength, PageFails,
       ReceiveTimeout, Check, CopyDone, serial, update

LEMMA TimePasses ==
  ASSUME Ground, UnderWay, Tick, at # "done"
  PROVE  /\ InFlight' = InFlight /\ Hits' = Hits
         /\ UNCHANGED <<out, bpc, mail, deaf, bin, got, bretry>>
         /\ InFlight = <<>> /\ out = <<>>
         /\ bpc = "idle" => mail = None
         /\ bpc # "check"
         /\ bpc = "receive" => bin = <<>> /\ bt > 0 /\ bt' = bt - 1
         /\ at \in {"answer", "final"} /\ ht > 0 /\ ht' = ht - 1
<1>1. need = 0 /\ Runs /\ id = BoardId
  BY Context
<1>2. say = <<>> /\ up = <<>> /\ out = <<>>
  BY <1>1 DEF Tick, Quiet
<1>3. at \in {"answer", "final"} /\ rxq = <<>>
  BY <1>1 DEF Tick, Quiet, Awaits, HasAnswer
<1>4. InFlight = <<>>
  BY <1>2, <1>3, NoneInFlight DEF Ground
<1>5. InFlight' = InFlight /\ Hits' = Hits
  BY DEF Tick, InFlight, Hits, nofault, serial
<1> QED
  BY <1>1, <1>2, <1>3, <1>4, <1>5 DEF Tick, Quiet, Awaits, serial

\* Before the update begins nobody does anything.
LEMMA AtRestStays ==
  ASSUME Ground, UnderWay, UnderWay', [Next]_vars, AtRest, ~Update, at # "done"
  PROVE  AtRest'
<1>1. CASE Passes
  BY <1>1, Passing DEF AtRest
<1>2. CASE SerialWrite \/ SerialWriteFault
  BY <1>2 DEF SerialWrite, SerialWriteFault, AtRest
<1>3. CASE Board
  BY <1>3, KindOfFrames DEF Board, TakeRequest, TakeOther, EraseDone, ReceivePacket,
     ReceiveBadLength, PageFails, ReceiveTimeout, Check, CopyDone, AtRest, None
<1>4. CASE Tick
  BY <1>4, TimePasses DEF AtRest
<1> QED
  BY <1>1, <1>2, <1>3, <1>4 DEF Passes

\* The board goes on by itself to the end of the update when it has all packets; until then it
\* waits, and the tool takes the answers before the board's time passes.
LEMMA ReachedStays ==
  ASSUME Ground, UnderWay, UnderWay', [Next]_vars, ~Update,
         at \in {"loop", "answer", "final"}, 0 < BoardTimeout,
         NEW n \in Nat, NEW q \in Seq(Answers), Reached(n, q),
         at = "answer" => q # <<>>,
         at = "final" => n = Packets
  PROVE  Reached(n, q)'
<1> USE DEF Reached
<1>0. "FINISHED" \in Answers /\ Append(q, "FINISHED") # <<>>
  BY DEF Answers
<1>1. CASE Passes
  BY <1>1, Passing
<1>2. CASE SerialWrite \/ SerialWriteFault
  BY <1>2 DEF SerialWrite, SerialWriteFault
<1>3. CASE Board
  <2>0. out' = out /\ Hits \in Nat
    BY <1>3, BoardActs, Context
  <2>1. CASE TakeRequest \/ TakeOther
    <3>1. bpc = "idle" /\ mail = None
      BY <2>1 DEF TakeRequest, TakeOther
    <3>2. None.type = "none"
      BY DEF None
    <3> QED
      BY ONLY <2>1, <3>1, <3>2 DEF TakeRequest, TakeOther
  <2>2. CASE EraseDone
    BY <2>2 DEF EraseDone
  <2>3. CASE ReceivePacket \/ ReceiveBadLength \/ PageFails
    BY <2>3 DEF ReceivePacket, ReceiveBadLength, PageFails
  <2>4. CASE ReceiveTimeout
    BY <2>4 DEF ReceiveTimeout
  <2>5. CASE Check
    <3>1. got = Program /\ bpc' = "copy" /\ UNCHANGED <<say, got, bretry, bin>> /\ nofault
      BY <2>5, PacketsAreHit DEF Check, Program
    <3>2. InFlight' = InFlight /\ Hits' = Hits
      BY <1>3, <3>1, BoardActs DEF InFlight, Hits, nofault
    <3> QED
      BY <2>0, <2>5, <3>1, <3>2 DEF Check
  <2>6. CASE CopyDone
    <3>1. /\ bpc = "copy" /\ bpc' = "idle" /\ mail' = None /\ say = <<>> /\ say' = <<"FINISHED">>
          /\ UNCHANGED <<got, bretry, bin>> /\ nofault
      BY <2>6, PacketsAreHit, BackInLoop DEF CopyDone, Ground, SilenceInv
    <3>2. InFlight' = Append(InFlight, "FINISHED") /\ Hits' = Hits
      BY <1>0, <1>3, <3>1, BoardActs, SaysMore DEF Ground, Hits, nofault
    <3> QED
      BY <2>0, <3>1, <3>2
  <2> QED
    BY <1>3, <2>1, <2>2, <2>3, <2>4, <2>5, <2>6 DEF Board
<1>4. CASE Tick
  <2>1. /\ at \in {"answer", "final"} /\ InFlight = <<>> /\ bpc # "check"
        /\ InFlight' = InFlight /\ Hits' = Hits
        /\ UNCHANGED <<out, bpc, mail, deaf, bin, got, bretry>>
    BY <1>4, TimePasses
  <2>2. at = "final" /\ n = Packets
    BY <1>0, <2>1
  <2> QED
    BY <2>1, <2>2
<1> QED
  BY <1>1, <1>2, <1>3, <1>4 DEF Passes

\* The request reaches the board's main loop, and the board answers when it has erased.
LEMMA AskedStep ==
  ASSUME Ground, UnderWay, UnderWay', [Next]_vars, ~Update, at = "answer", Asked
  PROVE  Asked' \/ Reached(0, <<"ACK">>)'
<1>0. /\ UNCHANGED <<at, state, pos>> /\ id' = id
      /\ UpdateRequest(id).type = "UPDATE_REQUEST" /\ None.type = "none"
  BY ToolStays DEF UpdateRequest, None
<1>f. UpdateRequest(id') = UpdateRequest(id)
  BY <1>0
<1>1. CASE Passes
  BY <1>0, <1>1, <1>f, Passing DEF Asked
<1>2. CASE SerialWrite
  <2>1. out = <<UpdateRequest(id)>> /\ bpc = "idle" /\ mail = None /\ ~deaf
    BY <1>2 DEF SerialWrite, Asked
  <2>2. Head(out) = UpdateRequest(id) /\ Tail(out) = <<>>
    BY <2>1
  <2>3. mail' = UpdateRequest(id) /\ out' = <<>> /\ bpc' = bpc /\ UNCHANGED <<rxq, up, say>>
    BY <1>2, <2>1, <2>2 DEF SerialWrite, Hears
  <2> QED
    BY <1>0, <1>f, <2>1, <2>3 DEF Asked, InFlight
<1>3. CASE SerialWriteFault
  <2>1. out = <<UpdateRequest(id)>> /\ bpc = "idle"
    BY <1>3 DEF SerialWriteFault, Asked
  <2>2. Head(out).type = "UPDATE_REQUEST"
    BY <1>0, <2>1
  <2> QED
    BY <1>3, <2>1, <2>2, PacketsAreHit DEF SerialWriteFault
<1>4. CASE Board
  <2>0. rxq' = rxq /\ up' = up /\ out' = out /\ say = <<>>
    BY <1>4, BoardActs, NoneInFlight DEF Asked, Ground
  <2>1. CASE TakeRequest
    <3>1. bpc = "idle" /\ bpc' = "erase" /\ bin' = <<>> /\ say' = say /\ mail # None
      BY <1>0, <2>1 DEF TakeRequest
    <3>2. out = <<>>
      BY <3>1 DEF Asked
    <3> QED
      BY <1>0, <2>0, <3>1, <3>2 DEF Asked, InFlight
  <2>2. CASE EraseDone
    <3>1. /\ bpc = "erase" /\ say' = <<"ACK">> /\ bt' = BoardTimeout
          /\ bpc' = (IF Packets = 0 THEN "check" ELSE "receive")
          /\ UNCHANGED <<bin, got, bretry>> /\ nofault
      BY <2>2 DEF EraseDone
    <3>2. bin = <<>> /\ out = <<>> /\ got = <<>> /\ bretry = 0 /\ InFlight = <<>>
      BY <3>1 DEF Asked, Ground, Types, BoardTypes, BoardCounters, Contents
    <3>3. InFlight' = <<"ACK">>
      BY <2>0, <3>1, <3>2, SaysMore DEF Ground, Answers
    <3>4. <<>> = [j \in 1..0 |-> j]
      OBVIOUS
    <3>5. Hits' = Hits /\ Hits \in Nat
      BY <3>1, Context DEF Hits, nofault
    <3>6. /\ got' = [j \in 1..0 |-> j] /\ out' = <<>> /\ bin' = <<>> /\ bretry' <= Hits'
          /\ bt' = BoardTimeout
      BY <2>0, <3>1, <3>2, <3>4, <3>5
    <3> QED
      BY <3>1, <3>3, <3>6, PacketsAssumption DEF Reached
  <2>3. CASE TakeOther
    BY <1>0, <2>3 DEF TakeOther, Asked
  <2>4. CASE ~TakeRequest /\ ~EraseDone /\ ~TakeOther
    BY <1>4, <2>4 DEF Board, ReceivePacket, ReceiveBadLength, PageFails, ReceiveTimeout, Check,
                      CopyDone, Asked
  <2> QED
    BY <2>1, <2>2, <2>3, <2>4
<1>5. CASE Tick
  <2>1. /\ InFlight' = InFlight /\ UNCHANGED <<out, bpc, mail, deaf, bin>>
        /\ out = <<>> /\ (bpc = "idle" => mail = None)
    BY <1>5, TimePasses
  <2>2. bpc = "erase" /\ bin = <<>>
    BY <1>0, <2>1 DEF Asked
  <2> QED
    BY <1>0, <2>1, <2>2 DEF Asked
<1> QED
  BY <1>1, <1>2, <1>3, <1>4, <1>5 DEF Passes

LEMMA NextNumber ==
  ASSUME NEW n \in Nat, n > 0
  PROVE  /\ Append([j \in 1..(n - 1) |-> j], n) = [j \in 1..n |-> j]
         /\ Len([j \in 1..n |-> j]) = n /\ Len([j \in 1..(n - 1) |-> j]) = n - 1
<1> DEFINE a == [j \in 1..(n - 1) |-> j]
           b == [j \in 1..n |-> j]
<1>1. a \in Seq(Nat) /\ Len(a) = n - 1 /\ b \in Seq(Nat) /\ Len(b) = n
  OBVIOUS
<1>2. Append(a, n) \in Seq(Nat) /\ Len(Append(a, n)) = n
  BY <1>1
<1>3. ASSUME NEW j \in 1..n PROVE Append(a, n)[j] = b[j]
  BY <1>1
<1>4. Append(a, n) = b
  BY <1>1, <1>2, <1>3, SeqEqual
<1> QED
  BY <1>1, <1>4

\* A packet arrives and is programmed, or it was hit and the board's refusal tells the tool,
\* before its time is up.
LEMMA SentPasses ==
  ASSUME Ground, UnderWay, UnderWay', at = "answer", Sent, Passes
  PROVE  Sent'
<1>1. /\ UNCHANGED <<state, pos, retr>> /\ id' = id
  BY ToolStays DEF Passes
<1>2. ProgramData(id, pos)' = ProgramData(id, pos)
  BY <1>1 DEF ProgramData
<1>3. /\ InFlight' = InFlight /\ Hits' = Hits /\ ht' = ht
      /\ UNCHANGED <<out, bpc, bin, got, bretry, bt>>
  BY Passing
<1>4. (Coming => Coming') /\ (Arrives => Arrives')
  BY <1>1, <1>2, <1>3 DEF Coming, Arrives
<1>5. (Missing => Missing') /\ (Refused => Refused')
  BY <1>1, <1>3 DEF Missing, Refused
<1> QED
  BY <1>1, <1>3, <1>4, <1>5 DEF Sent

LEMMA SentOnTheLine ==
  ASSUME Ground, UnderWay, UnderWay', at = "answer", Sent, BoardTimeout < HostTimeout,
         SerialWrite \/ SerialWriteFault
  PROVE  Sent'
<1>0. Coming
  BY DEF SerialWrite, SerialWriteFault, Sent, Arrives, Missing, Refused
<1>1. UNCHANGED <<list, k, state, pos, retr, ht, rxq, up, need, bpc, got, bretry, bt>>
  BY DEF SerialWrite, SerialWriteFault, update
<1>2. ProgramData(id, pos)' = ProgramData(id, pos) /\ Head(out) = ProgramData(id, pos)
      /\ out' = <<>> /\ bin = <<>> /\ InFlight = <<>> /\ say = <<>> /\ bpc = "receive"
  BY <1>0, <1>1, NoneInFlight
  DEF ProgramData, id, Coming, Sent, SerialWrite, SerialWriteFault, Ground
<1>3. retr <= bretry /\ bretry <= Hits /\ ht = HostTimeout /\ bt = BoardTimeout /\ bretry \in Nat
      /\ Hits \in Nat
  BY <1>0, Context DEF Coming, Ground, Types, BoardTypes, BoardCounters
<1>4. CASE SerialWrite
  <2>1. bin' = <<ProgramData(id, pos)>> /\ say' = say /\ nofault
    BY <1>2, <1>4 DEF SerialWrite, Hears
  <2>2. InFlight' = InFlight /\ Hits' = Hits
    BY <1>1, <2>1 DEF InFlight, Hits, nofault
  <2>3. Arrives'
    BY <1>1, <1>2, <1>3, <2>1, <2>2 DEF Arrives
  <2> QED
    BY <1>1, <2>3 DEF Sent
<1>5. CASE SerialWriteFault
  <2>1. /\ say' = say /\ (bin' = <<>> \/ bin' = <<Garbage>>)
        /\ \E t : Fault(t)
    BY <1>2, <1>5, PacketsAreHit DEF SerialWriteFault, Hears
  <2>2. InFlight' = InFlight /\ Hits' = Hits + 1
    BY <1>1, <2>1, PacketsAreHit DEF InFlight
  <2>3. retr' <= bretry' /\ bretry' + 1 <= Hits' /\ bt' < ht'
    BY <1>1, <1>3, <2>2
  <2>4. Missing'
    BY <1>2, <2>1, <2>2, <2>3 DEF Missing
  <2> QED
    BY <1>1, <2>4 DEF Sent
<1> QED
  BY <1>4, <1>5

LEMMA SentBoard ==
  ASSUME Ground, UnderWay, UnderWay', at = "answer", Sent, 0 < BoardTimeout, Board
  PROVE  Sent' \/ \E n : n = pos /\ Reached(n, <<"ACK">>)'
<1>0. /\ bpc = "receive" /\ got = [j \in 1..(pos - 1) |-> j] /\ pos \in Nat /\ pos > 0
      /\ pos <= Packets /\ retr \in Nat /\ bretry \in Nat /\ Hits \in Nat
      /\ Hits <= RetryLimit /\ state = 2
  BY Context, PacketsAssumption, LimitsAssumption
  DEF Sent, Ground, Types, ToolTypes, Counters, BoardTypes, BoardCounters
<1>1. rxq' = rxq /\ up' = up /\ out' = out /\ UNCHANGED <<list, k, state, pos, retr, ht>>
  BY BoardActs DEF Board, TakeRequest, TakeOther, EraseDone, ReceivePacket, ReceiveBadLength,
     PageFails, ReceiveTimeout, Check, CopyDone, update
<1>g. Garbage.type = "garbage"
  BY DEF Garbage
<1>p. ProgramData(id, pos).type = "PROGRAM_DATA" /\ ProgramData(id, pos).n = pos
      /\ ProgramData(id, pos).dst = BoardId
  BY Context DEF ProgramData
<1>f. ASSUME NEW left, ReceiveFails(left), Missing, say = <<>>, bin' = <<>>, nofault, got' = got
      PROVE  Sent'
  <2>1. bretry' = bretry + 1 /\ ~(bretry' > RetryLimit) /\ bretry + 1 <= Hits /\ retr <= bretry
    BY <1>0, <1>f, LimitsAssumption DEF ReceiveFails, Missing
  <2>2. say' = <<"NACK">> /\ bt' = BoardTimeout /\ bpc' = bpc
    BY <1>f, <2>1 DEF ReceiveFails
  <2>3. InFlight = <<>> /\ out = <<>>
    BY <1>f DEF Missing
  <2>4. InFlight' = <<"NACK">> /\ Hits' = Hits
    BY <1>1, <1>f, <2>2, <2>3, SaysMore DEF Ground, Answers, Hits, nofault
  <2>5. retr' + 1 <= bretry' /\ bretry' <= Hits'
    BY <1>0, <1>1, <2>1, <2>4
  <2>6. Refused'
    BY <1>1, <1>f, <2>2, <2>3, <2>4, <2>5 DEF Refused
  <2> QED
    BY <1>0, <1>1, <1>f, <2>2, <2>6 DEF Sent
<1>2. CASE ReceivePacket
  <2>1. say = <<>> /\ bin # <<>> /\ bin' = Tail(bin) /\ nofault
    BY <1>2 DEF ReceivePacket
  <2>2. CASE Arrives
    <3>1. Head(bin) = ProgramData(id, pos) /\ Tail(bin) = <<>> /\ InFlight = <<>> /\ out = <<>>
          /\ bretry <= Hits
      BY <2>2 DEF Arrives
    <3>2. /\ got' = Append(got, pos) /\ say' = <<"ACK">> /\ bt' = BoardTimeout
          /\ bpc' = (IF Len(got') < Packets THEN "receive" ELSE "check") /\ bretry' = bretry
      BY <1>2, <1>p, <3>1 DEF ReceivePacket
    <3>3. got' = [j \in 1..pos |-> j] /\ Len(got') = pos
      BY <1>0, <3>2, NextNumber
    <3>4. InFlight' = <<"ACK">> /\ Hits' = Hits
      BY <1>1, <2>1, <3>1, <3>2, SaysMore DEF Ground, Answers, Hits, nofault
    <3>5. PICK n : n = pos
      OBVIOUS
    <3>6. /\ out' = <<>> /\ got' = [j \in 1..n |-> j] /\ bretry' <= Hits' /\ bin' = <<>>
          /\ (pos < Packets \/ pos = Packets)
      BY <1>0, <1>1, <2>1, <3>1, <3>2, <3>3, <3>4, <3>5, PacketsAssumption
    <3>7. Reached(n, <<"ACK">>)'
      BY <3>2, <3>3, <3>4, <3>5, <3>6 DEF Reached
    <3> QED
      BY <3>5, <3>7
  <2>3. CASE Missing
    <3>1. bin = <<Garbage>>
      BY <2>1, <2>3 DEF Missing
    <3>2. Head(bin).type = "garbage" /\ bin' = <<>>
      BY <1>g, <2>1, <3>1
    <3>3. ReceiveFails(Tail(bin)) /\ got' = got
      BY <1>2, <3>2 DEF ReceivePacket
    <3> QED
      BY <1>f, <2>1, <2>3, <3>2, <3>3
  <2> QED
    BY <2>1, <2>2, <2>3 DEF Sent, Coming, Refused
<1>3. CASE ReceiveTimeout
  <2>1. bt = 0 /\ bin = <<>> /\ say = <<>> /\ ReceiveFails(<<>>) /\ nofault /\ bin' = <<>>
        /\ got' = got
    BY <1>3 DEF ReceiveTimeout
  <2>2. Missing
    BY <2>1 DEF Sent, Coming, Arrives, Refused
  <2> QED
    BY <1>f, <2>1, <2>2
<1>4. CASE ReceiveBadLength
  <2>1. bin # <<>> /\ Head(bin).type = "bad length"
    BY <1>4 DEF ReceiveBadLength
  <2>2. bin = <<>> \/ bin = <<Garbage>> \/ bin = <<ProgramData(id, pos)>>
    BY DEF Sent, Coming, Arrives, Missing, Refused
  <2>3. Head(bin) = Garbage \/ Head(bin) = ProgramData(id, pos)
    <3>1. \A f : Head(<<f>>) = f
      OBVIOUS
    <3> QED
      BY ONLY <2>1, <2>2, <3>1
  <2>4. Head(bin).type # "bad length"
    BY <1>g, <1>p, <2>3
  <2> QED
    BY <2>1, <2>4
<1>5. CASE PageFails
  BY <1>5, PacketsAreHit DEF PageFails
<1>6. CASE TakeRequest \/ TakeOther \/ EraseDone \/ Check \/ CopyDone
  BY <1>0, <1>6 DEF TakeRequest, TakeOther, EraseDone, Check, CopyDone
<1> QED
  BY <1>2, <1>3, <1>4, <1>5, <1>6 DEF Board

LEMMA SentTicks ==
  ASSUME Ground, UnderWay, UnderWay', at = "answer", Sent, Tick
  PROVE  Missing /\ ht > 1 /\ Sent'
<1>1. /\ bpc = "receive" /\ InFlight = <<>> /\ out = <<>> /\ bin = <<>> /\ bt > 0 /\ bt' = bt - 1
      /\ ht > 0 /\ ht' = ht - 1 /\ InFlight' = InFlight /\ Hits' = Hits
      /\ UNCHANGED <<out, bpc, bin, got, bretry>>
  BY TimePasses DEF Sent
<1>2. Missing
  BY <1>1 DEF Sent, Coming, Arrives, Refused
<1>3. bt < ht /\ bt \in Nat /\ ht \in Nat
  BY <1>1, <1>2, TimeAssumption
  DEF Missing, Garbage, Ground, Types, ToolTypes, Counters, BoardTypes, BoardCounters
<1>4. UNCHANGED <<state, pos, retr>>
  BY DEF Tick
<1>5. bt' < ht' /\ ht > 1
  BY <1>1, <1>3
<1>6. Missing'
  BY <1>1, <1>2, <1>4, <1>5 DEF Missing
<1> QED
  BY <1>1, <1>2, <1>4, <1>5, <1>6 DEF Sent

-----------------------------------------------------------------------------
(* What the tool does                                                      *)

\* The tool sees neither silence nor a refusal it has no packet for.
LEMMA ToolStep ==
  ASSUME Ground, UnderWay, UnderWay', Update, InLoop \/ AtItsEnd, RetryLimit < MaxRetransfers
  PROVE  InLoop' \/ AtItsEnd'
<1>0. id = BoardId /\ Hits \in Nat /\ Hits <= RetryLimit /\ k = 1
  BY Context DEF UnderWay
<1>1. UNCHANGED <<list, bpc, mail, deaf, bin, say, got, bretry, bt, up, faults>>
  BY DEF Update, StartUpdate, Request, Prepare, Send, GiveUp, Answer, AnswerTimeout, LoopEnds,
         Final, FinalTimeout, board, serial, nofault
<1>2. k' = k /\ id' = id /\ Hits' = Hits
  BY <1>0, <1>1 DEF UnderWay, id, Hits
<1>n. pos \in 0..Packets /\ retr \in Nat /\ bretry \in Nat /\ Packets \in Nat
  BY PacketsAssumption, LimitsAssumption
  DEF Ground, Types, ToolTypes, Counters, BoardTypes, BoardCounters
<1>3. CASE StartUpdate
  <2>1. at = "start" /\ id \notin ended /\ AtRest /\ UNCHANGED <<out, rxq, ended>>
    BY <1>3 DEF StartUpdate, InLoop, AtItsEnd, serial
  <2>2. AtRest'
    BY <1>1, <2>1 DEF AtRest, InFlight
  <2> QED
    BY <1>2, <1>3, <2>1, <2>2 DEF StartUpdate, InLoop
<1>4. CASE Request
  <2>1. at = "loop" /\ id \notin ended /\ state = 0 /\ pos = 0 /\ ~sent /\ AtRest
    BY <1>4 DEF Request, InLoop, AtItsEnd
  <2>2. /\ out' = <<UpdateRequest(id)>> /\ UpdateRequest(id)' = UpdateRequest(id)
        /\ InFlight' = <<>>
    BY <1>1, <1>2, <1>4, <2>1 DEF Request, AtRest, InFlight, UpdateRequest
  <2>3. Asked'
    BY <1>1, <1>4, <2>1, <2>2 DEF Request, AtRest, Asked
  <2> QED
    BY <1>2, <1>4, <2>1, <2>3 DEF Request, InLoop
<1>5. CASE Prepare
  <2>1. at = "loop" /\ id \notin ended /\ ~sent /\ state = 1 /\ Reached(pos, <<>>)
    BY <1>5 DEF Prepare, InLoop, AtItsEnd
  <2>2. UNCHANGED <<out, rxq, at>> /\ InFlight' = InFlight
    BY <1>1, <1>5 DEF Prepare, serial, InFlight
  <2>3. PICK n : n = pos
    OBVIOUS
  <2>4. Reached(n, <<>>)'
    BY <1>1, <1>2, <2>1, <2>2, <2>3 DEF Reached
  <2>5. CASE pos < Packets
    <3>1. pos' = pos + 1 /\ state' = 2 /\ UNCHANGED <<sent, ended>> /\ retr' = 0
      BY <1>5, <2>5 DEF Prepare
    <3>2. pos' - 1 = n /\ pos' > 0
      BY <1>n, <2>3, <3>1
    <3>3. Reached(pos - 1, <<>>)'
      BY <2>4, <3>2 DEF Reached
    <3>4. id' \notin ended' /\ ~sent' /\ at' = "loop" /\ retr' <= bretry'
      BY <1>1, <1>2, <1>n, <2>1, <2>2, <3>1
    <3> QED
      BY <3>1, <3>2, <3>3, <3>4 DEF InLoop
  <2>6. CASE ~(pos < Packets)
    <3>1. sent' = TRUE /\ ended' = ended \cup {id} /\ n = Packets
      BY <1>5, <1>n, <2>3, <2>6 DEF Prepare
    <3>2. Reached(Packets, <<>>)'
      BY <2>4, <3>1 DEF Reached
    <3> QED
      BY <1>2, <2>1, <2>2, <3>1, <3>2 DEF AtItsEnd
  <2> QED
    BY <2>5, <2>6
<1>6. CASE Send
  <2>1. /\ at = "loop" /\ id \notin ended /\ ~sent /\ state = 2 /\ pos > 0 /\ retr <= bretry
        /\ Reached(pos - 1, <<>>)
    BY <1>6 DEF Send, InLoop, AtItsEnd
  <2>2. /\ out = <<>> /\ got = [j \in 1..(pos - 1) |-> j] /\ bretry <= Hits /\ bpc = "receive"
        /\ bin = <<>> /\ bt = BoardTimeout /\ InFlight = <<>>
    BY <1>n, <2>1 DEF Reached
  <2>3. /\ out' = <<ProgramData(id, pos)>> /\ ProgramData(id, pos)' = ProgramData(id, pos)
        /\ InFlight' = <<>> /\ ht' = HostTimeout /\ at' = "answer"
        /\ UNCHANGED <<state, pos, retr, sent, ended>>
    BY <1>1, <1>2, <1>6, <2>2 DEF Send, InFlight, ProgramData
  <2>4. Coming'
    BY <1>1, <1>2, <2>1, <2>2, <2>3 DEF Coming
  <2>5. Sent'
    BY <1>1, <2>1, <2>2, <2>3, <2>4 DEF Sent
  <2> QED
    BY <1>2, <2>1, <2>3, <2>5 DEF InLoop
<1>7. CASE GiveUp
  <2>1. state = 2 /\ retr >= MaxRetransfers /\ retr <= bretry /\ Reached(pos - 1, <<>>)
    BY <1>7 DEF GiveUp, InLoop, AtItsEnd
  <2>2. bretry <= Hits
    BY <2>1 DEF Reached
  <2> QED
    BY <1>0, <1>n, <2>1, <2>2, LimitsAssumption
<1>8. CASE Answer
  <2>1. at = "answer" /\ rxq # <<>> /\ rxq' = Tail(rxq) /\ at' = "loop"
        /\ id \notin ended /\ ~sent /\ UNCHANGED <<out, pos, sent>>
        /\ (Asked \/ Sent \/ Reached(pos, <<"ACK">>))
    BY <1>8 DEF Answer, HasAnswer, InLoop, AtItsEnd
  <2>2. /\ Len(InFlight) > 0 /\ Len(InFlight') = Len(InFlight) - 1 /\ InFlight[1] = Head(rxq)
        /\ \A i \in 1..Len(InFlight') : InFlight'[i] = InFlight[i + 1]
    BY <1>8, AnswerTaken DEF Ground
  <2>t. InFlight' \in Seq(Answers)
    <3>1. rxq' \in Seq(Answers) /\ up' \in Seq(Answers) /\ say' \in Seq(Answers)
      BY <1>1, <2>1, InFlightTyped DEF Ground
    <3>2. up' \o say' \in Seq(Answers)
      BY <3>1, ConcatProperties
    <3> QED
      BY <3>1, <3>2, ConcatProperties DEF InFlight
  <2>3. CASE Asked
    BY <2>2, <2>3 DEF Asked
  <2>4. CASE Sent
    <3>1. InFlight = <<"NACK">> /\ Refused
      BY <2>2, <2>4 DEF Sent, Coming, Arrives, Missing, Refused
    <3>2. Head(rxq) = "NACK" /\ InFlight' = <<>>
      <4>1. Len(InFlight') = 0 /\ Head(rxq) = "NACK"
        BY <2>2, <3>1
      <4> QED
        BY <2>t, <4>1, EmptySeq
    <3>3. retr' = retr + 1 /\ state' = state /\ ended' = ended /\ state = 2 /\ pos > 0
      BY <1>8, <2>4, <3>2 DEF Answer, Sent
    <3>4. /\ out = <<>> /\ bin = <<>> /\ bt = BoardTimeout /\ retr + 1 <= bretry
          /\ bretry <= Hits /\ bpc = "receive" /\ got = [j \in 1..(pos - 1) |-> j]
          /\ pos - 1 < Packets
      BY <1>n, <2>4, <3>1 DEF Refused, Sent
    <3>5. Reached(pos - 1, <<>>)'
      BY <1>1, <1>2, <2>1, <3>2, <3>4 DEF Reached
    <3>6. id' \notin ended' /\ ~sent' /\ at' = "loop" /\ state' = 2 /\ pos' > 0 /\ retr' <= bretry'
      BY <1>1, <1>2, <1>n, <2>1, <3>3, <3>4
    <3> QED
      BY <3>5, <3>6 DEF InLoop
  <2>5. CASE Reached(pos, <<"ACK">>)
    <3>1. InFlight = <<"ACK">> \/ InFlight = <<"ACK", "FINISHED">>
      BY <2>5 DEF Reached
    <3>2. Head(rxq) = "ACK"
      BY <2>2, <3>1
    <3>3. /\ InFlight = <<"ACK">> => InFlight' = <<>>
          /\ InFlight = <<"ACK", "FINISHED">> => InFlight' = <<"FINISHED">>
      <4>1. InFlight = <<"ACK">> => Len(InFlight') = 0
        BY <2>2
      <4>2. InFlight = <<"ACK", "FINISHED">> => Len(InFlight') = 1 /\ InFlight'[1] = "FINISHED"
        BY <2>2
      <4>3. \A q \in Seq(Answers) :
              /\ Len(q) = 0 => q = <<>>
              /\ Len(q) = 1 => q = <<q[1]>>
        OBVIOUS
      <4> QED
        BY <2>t, <4>1, <4>2, <4>3
    <3>4. state' = 1 /\ ended' = ended
      BY <1>8, <3>2 DEF Answer
    <3>5. <<"ACK", "FINISHED">> = Append(<<"ACK">>, "FINISHED")
          /\ <<"FINISHED">> = Append(<<>>, "FINISHED") /\ <<"ACK">> # <<"ACK", "FINISHED">>
      OBVIOUS
    <3>6. Reached(pos, <<>>)'
      BY <1>1, <1>2, <2>1, <2>5, <3>1, <3>3, <3>5 DEF Reached
    <3> QED
      BY <1>2, <2>1, <3>4, <3>6 DEF InLoop
  <2> QED
    BY <2>1, <2>3, <2>4, <2>5
<1>9. CASE AnswerTimeout
  BY <1>2, <1>9 DEF AnswerTimeout, InLoop, AtItsEnd
<1>10. CASE LoopEnds
  <2>1. at = "loop" /\ id \in ended /\ UNCHANGED <<out, rxq, sent>>
    BY <1>10 DEF LoopEnds, serial
  <2>2. sent /\ at' = "final"
    BY <1>0, <1>2, <1>10 DEF LoopEnds, Conclude
  <2>3. Reached(Packets, <<>>)
    BY <2>1, <2>2 DEF InLoop, AtItsEnd
  <2>4. Reached(Packets, <<>>)'
    BY <1>1, <1>2, <2>1, <2>3 DEF Reached, InFlight
  <2> QED
    BY <2>2, <2>4 DEF AtItsEnd
<1>11. CASE Final \/ FinalTimeout
  BY <1>0, <1>2, <1>11 DEF Final, FinalTimeout, Conclude
<1> QED
  BY <1>3, <1>4, <1>5, <1>6, <1>7, <1>8, <1>9, <1>10, <1>11 DEF Update

-----------------------------------------------------------------------------
(* The invariant and the property                                          *)

\* The order of the limits and times in the code: 3 and 5 (fvc.c:400, Python/main.py:18),
\* 3 seconds and 20 (BSP/bsp.c:246, Python/main.py:16), and 120 (Python/main.py:17).
LimitsFit ==
  RetryLimit < MaxRetransfers /\ 0 < BoardTimeout /\ BoardTimeout < HostTimeout /\ 0 < EndTimeout

LEMMA OthersStep ==
  ASSUME Ground, UnderWay, UnderWay', [Next]_vars, ~Update, InLoop \/ AtItsEnd, LimitsFit
  PROVE  InLoop' \/ AtItsEnd'
<1>1. /\ UNCHANGED <<list, k, at, state, pos, retr, sent, ended>> /\ id' = id
      /\ ~Tick => ht' = ht
  BY ToolStays
<1>2. /\ at # "done" /\ pos \in Nat /\ Packets \in Nat /\ 0 < BoardTimeout
      /\ BoardTimeout < HostTimeout
  BY PacketsAssumption DEF InLoop, AtItsEnd, Ground, Types, ToolTypes, Counters, LimitsFit
<1>3. AtRest => AtRest'
  BY <1>2, AtRestStays
<1>a. <<>> \in Seq(Answers) /\ <<"ACK">> \in Seq(Answers) /\ <<"ACK">> # <<>>
  BY DEF Answers
<1>4. ASSUME NEW n \in Nat, NEW q \in Seq(Answers), Reached(n, q),
             at \in {"loop", "answer", "final"},
             at = "answer" => q # <<>>, at = "final" => n = Packets
      PROVE  Reached(n, q)'
  BY <1>2, <1>4, ReachedStays
<1>5. ASSUME at = "start", AtRest, id \notin ended, ~sent
      PROVE  InLoop'
  BY <1>1, <1>3, <1>5 DEF InLoop
<1>6. ASSUME at = "loop", state = 0, pos = 0, AtRest, id \notin ended, ~sent
      PROVE  InLoop'
  BY <1>1, <1>3, <1>6 DEF InLoop
<1>7. ASSUME at = "loop", state = 1, Reached(pos, <<>>), id \notin ended, ~sent
      PROVE  InLoop'
  <2>1. PICK n : n = pos
    OBVIOUS
  <2>2. Reached(n, <<>>)
    BY <1>7, <2>1
  <2>3. Reached(n, <<>>)'
    BY <1>2, <1>4, <1>7, <1>a, <2>1, <2>2
  <2>4. pos' = n
    BY <1>1, <2>1
  <2>5. Reached(pos, <<>>)'
    BY <2>3, <2>4 DEF Reached
  <2> QED
    BY <1>1, <1>7, <2>5 DEF InLoop
<1>8. ASSUME at = "loop", state = 2, pos > 0, Reached(pos - 1, <<>>), retr <= bretry,
             id \notin ended, ~sent
      PROVE  InLoop'
  <2>1. PICK n : n = pos - 1
    OBVIOUS
  <2>2. Reached(n, <<>>) /\ n \in Nat
    BY <1>2, <1>8, <2>1
  <2>3. Reached(n, <<>>)'
    BY <1>4, <1>8, <1>a, <2>2
  <2>4. pos' - 1 = n
    BY <1>1, <2>1
  <2>5. Reached(pos - 1, <<>>)'
    BY <2>3, <2>4 DEF Reached
  <2>6. bretry' = bretry
    <3>1. CASE Passes
      BY <3>1, Passing
    <3>2. CASE SerialWrite \/ SerialWriteFault
      BY <3>2 DEF SerialWrite, SerialWriteFault
    <3>3. CASE Tick
      BY <3>3 DEF Tick
    <3>4. CASE Board
      <4>1. n < Packets /\ bpc = "receive" /\ bin = <<>> /\ bt # 0
        BY <1>2, <1>8, <2>1, <2>2 DEF Reached, Ground, Types, ToolTypes, Counters
      <4> QED
        BY <3>4, <4>1 DEF Board, TakeRequest, TakeOther, EraseDone, ReceivePacket,
           ReceiveBadLength, PageFails, ReceiveTimeout, Check, CopyDone
    <3> QED
      BY <3>1, <3>2, <3>3, <3>4 DEF Passes
  <2> QED
    BY <1>1, <1>8, <2>5, <2>6 DEF InLoop
<1>9. ASSUME at = "answer", Asked, id \notin ended, ~sent
      PROVE  InLoop'
  <2>1. Asked' \/ Reached(0, <<"ACK">>)'
    BY <1>9, AskedStep
  <2>2. pos' = 0
    BY <1>1, <1>9 DEF Asked
  <2>3. Reached(0, <<"ACK">>)' => Reached(pos, <<"ACK">>)'
    BY <2>2 DEF Reached
  <2> QED
    BY <1>1, <1>9, <2>1, <2>3 DEF InLoop
<1>10. ASSUME at = "answer", Sent, id \notin ended, ~sent
       PROVE  InLoop'
  <2>1. Sent' \/ \E n : n = pos /\ Reached(n, <<"ACK">>)'
    BY <1>2, <1>10, SentPasses, SentOnTheLine, SentBoard, SentTicks DEF Passes
  <2>2. (\E n : n = pos /\ Reached(n, <<"ACK">>)') => Reached(pos, <<"ACK">>)'
    BY <1>1 DEF Reached
  <2> QED
    BY <1>1, <1>10, <2>1, <2>2 DEF InLoop
<1>11. ASSUME at = "answer", Reached(pos, <<"ACK">>), id \notin ended, ~sent
       PROVE  InLoop'
  <2>1. PICK n : n = pos
    OBVIOUS
  <2>2. Reached(n, <<"ACK">>)
    BY <1>11, <2>1
  <2>3. Reached(n, <<"ACK">>)'
    BY <1>2, <1>4, <1>11, <1>a, <2>1, <2>2
  <2>4. pos' = n
    BY <1>1, <2>1
  <2>5. Reached(pos, <<"ACK">>)'
    BY <2>3, <2>4 DEF Reached
  <2> QED
    BY <1>1, <1>11, <2>5 DEF InLoop
<1>12. ASSUME at = "loop", id \in ended, sent, Reached(Packets, <<>>)
       PROVE  AtItsEnd'
  BY <1>1, <1>2, <1>4, <1>12, <1>a DEF AtItsEnd
<1>13. ASSUME at = "loop", id \in ended, ~sent, ht = 0
       PROVE  AtItsEnd'
  <2>1. ~Tick
    BY <1>13, TimePasses
  <2> QED
    BY <1>1, <1>13, <2>1 DEF AtItsEnd
<1>14. ASSUME at = "final", Reached(Packets, <<>>)
       PROVE  AtItsEnd'
  BY <1>1, <1>2, <1>4, <1>14, <1>a DEF AtItsEnd
<1>15. InLoop => InLoop'
  BY <1>5, <1>6, <1>7, <1>8, <1>9, <1>10, <1>11 DEF InLoop
<1>16. AtItsEnd => AtItsEnd'
  BY <1>12, <1>13, <1>14 DEF AtItsEnd
<1> QED
  BY <1>15, <1>16

LEMMA RepairStep ==
  ASSUME Ground, RepairInv, [Next]_vars, LimitsFit
  PROVE  RepairInv'
<1> SUFFICES ASSUME UnderWay' PROVE InLoop' \/ AtItsEnd'
  BY DEF RepairInv
<1>1. UnderWay /\ (InLoop \/ AtItsEnd)
  BY UnderWayBefore DEF RepairInv
<1>2. CASE Update
  BY <1>1, <1>2, ToolStep DEF LimitsFit
<1>3. CASE ~Update
  BY <1>1, <1>3, OthersStep
<1> QED
  BY <1>2, <1>3

LEMMA InitRepair == Init => RepairInv /\ Bounded
<1> SUFFICES ASSUME Init PROVE RepairInv /\ Bounded
  OBVIOUS
<1>1. Bounded
  BY BoundAssumption DEF Init, Bounded
<1>2. ASSUME UnderWay PROVE InLoop
  <2>1. at = "start"
    BY <1>2 DEF Init, UnderWay, Repairable
  <2>2. AtRest
    BY DEF Init, AtRest, InFlight
  <2> QED
    BY <2>1, <2>2 DEF Init, InLoop
<1> QED
  BY <1>1, <1>2 DEF RepairInv

\* The update fails only when the tool's time is up.
LEMMA FailsLate ==
  ASSUME Ground, RepairInv, Next, Repairable, result'[1] = "failed", result[1] # "failed"
  PROVE  ht = 0
<1>0. /\ result \in [DOMAIN list -> {"none", "failed", "finished"}]
      /\ k \in Nat /\ list \in Seq(Nat)
  BY ListsAssumption DEF Ground, Types, ToolTypes, Counters, Results
<1>1. \/ LoopEnds \/ Final \/ FinalTimeout
  BY DEF Next, Update, StartUpdate, Request, Prepare, Send, GiveUp, Answer, AnswerTimeout,
         Parse, Serial, SerialWrite, SerialWriteFault, SerialRead, SerialReadFault, CliEnd,
         Main, ManagerEnds, Close, Tick, Board, TakeRequest, TakeOther, EraseDone,
         ReceivePacket, ReceiveBadLength, PageFails, ReceiveTimeout, Check, CopyDone, update
<1>2. PICK r : result' = [result EXCEPT ![k] = r]
  BY <1>1 DEF LoopEnds, Final, FinalTimeout, Conclude
<1>3. k = 1 /\ Runs
  <2>1. Runs
    BY <1>1 DEF LoopEnds, Final, FinalTimeout
  <2>2. 1 \in DOMAIN list
    BY <1>0 DEF Repairable
  <2>3. k # 1 => result'[1] = result[1]
    BY <1>0, <1>2, <2>2
  <2> QED
    BY <2>1, <2>3
<1>4. UnderWay /\ (InLoop \/ AtItsEnd)
  BY <1>3 DEF UnderWay, RepairInv
<1>5. CASE LoopEnds
  <2>1. at = "loop" /\ id \in ended /\ ~sent
    BY <1>5 DEF LoopEnds
  <2> QED
    BY <1>4, <2>1 DEF InLoop, AtItsEnd
<1>6. CASE Final
  <2>1. at = "final" /\ rxq # <<>>
    BY <1>6 DEF Final, HasAnswer
  <2>2. Reached(Packets, <<>>) /\ Len(InFlight) > 0 /\ InFlight[1] = Head(rxq)
    BY <1>4, <1>6, <2>1, AnswerTaken DEF InLoop, AtItsEnd, Ground
  <2>3. InFlight = <<"FINISHED">>
    BY <2>2 DEF Reached
  <2>4. Head(rxq) = "FINISHED"
    BY <2>2, <2>3
  <2>5. result' = [result EXCEPT ![k] = "finished"]
    BY <1>6, <2>4 DEF Final, Conclude
  <2>6. 1 \in DOMAIN list
    BY <1>0 DEF Repairable
  <2>7. result'[1] = "finished"
    BY <1>0, <1>3, <2>5, <2>6
  <2> QED
    BY <2>7
<1>7. CASE FinalTimeout
  BY <1>7 DEF FinalTimeout
<1> QED
  BY <1>1, <1>5, <1>6, <1>7

\* Its time runs out only while the board erases or copies.
LEMMA WaitsLong ==
  ASSUME Ground, RepairInv, Next, Repairable, LimitsFit, k = 1, ht' = 0, ht # 0
  PROVE  bpc \in {"erase", "copy"}
<1>1. Tick /\ Awaits
  <2>1. HostTimeout > 0 /\ EndTimeout > 0
    BY TimeAssumption DEF LimitsFit
  <2>2. CASE Update
    <3>1. ht' \in {ht, HostTimeout, EndTimeout}
      BY <2>2 DEF Update, StartUpdate, Request, Prepare, Send, GiveUp, Answer, AnswerTimeout,
                  LoopEnds, Final, FinalTimeout
    <3> QED
      BY <2>1, <3>1
  <2>3. CASE ~Update
    BY <2>3, ToolStays DEF Tick
  <2> QED
    BY <2>2, <2>3
<1>2. UnderWay /\ (InLoop \/ AtItsEnd) /\ Runs
  BY <1>1 DEF UnderWay, RepairInv, Awaits
<1>3. at \in {"answer", "final"}
  BY <1>1 DEF Awaits
<1>4. /\ InFlight = <<>> /\ out = <<>> /\ (bpc = "idle" => mail = None) /\ bpc # "check"
      /\ ht > 0 /\ ht' = ht - 1
  BY <1>1, <1>2, <1>3, TimePasses
<1>5. CASE at = "answer" /\ Asked
  <2>1. UpdateRequest(id) # None
    BY DEF UpdateRequest, None
  <2> QED
    BY <1>4, <1>5, <2>1 DEF Asked
<1>6. CASE at = "answer" /\ Sent
  <2>1. bpc = "receive" /\ bin = <<>> /\ bt > 0
    BY <1>1, <1>2, <1>3, <1>6, TimePasses DEF Sent
  <2>2. bt < ht
    BY <1>4, <1>6, <2>1, TimeAssumption DEF Sent, Coming, Arrives, Missing, Refused, Garbage
  <2> QED
    BY <1>4, <2>1, <2>2, TimeAssumption
    DEF Ground, Types, ToolTypes, Counters, BoardTypes, BoardCounters
<1>7. CASE at = "answer" /\ Reached(pos, <<"ACK">>)
  BY <1>4, <1>7 DEF Reached
<1>8. CASE at = "final" /\ Reached(Packets, <<>>)
  BY <1>4, <1>8, PacketsAssumption DEF Reached
<1> QED
  BY <1>2, <1>3, <1>5, <1>6, <1>7, <1>8 DEF InLoop, AtItsEnd

\* Lost and garbled packets are sent again (fvc.c:395-410, Python/main.py:76-93): an update
\* that begins the list fails only when the tool has waited in vain for an erase or a copy.
\* That holds as long as only packets are hit, and no more than the board forgives, if the
\* board forgives fewer than the tool repeats and waits for less time than the tool.
THEOREM PacketsRepaired ==
  ASSUME LimitsFit
  PROVE  Spec => RepairsPackets
<1> DEFINE J == Ground /\ RepairInv
<1>1. Init => J
  BY InitRetry, InitRepair, InitTyped, Parts DEF RetryInv, Ground
<1>2. J /\ [Next]_vars => J'
  <2> SUFFICES ASSUME J, [Next]_vars PROVE J'
    OBVIOUS
  <2>1. Types'
    BY TypeStep, Parts, PartsNext DEF Ground
  <2>2. SilenceInv'
    BY SilenceStep DEF Ground
  <2>3. Bounded'
    BY Faults DEF Ground
  <2>4. RepairInv'
    BY LimitsFit, RepairStep
  <2> QED
    BY <2>1, <2>2, <2>3, <2>4 DEF Ground
<1>3. J /\ [Next]_vars =>
        [Repairable =>
           /\ result'[1] = "failed" => result[1] = "failed" \/ ht = 0
           /\ k = 1 /\ ht' = 0 /\ ht # 0 => bpc \in {"erase", "copy"}]_vars
  <2> SUFFICES ASSUME J, Next, Repairable
               PROVE  /\ result'[1] = "failed" => result[1] = "failed" \/ ht = 0
                      /\ k = 1 /\ ht' = 0 /\ ht # 0 => bpc \in {"erase", "copy"}
    OBVIOUS
  <2> QED
    BY LimitsFit, FailsLate, WaitsLong
<1> HIDE DEF J
<1> QED
  BY <1>1, <1>2, <1>3, PTL DEF Spec, RepairsPackets
=============================================================================
