--------------------------- MODULE ProgramTransfer ---------------------------
(***************************************************************************)
(* A program on its way from the host's file to the board's external       *)
(* flash, byte by byte: the frames of both codecs (Python/fvc_protocol.py, *)
(* FVC/fvc_protocol.c, version 2) with their checksum, the division of the *)
(* program into packets and its addresses in the flash.                    *)
(*                                                                         *)
(* A frame is: SFD, length (2 bytes), source, destination, type, payload,  *)
(* checksum.  The line may hit a frame: change bits that lie close to each *)
(* other.  Loss, time and limits are HostUpdate's.  The sizes of packets,  *)
(* pages and mailbox are parameters.  The HMAC is one byte of the header,  *)
(* different for different programs.                                       *)
(***************************************************************************)
EXTENDS Integers, Sequences, FiniteSets, Functions

CONSTANTS
  BoardId,   \* the board's identity
  Programs,  \* programs the host may send, sequences of bytes
  MaxData,   \* max_data_size and MAX_PROGRAM_DATA_LEN
  Page,      \* the 256 bytes of a page of the flash
  CliLen,    \* CLI_BUFFOR_LEN
  Bursts,    \* what a hit changes in two neighbouring bytes, as a 16-bit number
  MaxHits    \* bound: frames that are hit

VARIABLES
  prog,    \* the file
  offset,  \* what the host has read of it
  packet,  \* type and payload of the frame it sent last
  wire,    \* the bytes on the line
  dir,     \* where they go: "board", "host", or "none" when the line is idle
  at,      \* the transfer: "request", "data", "sent", "done", "failed" or "undefined"
  hit,     \* the frame on the line was hit
  hurt,    \* what was hit so far
  hits,    \* what is left of the bound
  data,    \* program_data
  flash,   \* the external flash, from its start
  got,     \* the bytes that went into hash and HMAC
  counter, count, hmac  \* packets received; what the header says

host  == <<prog, offset, packet>>
board == <<data, flash, got, counter, count, hmac>>
vars  == <<host, wire, dir, at, hit, hurt, hits, board>>

Byte == 0..255
Nack          == 0
Ack           == 1
FatalError    == 2
IdResp        == 4
CliData       == 5
UpdateRequest == 6
ProgramData   == 7
Finished      == 8

SFD   == 171
Const == 7     \* PACKET_CONST_LEN
Erased == 255
Carried == {IdResp, CliData, UpdateRequest, ProgramData}

Quantity(n) == (n + MaxData - 1) \div MaxData

\* A length has two bytes, and a buffer of the mailbox holds the header.
ASSUME SizesAssumption ==
  /\ BoardId \in Byte /\ CliLen \in Nat /\ CliLen >= Const + 9
  /\ MaxData \in Nat /\ MaxData + Const < 256 * 256 /\ Page \in 1..MaxData /\ MaxData % Page = 0

\* One byte tells the programs apart, and four count the packets of each.
ASSUME ProgramsAssumption ==
  /\ Programs \subseteq Seq(Byte) /\ IsFiniteSet(Programs) /\ Cardinality(Programs) <= 255
  /\ \A p \in Programs : Quantity(Len(p)) \div (256 * 256) < 256 * 256

\* A hit changes bits that lie within eight neighbouring ones.
ASSUME BurstsAssumption ==
  Bursts \subseteq {p * w : p \in 1..255, w \in {1, 2, 4, 8, 16, 32, 64, 128, 256}}

-----------------------------------------------------------------------------
(* The checksum: CRC-8 with polynomial x^8+x^5+x^4+1 and start value 0xFF. *)

\* The exclusive or of two bytes: the sum of the weights of the bits that differ.
Xor(a, b) ==
  LET Differ(w) == w * (((a \div w) + (b \div w)) % 2)
  IN  Differ(1) + Differ(2) + Differ(4) + Differ(8)
        + Differ(16) + Differ(32) + Differ(64) + Differ(128)

XorTable == [a \in Byte |-> [b \in Byte |-> Xor(a, b)]]

Shift(c) == IF c >= 128 THEN XorTable[(2 * c) % 256][49] ELSE 2 * c

CrcTable ==
  [b \in Byte |-> LET s[i \in 0..8] == IF i = 0 THEN b ELSE Shift(s[i - 1]) IN s[8]]

\* Of the first n bytes of p.
Hash(p, n) ==
  LET crc[i \in 0..n] == IF i = 0 THEN 255 ELSE CrcTable[XorTable[crc[i - 1]][p[i]]]
  IN  crc[n]

HighLow(n) == <<(n \div 256) % 256, n % 256>>
Length(p)  == 256 * p[2] + p[3]

-----------------------------------------------------------------------------
(* The host's codec and its packets                                        *)

\* Mutant: the length leaves out the checksum.
SerializeShort(type, payload) ==
  LET p == <<SFD>> \o HighLow(Const - 1 + Len(payload)) \o <<0, BoardId, type>> \o payload
  IN  Append(p, Hash(p, Len(p)))

HostSerialize(type, payload) ==
  LET p == <<SFD>> \o HighLow(Const + Len(payload)) \o <<0, BoardId, type>> \o payload
  IN  Append(p, Hash(p, Len(p)))

\* The type of an answer of this board, or -1: a frame that does not start with SFD is
\* skipped, a longer one is waited for, and one that is cut short does not unpack.
HostDeserialize(p) ==
  IF p[1] = SFD /\ Length(p) = Len(p) /\ Hash(p, Len(p)) = 0 /\ p[4] = BoardId THEN p[6] ELSE -1

Long(n) == <<(n \div 16777216) % 256, (n \div 65536) % 256>> \o HighLow(n)

\* hmac_calc: no two programs have the same.
Hmac == CHOOSE f \in Injection(Programs, 1..Cardinality(Programs)) : TRUE

Header == Append(Long(1) \o Long(Quantity(Len(prog))), Hmac[prog])

\* Mutant: packets end before they are full.
ChunkShort ==
  SubSeq(prog, offset + 1, IF offset + MaxData - 1 < Len(prog) THEN offset + MaxData - 1 ELSE Len(prog))

\* Mutant: packets are read one byte too long.
ChunkLong ==
  SubSeq(prog, offset + 1, IF offset + MaxData + 1 < Len(prog) THEN offset + MaxData + 1 ELSE Len(prog))

Chunk == SubSeq(prog, offset + 1, IF offset + MaxData < Len(prog) THEN offset + MaxData ELSE Len(prog))

-----------------------------------------------------------------------------
(* The board's codec                                                       *)

\* A buffer of n bytes that a frame was received into; it was zeroed before.
Buffer(p, n) == [i \in 1..n |-> IF i <= Len(p) THEN p[i] ELSE 0]

BoardSerialize(type) ==
  LET p == <<SFD>> \o HighLow(Const) \o <<BoardId, 0, type>>
  IN  Append(p, Hash(p, Len(p)))

\* A length that the code copies or hashes by, but that does not fit: what follows is not defined.
Undefined(b) ==
  /\ b[1] = SFD
  /\ Length(b) > Len(b) \/ (b[6] \in Carried /\ Length(b) < Const)

\* Mutant: the checksum is not compared.
DeserializesAll(b) == b[1] = SFD

\* The number of bytes received is not looked at: the frame ends where its length says.
Deserializes(b) == b[1] = SFD /\ Hash(b, Length(b)) = 0

Payload(b) == SubSeq(b, Const, Length(b) - 1)

\* Its payload is copied before the frame is checked.
Copied(b, buffer) ==
  IF b[1] = SFD /\ b[6] \in Carried
  THEN [i \in DOMAIN buffer |-> IF i <= Length(b) - Const THEN b[Const - 1 + i] ELSE buffer[i]]
  ELSE buffer

\* _decode_header_data
PacketCount(p) == 16777216 * p[5] + 65536 * p[6] + 256 * p[7] + p[8]

\* The block that is programmed: a packet that is not whole pages is filled up.
Filled(buffer, n) ==
  IF n % Page # 0 THEN [i \in DOMAIN buffer |-> IF i <= n THEN buffer[i] ELSE Erased] ELSE buffer

-----------------------------------------------------------------------------
(* The host                                                                *)

HostSends(type, payload) ==
  /\ packet' = [type |-> type, payload |-> payload]
  /\ wire' = HostSerialize(type, payload) /\ dir' = "board"

Request ==
  /\ at = "request" /\ dir = "none"
  /\ HostSends(UpdateRequest, Header)
  /\ UNCHANGED <<prog, offset, at, hit, hurt, hits, board>>

SendNext ==
  /\ at = "data" /\ dir = "none"
  /\ IF Chunk = <<>>
     THEN at' = "sent" /\ UNCHANGED <<offset, packet, wire, dir>>
     ELSE HostSends(ProgramData, Chunk) /\ offset' = offset + Len(Chunk) /\ UNCHANGED at
  /\ UNCHANGED <<prog, hit, hurt, hits, board>>

LineIdle == dir' = "none" /\ wire' = <<>> /\ hit' = FALSE

Answered ==
  /\ dir = "host" /\ HostDeserialize(wire) = Ack /\ at \in {"request", "data"}
  /\ LineIdle /\ at' = "data"
  /\ UNCHANGED <<host, hurt, hits, board>>

\* Mutant: the packet that was refused is not sent again.
SendNoMore ==
  /\ dir = "host" /\ HostDeserialize(wire) = Nack /\ at = "data"
  /\ LineIdle
  /\ UNCHANGED <<host, at, hurt, hits, board>>

SendAgain ==
  /\ dir = "host" /\ HostDeserialize(wire) = Nack /\ at = "data"
  /\ HostSends(packet.type, packet.payload) /\ hit' = FALSE
  /\ UNCHANGED <<prog, offset, at, hurt, hits, board>>

Conclude ==
  /\ dir = "host" /\ HostDeserialize(wire) = Finished /\ at = "sent"
  /\ LineIdle /\ at' = "done"
  /\ UNCHANGED <<host, hurt, hits, board>>

\* Any other answer, or none in time.
Fail ==
  /\ dir = "host"
  /\ HostDeserialize(wire) \notin
       (CASE at = "request" -> {Ack} [] at = "data" -> {Ack, Nack} [] OTHER -> {Finished})
  /\ LineIdle /\ at' = "failed"
  /\ UNCHANGED <<host, hurt, hits, board>>

-----------------------------------------------------------------------------
(* The line                                                                *)

Field(i) == IF dir = "host" THEN "answer"
            ELSE IF i \in 1..3 THEN "length"
            ELSE IF at = "request" THEN "request" ELSE "data"

Hit ==
  /\ dir # "none" /\ ~hit /\ hits > 0
  /\ \E i \in 1..(Len(wire) - 1), x \in Bursts :
       /\ wire' = [wire EXCEPT ![i] = XorTable[@][x \div 256], ![i + 1] = XorTable[@][x % 256]]
       /\ hurt' = hurt \cup {Field(i)}
  /\ hit' = TRUE /\ hits' = hits - 1
  /\ UNCHANGED <<host, dir, at, board>>

-----------------------------------------------------------------------------
(* The board                                                               *)

Respond(type) == wire' = BoardSerialize(type) /\ dir' = "host" /\ hit' = FALSE

ReceiveRequest ==
  LET b == Buffer(wire, CliLen) IN
  /\ at = "request" /\ dir = "board" /\ ~Undefined(b)
  /\ IF Deserializes(b) /\ b[6] = UpdateRequest
     THEN /\ LET header == Copied(b, Buffer(<<>>, CliLen))
             IN  count' = PacketCount(header) /\ hmac' = header[9]
          /\ counter' = 0 /\ got' = <<>> /\ flash' = <<>>
          /\ data' = [i \in 1..MaxData |-> 0]
          /\ Respond(Ack)
     ELSE Respond(Nack) /\ UNCHANGED board
  /\ UNCHANGED <<host, at, hurt, hits>>

ReceiveData ==
  LET b == Buffer(wire, MaxData + Const)  n == Length(b) - Const IN
  /\ at = "data" /\ dir = "board" /\ counter < count /\ ~Undefined(b)
  /\ data' = Copied(b, data)
  /\ IF Deserializes(b) /\ b[5] = BoardId /\ b[6] = ProgramData /\ n > 0
     THEN /\ got' = got \o SubSeq(data', 1, n)
          /\ flash' = flash \o Filled(data', n)
          /\ counter' = counter + 1
          /\ Respond(Ack)
     ELSE Respond(Nack) /\ UNCHANGED <<got, flash, counter>>
  /\ UNCHANGED <<host, at, hurt, hits, count, hmac>>

\* The board was told of fewer packets than the host has: it has answered the last one twice,
\* with the error that its HMAC does not match.
ReceiveNoMore ==
  /\ at = "data" /\ dir = "board" /\ counter = count
  /\ Respond(FatalError)
  /\ UNCHANGED <<host, at, hurt, hits, board>>

ReceiveUndefined ==
  /\ dir = "board" /\ (at = "data" => counter < count)
  /\ Undefined(Buffer(wire, IF at = "request" THEN CliLen ELSE MaxData + Const))
  /\ LineIdle /\ at' = "undefined"
  /\ UNCHANGED <<host, hurt, hits, board>>

\* The HMACs are compared; the copy that follows is Fvc's.  A board that expects more packets
\* goes on to wait for them.
Check ==
  /\ at = "sent" /\ dir = "none"
  /\ Respond(IF counter = count /\ got \in Programs /\ Hmac[got] = hmac THEN Finished ELSE FatalError)
  /\ UNCHANGED <<host, at, hurt, hits, board>>

-----------------------------------------------------------------------------

Init ==
  /\ prog \in Programs /\ offset = 0 /\ packet = [type |-> Nack, payload |-> <<>>]
  /\ wire = <<>> /\ dir = "none" /\ at = "request"
  /\ hit = FALSE /\ hurt = {} /\ hits = MaxHits
  /\ data = [i \in 1..MaxData |-> 0] /\ flash = <<>> /\ got = <<>> /\ counter = 0 /\ count = 0 /\ hmac = 0

Next ==
  \/ Request \/ SendNext \/ Answered \/ SendAgain \/ Conclude \/ Fail
  \/ Hit
  \/ ReceiveRequest \/ ReceiveData \/ ReceiveNoMore \/ ReceiveUndefined \/ Check

Spec == Init /\ [][Next]_vars

-----------------------------------------------------------------------------
(* Properties                                                              *)

\* Everything on the line and in the memories is a byte, and nothing outgrows its buffer.
TypeOK ==
  /\ wire \in Seq(Byte) /\ Len(wire) <= (IF at = "request" THEN CliLen ELSE MaxData + Const)
  /\ data \in [1..MaxData -> Byte]
  /\ at \in {"request", "data", "sent", "done", "failed", "undefined"}
  /\ dir \in {"none", "board", "host"} /\ counter <= count

\* The buffer that the board checks the frame in.
Checked == Buffer(wire, IF at = "request" THEN CliLen ELSE MaxData + Const)

\* What one side serialises is what the other takes from it: type, destination and payload.
FramesAgree ==
  dir = "board" /\ ~hit =>
    /\ ~Undefined(Checked) /\ Deserializes(Checked)
    /\ Checked[5] = BoardId /\ Checked[6] = packet.type /\ Payload(Checked) = packet.payload

\* A frame that was hit is refused, by either side, unless its length now ends it early.
DamageIsRefused ==
  hit => \/ dir = "host" /\ HostDeserialize(wire) = -1
         \/ dir = "board" /\ Undefined(Checked)
         \/ dir = "board" /\ Length(Checked) < Len(wire)
         \/ dir = "board" /\ ~Deserializes(Checked)

\* When the host is told of the end, the flash holds the program from its first byte on, each
\* packet where the copy will look for it: also when packets were repaired, or hit unnoticed.
FlashHoldsProgram ==
  at = "done" => /\ Len(flash) >= Len(prog) /\ SubSeq(flash, 1, Len(prog)) = prog
                 /\ count = Quantity(Len(prog))

\* A hit that begins behind a data packet's length never makes the transfer fail.
DataIsRepaired == at \in {"failed", "undefined"} => ~(hurt \subseteq {"data"})
=============================================================================
