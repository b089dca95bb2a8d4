------------------------ MODULE ProgramTransferProofs ------------------------
(***************************************************************************)
(* Proofs about ProgramTransfer, in four parts: the checksum (exclusive    *)
(* or, table and hash), the frames of both codecs and what a hit does to   *)
(* them, the way of the program from the file into the flash, and the      *)
(* theorems.                                                               *)
(***************************************************************************)
EXTENDS ProgramTransfer, FiniteSetTheorems, FunctionTheorems, SequenceTheorems,
        WellFoundedInduction, TLAPS

-----------------------------------------------------------------------------
(* Induction, as a fact about sets of naturals                             *)

LEMMA NatLess == IsWellFoundedOn({ss \in Nat \X Nat : ss[1] < ss[2]}, Nat)
<1>1. OpToRel(<, Nat) = {ss \in Nat \X Nat : ss[1] < ss[2]}
  BY Zenon DEF OpToRel
<1>. QED
  BY <1>1, NatLessThanWellFounded, Zenon

LEMMA Least ==
  ASSUME NEW T, T \subseteq Nat, T # {}
  PROVE  \E x \in T : \A y \in T : x <= y
<1>. DEFINE R == {ss \in Nat \X Nat : ss[1] < ss[2]}
<1>1. PICK x \in T : \A y \in T : ~ (<<y, x>> \in R)
  BY NatLess, WFMin, Zenon
<1>2. \A y \in T : ~ (y < x)
  BY <1>1
<1>. QED
  BY <1>2

LEMMA Induct ==
  ASSUME NEW S, 0 \in S, \A n \in Nat : n \in S => n + 1 \in S
  PROVE  \A n \in Nat : n \in S
<1>1. SUFFICES ASSUME Nat \ S # {} PROVE FALSE
  OBVIOUS
<1>2. PICK x \in Nat \ S : \A y \in Nat \ S : x <= y
  BY <1>1, Least
<1>3. x - 1 \in Nat /\ x - 1 \notin Nat \ S
  BY <1>2
<1>. QED
  BY <1>2, <1>3

-----------------------------------------------------------------------------
(* The checksum: exclusive or                                              *)

LEMMA Bytes == Byte = 0..255
  BY DEF Byte

LEMMA ByteNat == \A c \in Byte : c \in Nat /\ c <= 255
  BY DEF Byte

\* The bits of a byte, and a byte from its bits.
Bit(a, w) == (a \div w) % 2

LEMMA FromBits ==
  ASSUME NEW a \in Byte
  PROVE  a = Bit(a, 1) + 2 * Bit(a, 2) + 4 * Bit(a, 4) + 8 * Bit(a, 8) + 16 * Bit(a, 16)
               + 32 * Bit(a, 32) + 64 * Bit(a, 64) + 128 * Bit(a, 128)
  BY DEF Byte, Bit

LEMMA SumBits ==
  ASSUME NEW a, NEW b1 \in {0, 1}, NEW b2 \in {0, 1}, NEW b4 \in {0, 1}, NEW b8 \in {0, 1},
         NEW b16 \in {0, 1}, NEW b32 \in {0, 1}, NEW b64 \in {0, 1}, NEW b128 \in {0, 1},
         a = b1 + 2 * b2 + 4 * b4 + 8 * b8 + 16 * b16 + 32 * b32 + 64 * b64 + 128 * b128
  PROVE  /\ a \in Byte
         /\ Bit(a, 1) = b1 /\ Bit(a, 2) = b2 /\ Bit(a, 4) = b4 /\ Bit(a, 8) = b8
         /\ Bit(a, 16) = b16 /\ Bit(a, 32) = b32 /\ Bit(a, 64) = b64 /\ Bit(a, 128) = b128
<1>1. a \in Byte
  BY DEF Byte
<1>2. Bit(a, 1) = b1
  BY DEF Bit
<1>3. Bit(a, 2) = b2
  BY DEF Bit
<1>4. Bit(a, 4) = b4
  BY DEF Bit
<1>5. Bit(a, 8) = b8
  BY DEF Bit
<1>6. Bit(a, 16) = b16
  BY DEF Bit
<1>7. Bit(a, 32) = b32
  BY DEF Bit
<1>8. Bit(a, 64) = b64
  BY DEF Bit
<1>9. Bit(a, 128) = b128
  BY DEF Bit
<1>. QED
  BY <1>1, <1>2, <1>3, <1>4, <1>5, <1>6, <1>7, <1>8, <1>9

Weights == {1, 2, 4, 8, 16, 32, 64, 128}

LEMMA BitType ==
  ASSUME NEW a \in Byte, NEW w \in Weights
  PROVE  Bit(a, w) \in {0, 1}
  BY DEF Byte, Bit, Weights

\* Of two bits.
Differ(x, y) == (x + y) % 2

LEMMA DifferBits ==
  ASSUME NEW a \in Byte, NEW b \in Byte, NEW w \in Weights
  PROVE  /\ ((a \div w) + (b \div w)) % 2 = Differ(Bit(a, w), Bit(b, w))
         /\ Differ(Bit(a, w), Bit(b, w)) \in {0, 1}
  BY DEF Byte, Bit, Weights, Differ

LEMMA XorBits ==
  ASSUME NEW a \in Byte, NEW b \in Byte
  PROVE  /\ Xor(a, b) \in Byte
         /\ \A w \in Weights : Bit(Xor(a, b), w) = Differ(Bit(a, w), Bit(b, w))
<1>. DEFINE D(w) == Differ(Bit(a, w), Bit(b, w))
<1>1. \A w \in Weights : ((a \div w) + (b \div w)) % 2 = D(w) /\ D(w) \in {0, 1}
  BY DifferBits
<1>2. Xor(a, b) = 1 * D(1) + 2 * D(2) + 4 * D(4) + 8 * D(8)
                    + 16 * D(16) + 32 * D(32) + 64 * D(64) + 128 * D(128)
  BY <1>1 DEF Xor, Weights
<1>. HIDE DEF D
<1>3. /\ D(1) \in {0, 1} /\ D(2) \in {0, 1} /\ D(4) \in {0, 1} /\ D(8) \in {0, 1}
      /\ D(16) \in {0, 1} /\ D(32) \in {0, 1} /\ D(64) \in {0, 1} /\ D(128) \in {0, 1}
  BY <1>1 DEF Weights
<1>4. Xor(a, b) = D(1) + 2 * D(2) + 4 * D(4) + 8 * D(8)
                    + 16 * D(16) + 32 * D(32) + 64 * D(64) + 128 * D(128)
  BY <1>2, <1>3
<1>5. /\ Xor(a, b) \in Byte
      /\ Bit(Xor(a, b), 1) = D(1) /\ Bit(Xor(a, b), 2) = D(2)
      /\ Bit(Xor(a, b), 4) = D(4) /\ Bit(Xor(a, b), 8) = D(8)
      /\ Bit(Xor(a, b), 16) = D(16) /\ Bit(Xor(a, b), 32) = D(32)
      /\ Bit(Xor(a, b), 64) = D(64) /\ Bit(Xor(a, b), 128) = D(128)
  BY <1>3, <1>4, SumBits
<1>. QED
  BY <1>5 DEF Weights, D

LEMMA SameBits ==
  ASSUME NEW a \in Byte, NEW b \in Byte, \A w \in Weights : Bit(a, w) = Bit(b, w)
  PROVE  a = b
<1>1. /\ Bit(a, 1) = Bit(b, 1) /\ Bit(a, 2) = Bit(b, 2) /\ Bit(a, 4) = Bit(b, 4)
      /\ Bit(a, 8) = Bit(b, 8) /\ Bit(a, 16) = Bit(b, 16) /\ Bit(a, 32) = Bit(b, 32)
      /\ Bit(a, 64) = Bit(b, 64) /\ Bit(a, 128) = Bit(b, 128)
  BY DEF Weights
<1>. QED
  BY <1>1, FromBits, Zenon

LEMMA DifferLaws ==
  ASSUME NEW x \in {0, 1}, NEW y \in {0, 1}, NEW z \in {0, 1}
  PROVE  /\ Differ(x, y) \in {0, 1} /\ Differ(x, y) = Differ(y, x)
         /\ Differ(x, 0) = x /\ Differ(x, x) = 0
         /\ Differ(Differ(x, y), z) = Differ(x, Differ(y, z))
  BY DEF Differ

LEMMA XorByte ==
  ASSUME NEW a \in Byte, NEW b \in Byte
  PROVE  Xor(a, b) \in Byte /\ XorTable[a][b] = Xor(a, b)
  BY XorBits DEF XorTable

LEMMA XorComm ==
  ASSUME NEW a \in Byte, NEW b \in Byte
  PROVE  Xor(a, b) = Xor(b, a)
<1>1. \A w \in Weights : Bit(Xor(a, b), w) = Bit(Xor(b, a), w)
  BY XorBits, BitType, DifferLaws
<1>. QED
  BY <1>1, SameBits, XorBits

LEMMA ZeroBits ==
  0 \in Byte /\ \A w \in Weights : Bit(0, w) = 0
  BY DEF Byte, Bit, Weights

LEMMA XorZero ==
  ASSUME NEW a \in Byte
  PROVE  Xor(a, 0) = a /\ Xor(0, a) = a
<1>1. \A w \in Weights : Bit(Xor(a, 0), w) = Bit(a, w)
  BY XorBits, BitType, DifferLaws, ZeroBits
<1>. QED
  BY <1>1, SameBits, XorBits, ZeroBits, XorComm

LEMMA XorSelf ==
  ASSUME NEW a \in Byte
  PROVE  Xor(a, a) = 0
<1>1. \A w \in Weights : Bit(Xor(a, a), w) = Bit(0, w)
  BY XorBits, BitType, DifferLaws, ZeroBits
<1>. QED
  BY <1>1, SameBits, XorBits, ZeroBits

LEMMA XorAssoc ==
  ASSUME NEW a \in Byte, NEW b \in Byte, NEW c \in Byte
  PROVE  Xor(Xor(a, b), c) = Xor(a, Xor(b, c))
<1>1. Xor(a, b) \in Byte /\ Xor(b, c) \in Byte
  BY XorBits
<1>2. Xor(Xor(a, b), c) \in Byte /\ Xor(a, Xor(b, c)) \in Byte
  BY <1>1, XorBits
<1>3. ASSUME NEW w \in Weights
      PROVE  Bit(Xor(Xor(a, b), c), w) = Bit(Xor(a, Xor(b, c)), w)
  <2>1. Bit(Xor(Xor(a, b), c), w) = Differ(Differ(Bit(a, w), Bit(b, w)), Bit(c, w))
    BY <1>1, XorBits
  <2>2. Bit(Xor(a, Xor(b, c)), w) = Differ(Bit(a, w), Differ(Bit(b, w), Bit(c, w)))
    BY <1>1, XorBits
  <2>. QED
    BY <2>1, <2>2, BitType, DifferLaws
<1>. QED
  BY <1>2, <1>3, SameBits

\* Two bytes are equal if the exclusive or with one more is.
LEMMA XorCancel ==
  ASSUME NEW a \in Byte, NEW b \in Byte, NEW c \in Byte, Xor(a, c) = Xor(b, c)
  PROVE  a = b
<1>1. Xor(Xor(a, c), c) = a /\ Xor(Xor(b, c), c) = b
  BY XorAssoc, XorSelf, XorZero
<1>. QED
  BY <1>1

LEMMA XorIsZero ==
  ASSUME NEW a \in Byte, NEW b \in Byte, Xor(a, b) = 0
  PROVE  a = b
  BY XorSelf, XorCancel

LEMMA XorSwap ==
  ASSUME NEW a \in Byte, NEW b \in Byte, NEW c \in Byte, NEW d \in Byte
  PROVE  Xor(Xor(a, b), Xor(c, d)) = Xor(Xor(a, c), Xor(b, d))
<1>1. /\ Xor(a, b) \in Byte /\ Xor(c, d) \in Byte /\ Xor(b, d) \in Byte
      /\ Xor(b, Xor(c, d)) \in Byte
  BY XorBits
<1>2. Xor(Xor(a, b), Xor(c, d)) = Xor(a, Xor(b, Xor(c, d)))
  BY <1>1, XorAssoc
<1>3. Xor(b, Xor(c, d)) = Xor(c, Xor(b, d))
  BY XorAssoc, XorComm
<1>4. Xor(Xor(a, c), Xor(b, d)) = Xor(a, Xor(c, Xor(b, d)))
  BY <1>1, XorAssoc
<1>. QED
  BY <1>2, <1>3, <1>4

-----------------------------------------------------------------------------
(* The checksum: the table                                                 *)

Double(a) == (2 * a) % 256

LEMMA DoubleBits ==
  ASSUME NEW a \in Byte
  PROVE  /\ Double(a) \in Byte
         /\ Bit(Double(a), 1) = 0
         /\ Bit(Double(a), 2) = Bit(a, 1) /\ Bit(Double(a), 4) = Bit(a, 2)
         /\ Bit(Double(a), 8) = Bit(a, 4) /\ Bit(Double(a), 16) = Bit(a, 8)
         /\ Bit(Double(a), 32) = Bit(a, 16) /\ Bit(Double(a), 64) = Bit(a, 32)
         /\ Bit(Double(a), 128) = Bit(a, 64)
  BY DEF Byte, Bit, Double

LEMMA DoubleXor ==
  ASSUME NEW a \in Byte, NEW b \in Byte
  PROVE  Double(Xor(a, b)) = Xor(Double(a), Double(b))
<1>1. Xor(a, b) \in Byte /\ Double(a) \in Byte /\ Double(b) \in Byte
  BY XorBits, DoubleBits
<1>2. Double(Xor(a, b)) \in Byte /\ Xor(Double(a), Double(b)) \in Byte
  BY <1>1, XorBits, DoubleBits
<1>3. \A w \in Weights : Bit(Xor(a, b), w) = Differ(Bit(a, w), Bit(b, w))
  BY XorBits
<1>4. \A w \in Weights :
        Bit(Xor(Double(a), Double(b)), w) = Differ(Bit(Double(a), w), Bit(Double(b), w))
  BY <1>1, XorBits
<1>5. Differ(0, 0) = 0
  BY DEF Differ
<1>6. \A w \in Weights : Bit(Double(Xor(a, b)), w) = Bit(Xor(Double(a), Double(b)), w)
  BY <1>1, <1>3, <1>4, <1>5, DoubleBits DEF Weights
<1>. QED
  BY <1>2, <1>6, SameBits

LEMMA TopBit ==
  ASSUME NEW a \in Byte
  PROVE  /\ a >= 128 <=> Bit(a, 128) = 1
         /\ Bit(a, 128) \in {0, 1}
         /\ a < 128 => Double(a) = 2 * a
  BY DEF Byte, Bit, Double

LEMMA ShiftIs ==
  ASSUME NEW a \in Byte
  PROVE  /\ Shift(a) \in Byte /\ Double(a) \in Byte /\ 49 \in Byte
         /\ Bit(a, 128) = 1 => Shift(a) = Xor(Double(a), 49)
         /\ Bit(a, 128) = 0 => Shift(a) = Double(a)
         /\ a < 128 => Shift(a) = 2 * a
<1>0. 49 \in Byte
  BY DEF Byte
<1>1. Double(a) \in Byte /\ 49 \in Byte
  BY <1>0, DoubleBits
<1>2. XorTable[(2 * a) % 256][49] = Xor(Double(a), 49)
  BY <1>1, XorByte DEF Double
<1>3. CASE a >= 128
  <2>1. Shift(a) = Xor(Double(a), 49) /\ Xor(Double(a), 49) \in Byte
    BY <1>1, <1>2, <1>3, XorBits DEF Shift
  <2>. QED
    BY <1>1, <1>3, <2>1, TopBit, Bytes
<1>4. CASE ~ (a >= 128)
  <2>1. Shift(a) = 2 * a
    BY <1>4 DEF Shift
  <2>. QED
    BY <1>1, <1>4, <2>1, TopBit, Bytes
<1>. QED
  BY <1>3, <1>4

LEMMA ShiftXor ==
  ASSUME NEW a \in Byte, NEW b \in Byte
  PROVE  Shift(Xor(a, b)) = Xor(Shift(a), Shift(b))
<1>. DEFINE c == Xor(a, b)
<1>1. c \in Byte /\ Double(a) \in Byte /\ Double(b) \in Byte /\ 49 \in Byte
  BY XorBits, ShiftIs
<1>2. Double(c) = Xor(Double(a), Double(b)) /\ Double(c) \in Byte
  BY <1>1, DoubleXor, DoubleBits
<1>3. Bit(c, 128) = Differ(Bit(a, 128), Bit(b, 128))
  BY XorBits DEF Weights
<1>. HIDE DEF c
<1>4. CASE Bit(a, 128) = 0 /\ Bit(b, 128) = 0
  <2>1. Bit(c, 128) = 0
    BY <1>3, <1>4 DEF Differ
  <2>. QED
    BY <1>1, <1>2, <1>4, <2>1, ShiftIs DEF c
<1>5. CASE Bit(a, 128) = 1 /\ Bit(b, 128) = 0
  <2>1. Bit(c, 128) = 1
    BY <1>3, <1>5 DEF Differ
  <2>2. Xor(Xor(Double(a), Double(b)), 49) = Xor(Xor(Double(a), 49), Double(b))
    BY <1>1, XorAssoc, XorComm
  <2>. QED
    BY <1>1, <1>2, <1>5, <2>1, <2>2, ShiftIs DEF c
<1>6. CASE Bit(a, 128) = 0 /\ Bit(b, 128) = 1
  <2>1. Bit(c, 128) = 1
    BY <1>3, <1>6 DEF Differ
  <2>2. Xor(Xor(Double(a), Double(b)), 49) = Xor(Double(a), Xor(Double(b), 49))
    BY <1>1, XorAssoc
  <2>. QED
    BY <1>1, <1>2, <1>6, <2>1, <2>2, ShiftIs DEF c
<1>7. CASE Bit(a, 128) = 1 /\ Bit(b, 128) = 1
  <2>1. Bit(c, 128) = 0
    BY <1>3, <1>7 DEF Differ
  <2>2. Xor(Xor(Double(a), 49), Xor(Double(b), 49)) = Xor(Xor(Double(a), Double(b)), Xor(49, 49))
    BY <1>1, XorSwap
  <2>3. Xor(49, 49) = 0
    BY <1>1, XorSelf
  <2>4. Xor(Double(c), 0) = Double(c)
    BY <1>2, XorZero
  <2>. QED
    BY <1>1, <1>2, <1>7, <2>1, <2>2, <2>3, <2>4, ShiftIs DEF c
<1>. QED
  BY <1>4, <1>5, <1>6, <1>7, TopBit

LEMMA ShiftZero ==
  /\ Shift(0) = 0
  /\ \A c \in Byte : Shift(c) = 0 => c = 0
<1>1. Shift(0) = 0
  BY DEF Shift
<1>2. ASSUME NEW c \in Byte, Shift(c) = 0
      PROVE  c = 0
  <2>1. CASE c < 128
    <3>1. 2 * c = 0
      BY <1>2, <2>1, ShiftIs
    <3>. QED
      BY <3>1, Bytes
  <2>2. CASE ~ (c < 128)
    <3>0. Bit(c, 128) = 1
      BY <2>2, TopBit, Bytes
    <3>1. Xor(Double(c), 49) = 0 /\ Double(c) \in Byte /\ 49 \in Byte
      BY <1>2, <3>0, ShiftIs
    <3>2. Double(c) = 49
      BY <3>1, XorIsZero
    <3>. QED
      BY <3>2, Bytes DEF Double
  <2>. QED
    BY <2>1, <2>2
<1>. QED
  BY <1>1, <1>2

LEMMA ShiftInjective ==
  ASSUME NEW a \in Byte, NEW b \in Byte, Shift(a) = Shift(b)
  PROVE  a = b
<1>1. Xor(a, b) \in Byte /\ Shift(a) \in Byte
  BY XorBits, ShiftIs
<1>2. Shift(Xor(a, b)) = 0
  BY <1>1, ShiftXor, XorSelf
<1>. QED
  BY <1>1, <1>2, ShiftZero, XorIsZero

\* Two to eight steps of the computation of an entry.
Shift2(b) == Shift(Shift(b))
Shift3(b) == Shift(Shift2(b))
Shift4(b) == Shift(Shift3(b))
Shift5(b) == Shift(Shift4(b))
Shift6(b) == Shift(Shift5(b))
Shift7(b) == Shift(Shift6(b))
Shift8(b) == Shift(Shift7(b))

LEMMA ShiftsByte ==
  ASSUME NEW b \in Byte
  PROVE  /\ Shift(b) \in Byte /\ Shift2(b) \in Byte /\ Shift3(b) \in Byte /\ Shift4(b) \in Byte
         /\ Shift5(b) \in Byte /\ Shift6(b) \in Byte /\ Shift7(b) \in Byte /\ Shift8(b) \in Byte
<1>1. Shift(b) \in Byte
  BY ShiftIs
<1>2. Shift2(b) \in Byte
  BY <1>1, ShiftIs DEF Shift2
<1>3. Shift3(b) \in Byte
  BY <1>2, ShiftIs DEF Shift3
<1>4. Shift4(b) \in Byte
  BY <1>3, ShiftIs DEF Shift4
<1>5. Shift5(b) \in Byte
  BY <1>4, ShiftIs DEF Shift5
<1>6. Shift6(b) \in Byte
  BY <1>5, ShiftIs DEF Shift6
<1>7. Shift7(b) \in Byte
  BY <1>6, ShiftIs DEF Shift7
<1>8. Shift8(b) \in Byte
  BY <1>7, ShiftIs DEF Shift8
<1>. QED
  BY <1>1, <1>2, <1>3, <1>4, <1>5, <1>6, <1>7, <1>8

\* The recursive function of an entry is the eightfold step.
LEMMA TableIs ==
  ASSUME NEW b \in Byte
  PROVE  CrcTable[b] = Shift8(b) /\ CrcTable[b] \in Byte
<1>. DEFINE body(s) == [i \in 0..8 |-> IF i = 0 THEN b ELSE Shift(s[i - 1])]
            f == [i \in 0..8 |->
                   IF i = 0 THEN b ELSE IF i = 1 THEN Shift(b) ELSE IF i = 2 THEN Shift2(b)
                   ELSE IF i = 3 THEN Shift3(b) ELSE IF i = 4 THEN Shift4(b)
                   ELSE IF i = 5 THEN Shift5(b) ELSE IF i = 6 THEN Shift6(b)
                   ELSE IF i = 7 THEN Shift7(b) ELSE Shift8(b)]
            h == CHOOSE s : s = body(s)
<1>1. f = body(f)
  <2>1. /\ f[0] = b /\ f[1] = Shift(b) /\ f[2] = Shift2(b) /\ f[3] = Shift3(b)
        /\ f[4] = Shift4(b) /\ f[5] = Shift5(b) /\ f[6] = Shift6(b) /\ f[7] = Shift7(b)
        /\ f[8] = Shift8(b)
    OBVIOUS
  <2>2. f = [i \in 0..8 |-> f[i]]
    OBVIOUS
  <2>. HIDE DEF f
  <2>3. \A i \in 0..8 : f[i] = IF i = 0 THEN b ELSE Shift(f[i - 1])
    <3>1. \A i \in 0..8 : i = 0 \/ i = 1 \/ i = 2 \/ i = 3 \/ i = 4 \/ i = 5 \/ i = 6
                            \/ i = 7 \/ i = 8
      OBVIOUS
    <3>. QED
      BY <2>1, <3>1 DEF Shift2, Shift3, Shift4, Shift5, Shift6, Shift7, Shift8
  <2>. QED
    BY <2>2, <2>3
<1>. HIDE DEF f
<1>2. h = body(h)
  BY <1>1, Zenon
<1>3. CrcTable[b] = h[8]
  BY Zenon DEF CrcTable
<1>. HIDE DEF h
<1>4. /\ h[0] = b /\ h[1] = Shift(h[0]) /\ h[2] = Shift(h[1]) /\ h[3] = Shift(h[2])
      /\ h[4] = Shift(h[3]) /\ h[5] = Shift(h[4]) /\ h[6] = Shift(h[5]) /\ h[7] = Shift(h[6])
      /\ h[8] = Shift(h[7])
  BY <1>2
<1>5. h[8] = Shift8(b)
  BY <1>4, Zenon DEF Shift2, Shift3, Shift4, Shift5, Shift6, Shift7, Shift8
<1>. QED
  BY <1>3, <1>5, ShiftsByte

LEMMA TableXor ==
  ASSUME NEW a \in Byte, NEW b \in Byte
  PROVE  CrcTable[Xor(a, b)] = Xor(CrcTable[a], CrcTable[b])
<1>1. Xor(a, b) \in Byte
  BY XorBits
<1>2. Shift2(Xor(a, b)) = Xor(Shift2(a), Shift2(b))
  BY ShiftXor, ShiftsByte DEF Shift2
<1>3. Shift3(Xor(a, b)) = Xor(Shift3(a), Shift3(b))
  BY <1>2, ShiftXor, ShiftsByte DEF Shift3
<1>4. Shift4(Xor(a, b)) = Xor(Shift4(a), Shift4(b))
  BY <1>3, ShiftXor, ShiftsByte DEF Shift4
<1>5. Shift5(Xor(a, b)) = Xor(Shift5(a), Shift5(b))
  BY <1>4, ShiftXor, ShiftsByte DEF Shift5
<1>6. Shift6(Xor(a, b)) = Xor(Shift6(a), Shift6(b))
  BY <1>5, ShiftXor, ShiftsByte DEF Shift6
<1>7. Shift7(Xor(a, b)) = Xor(Shift7(a), Shift7(b))
  BY <1>6, ShiftXor, ShiftsByte DEF Shift7
<1>8. Shift8(Xor(a, b)) = Xor(Shift8(a), Shift8(b))
  BY <1>7, ShiftXor, ShiftsByte DEF Shift8
<1>. QED
  BY <1>1, <1>8, TableIs

\* Up to eight steps lose nothing.
LEMMA ShiftsInjective ==
  ASSUME NEW a \in Byte, NEW b \in Byte
  PROVE  /\ Shift(a) = Shift(b) => a = b
         /\ Shift2(a) = Shift2(b) => a = b
         /\ Shift3(a) = Shift3(b) => a = b
         /\ Shift4(a) = Shift4(b) => a = b
         /\ Shift5(a) = Shift5(b) => a = b
         /\ Shift6(a) = Shift6(b) => a = b
         /\ Shift7(a) = Shift7(b) => a = b
         /\ Shift8(a) = Shift8(b) => a = b
<1>1. Shift(a) = Shift(b) => a = b
  BY ShiftInjective
<1>2. Shift2(a) = Shift2(b) => a = b
  BY <1>1, ShiftInjective, ShiftsByte DEF Shift2
<1>3. Shift3(a) = Shift3(b) => a = b
  BY <1>2, ShiftInjective, ShiftsByte DEF Shift3
<1>4. Shift4(a) = Shift4(b) => a = b
  BY <1>3, ShiftInjective, ShiftsByte DEF Shift4
<1>5. Shift5(a) = Shift5(b) => a = b
  BY <1>4, ShiftInjective, ShiftsByte DEF Shift5
<1>6. Shift6(a) = Shift6(b) => a = b
  BY <1>5, ShiftInjective, ShiftsByte DEF Shift6
<1>7. Shift7(a) = Shift7(b) => a = b
  BY <1>6, ShiftInjective, ShiftsByte DEF Shift7
<1>8. Shift8(a) = Shift8(b) => a = b
  BY <1>7, ShiftInjective, ShiftsByte DEF Shift8
<1>. QED
  BY <1>1, <1>2, <1>3, <1>4, <1>5, <1>6, <1>7, <1>8

\* As long as no bit is shifted out, a step doubles.
LEMMA ShiftsDouble ==
  ASSUME NEW a \in Byte
  PROVE  /\ a < 128 => Shift(a) = 2 * a
         /\ a < 64 => Shift2(a) = 4 * a
         /\ a < 32 => Shift3(a) = 8 * a
         /\ a < 16 => Shift4(a) = 16 * a
         /\ a < 8 => Shift5(a) = 32 * a
         /\ a < 4 => Shift6(a) = 64 * a
         /\ a < 2 => Shift7(a) = 128 * a
         /\ a < 1 => Shift8(a) = 0
<1>1. \A c \in Byte : c < 128 => Shift(c) = 2 * c
  BY ShiftIs
<1>2. a < 64 => Shift2(a) = 4 * a
  BY <1>1 DEF Shift2, Byte
<1>3. a < 32 => Shift3(a) = 8 * a
  BY <1>1, <1>2 DEF Shift3, Byte
<1>4. a < 16 => Shift4(a) = 16 * a
  BY <1>1, <1>3 DEF Shift4, Byte
<1>5. a < 8 => Shift5(a) = 32 * a
  BY <1>1, <1>4 DEF Shift5, Byte
<1>6. a < 4 => Shift6(a) = 64 * a
  BY <1>1, <1>5 DEF Shift6, Byte
<1>7. a < 2 => Shift7(a) = 128 * a
  BY <1>1, <1>6 DEF Shift7, Byte
<1>8. a < 1 => Shift8(a) = 0
  BY <1>1, <1>7 DEF Shift8, Byte
<1>. QED
  BY <1>1, <1>2, <1>3, <1>4, <1>5, <1>6, <1>7, <1>8

LEMMA TableZero ==
  CrcTable[0] = 0 /\ \A c \in Byte : CrcTable[c] = 0 => c = 0
<1>1. 0 \in Byte
  BY DEF Byte
<1>2. Shift8(0) = 0
  BY <1>1, ShiftsDouble
<1>. QED
  BY <1>1, <1>2, TableIs, ShiftsInjective

LEMMA TableInjective ==
  ASSUME NEW a \in Byte, NEW b \in Byte, CrcTable[a] = CrcTable[b]
  PROVE  a = b
  BY TableIs, ShiftsInjective

\* What a hit changes in two neighbouring bytes never cancels out: the second byte of a burst
\* is not what the checksum makes of the first.
BurstSet == {p * w : p \in 1..255, w \in {1, 2, 4, 8, 16, 32, 64, 128, 256}}

LEMMA BurstIs ==
  ASSUME NEW x \in BurstSet
  PROVE  \E p \in 1..255 : \/ x = p * 1 \/ x = p * 2 \/ x = p * 4 \/ x = p * 8 \/ x = p * 16
                           \/ x = p * 32 \/ x = p * 64 \/ x = p * 128 \/ x = p * 256
<1>1. PICK p \in 1..255, w \in {1, 2, 4, 8, 16, 32, 64, 128, 256} : x = p * w
  BY DEF BurstSet
<1>2. \/ x = p * 1 \/ x = p * 2 \/ x = p * 4 \/ x = p * 8 \/ x = p * 16
      \/ x = p * 32 \/ x = p * 64 \/ x = p * 128 \/ x = p * 256
  BY <1>1
<1>. QED
  BY <1>2, Zenon

LEMMA BurstBytes ==
  ASSUME NEW x \in BurstSet
  PROVE  x \in Nat /\ x \div 256 \in Byte /\ x % 256 \in Byte
<1>1. PICK p \in 1..255 : \/ x = p * 1 \/ x = p * 2 \/ x = p * 4 \/ x = p * 8 \/ x = p * 16
                          \/ x = p * 32 \/ x = p * 64 \/ x = p * 128 \/ x = p * 256
  BY BurstIs
<1>2. x \in Nat
  BY <1>1
<1>3. x <= 256 * p
  BY <1>1
<1>4. x \div 256 <= 255
  BY <1>2, <1>3
<1>. QED
  BY <1>2, <1>4 DEF Byte

LEMMA BurstKernel ==
  ASSUME NEW x \in BurstSet
  PROVE  CrcTable[x \div 256] # x % 256
<1>. DEFINE h == x \div 256
            l == x % 256
<1>1. PICK p \in 1..255 : \/ x = p * 1 \/ x = p * 2 \/ x = p * 4 \/ x = p * 8 \/ x = p * 16
                          \/ x = p * 32 \/ x = p * 64 \/ x = p * 128 \/ x = p * 256
  BY BurstIs
<1>2. h \in Byte /\ l \in Byte
  BY BurstBytes
<1>3. CrcTable[h] = Shift8(h)
  BY <1>2, TableIs
<1>4. \A c \in 0..255 : c \in Byte
  BY DEF Byte
<1>5. CASE x = p * 1
  <2>1. h = 0 /\ l = p
    BY <1>1, <1>5
  <2>. QED
    BY <1>1, <2>1, TableZero
<1>6. CASE x = p * 2
  <2>. DEFINE q == p % 128
  <2>1. h \in 0..1 /\ q \in 0..127 /\ l = 2 * q /\ (128 * h = q => p = 0)
    BY <1>1, <1>6
  <2>2. h \in Byte /\ q \in Byte
    BY <1>2, <1>4, <2>1
  <2>. HIDE DEF h, l, q
  <2>3. Shift7(h) = 128 * h /\ Shift(q) = 2 * q
    BY <2>1, <2>2, ShiftsDouble
  <2>4. 128 * h \in Byte /\ Shift8(h) = Shift(128 * h)
    BY <2>1, <2>3, <1>4 DEF Shift8
  <2>6. \A a, b \in Byte : Shift(a) = Shift(b) => a = b
    BY ShiftsInjective
  <2>7. CrcTable[h] = l => Shift(128 * h) = Shift(q)
    BY <1>3, <2>1, <2>3, <2>4
  <2>8. CrcTable[h] = l => 128 * h = q
    BY <2>2, <2>4, <2>6, <2>7, Zenon
  <2>9. CrcTable[h] # l
    BY <2>1, <2>8
  <2>. QED
    BY <2>9 DEF h, l
<1>7. CASE x = p * 4
  <2>. DEFINE q == p % 64
  <2>1. h \in 0..3 /\ q \in 0..63 /\ l = 4 * q /\ (64 * h = q => p = 0)
    BY <1>1, <1>7
  <2>2. h \in Byte /\ q \in Byte
    BY <1>2, <1>4, <2>1
  <2>. HIDE DEF h, l, q
  <2>3. Shift6(h) = 64 * h /\ Shift2(q) = 4 * q
    BY <2>1, <2>2, ShiftsDouble
  <2>4. 64 * h \in Byte /\ Shift8(h) = Shift2(64 * h)
    BY <2>1, <2>3, <1>4 DEF Shift8, Shift7, Shift2
  <2>6. \A a, b \in Byte : Shift2(a) = Shift2(b) => a = b
    BY ShiftsInjective, Zenon
  <2>7. CrcTable[h] = l => Shift2(64 * h) = Shift2(q)
    BY <1>3, <2>1, <2>3, <2>4
  <2>8. CrcTable[h] = l => 64 * h = q
    BY <2>2, <2>4, <2>6, <2>7, Zenon
  <2>9. CrcTable[h] # l
    BY <2>1, <2>8
  <2>. QED
    BY <2>9 DEF h, l
<1>8. CASE x = p * 8
  <2>. DEFINE q == p % 32
  <2>1. h \in 0..7 /\ q \in 0..31 /\ l = 8 * q /\ (32 * h = q => p = 0)
    BY <1>1, <1>8
  <2>2. h \in Byte /\ q \in Byte
    BY <1>2, <1>4, <2>1
  <2>. HIDE DEF h, l, q
  <2>3. Shift5(h) = 32 * h /\ Shift3(q) = 8 * q
    BY <2>1, <2>2, ShiftsDouble
  <2>4. 32 * h \in Byte /\ Shift8(h) = Shift3(32 * h)
    BY <2>1, <2>3, <1>4 DEF Shift8, Shift7, Shift6, Shift3, Shift2
  <2>6. \A a, b \in Byte : Shift3(a) = Shift3(b) => a = b
    BY ShiftsInjective, Zenon
  <2>7. CrcTable[h] = l => Shift3(32 * h) = Shift3(q)
    BY <1>3, <2>1, <2>3, <2>4
  <2>8. CrcTable[h] = l => 32 * h = q
    BY <2>2, <2>4, <2>6, <2>7, Zenon
  <2>9. CrcTable[h] # l
    BY <2>1, <2>8
  <2>. QED
    BY <2>9 DEF h, l
<1>9. CASE x = p * 16
  <2>. DEFINE q == p % 16
  <2>1. h \in 0..15 /\ q \in 0..15 /\ l = 16 * q /\ (16 * h = q => p = 0)
    BY <1>1, <1>9
  <2>2. h \in Byte /\ q \in Byte
    BY <1>2, <1>4, <2>1
  <2>. HIDE DEF h, l, q
  <2>3. Shift4(h) = 16 * h /\ Shift4(q) = 16 * q
    BY <2>1, <2>2, ShiftsDouble
  <2>4. 16 * h \in Byte /\ Shift8(h) = Shift(Shift(Shift(Shift(16 * h))))
    BY <2>1, <2>3, <1>4 DEF Shift8, Shift7, Shift6, Shift5
  <2>5. Shift8(h) = Shift4(16 * h)
    BY <2>4, Zenon DEF Shift4, Shift3, Shift2
  <2>6. \A a, b \in Byte : Shift4(a) = Shift4(b) => a = b
    BY ShiftsInjective, Zenon
  <2>7. CrcTable[h] = l => Shift4(16 * h) = Shift4(q)
    BY <1>3, <2>1, <2>3, <2>5
  <2>8. CrcTable[h] = l => 16 * h = q
    BY <2>2, <2>4, <2>6, <2>7, Zenon
  <2>9. CrcTable[h] # l
    BY <2>1, <2>8
  <2>. QED
    BY <2>9 DEF h, l
<1>10. CASE x = p * 32
  <2>. DEFINE q == p % 8
  <2>1. h \in 0..31 /\ q \in 0..7 /\ l = 32 * q /\ (8 * h = q => p = 0)
    BY <1>1, <1>10
  <2>2. h \in Byte /\ q \in Byte
    BY <1>2, <1>4, <2>1
  <2>. HIDE DEF h, l, q
  <2>3. Shift3(h) = 8 * h /\ Shift5(q) = 32 * q
    BY <2>1, <2>2, ShiftsDouble
  <2>4. 8 * h \in Byte /\ Shift8(h) = Shift(Shift(Shift(Shift(Shift(8 * h)))))
    BY <2>1, <2>3, <1>4 DEF Shift8, Shift7, Shift6, Shift5, Shift4
  <2>5. Shift8(h) = Shift5(8 * h)
    BY <2>4, Zenon DEF Shift5, Shift4, Shift3, Shift2
  <2>6. \A a, b \in Byte : Shift5(a) = Shift5(b) => a = b
    BY ShiftsInjective, Zenon
  <2>7. CrcTable[h] = l => Shift5(8 * h) = Shift5(q)
    BY <1>3, <2>1, <2>3, <2>5
  <2>8. CrcTable[h] = l => 8 * h = q
    BY <2>2, <2>4, <2>6, <2>7, Zenon
  <2>9. CrcTable[h] # l
    BY <2>1, <2>8
  <2>. QED
    BY <2>9 DEF h, l
<1>11. CASE x = p * 64
  <2>. DEFINE q == p % 4
  <2>1. h \in 0..63 /\ q \in 0..3 /\ l = 64 * q /\ (4 * h = q => p = 0)
    BY <1>1, <1>11
  <2>2. h \in Byte /\ q \in Byte
    BY <1>2, <1>4, <2>1
  <2>. HIDE DEF h, l, q
  <2>3. Shift2(h) = 4 * h /\ Shift6(q) = 64 * q
    BY <2>1, <2>2, ShiftsDouble
  <2>4. 4 * h \in Byte /\ Shift8(h) = Shift(Shift(Shift(Shift(Shift(Shift(4 * h))))))
    BY <2>1, <2>3, <1>4 DEF Shift8, Shift7, Shift6, Shift5, Shift4, Shift3
  <2>5. Shift8(h) = Shift6(4 * h)
    BY <2>4, Zenon DEF Shift6, Shift5, Shift4, Shift3, Shift2
  <2>6. \A a, b \in Byte : Shift6(a) = Shift6(b) => a = b
    BY ShiftsInjective, Zenon
  <2>7. CrcTable[h] = l => Shift6(4 * h) = Shift6(q)
    BY <1>3, <2>1, <2>3, <2>5
  <2>8. CrcTable[h] = l => 4 * h = q
    BY <2>2, <2>4, <2>6, <2>7, Zenon
  <2>9. CrcTable[h] # l
    BY <2>1, <2>8
  <2>. QED
    BY <2>9 DEF h, l
<1>12. CASE x = p * 128
  <2>. DEFINE q == p % 2
  <2>1. h \in 0..127 /\ q \in 0..1 /\ l = 128 * q /\ (2 * h = q => p = 0)
    BY <1>1, <1>12
  <2>2. h \in Byte /\ q \in Byte
    BY <1>2, <1>4, <2>1
  <2>. HIDE DEF h, l, q
  <2>3. Shift(h) = 2 * h /\ Shift7(q) = 128 * q
    BY <2>1, <2>2, ShiftsDouble
  <2>4. 2 * h \in Byte /\ Shift8(h) = Shift(Shift(Shift(Shift(Shift(Shift(Shift(2 * h)))))))
    BY <2>1, <2>3, <1>4 DEF Shift8, Shift7, Shift6, Shift5, Shift4, Shift3, Shift2
  <2>5. Shift8(h) = Shift7(2 * h)
    BY <2>4, Zenon DEF Shift7, Shift6, Shift5, Shift4, Shift3, Shift2
  <2>6. \A a, b \in Byte : Shift7(a) = Shift7(b) => a = b
    BY ShiftsInjective, Zenon
  <2>7. CrcTable[h] = l => Shift7(2 * h) = Shift7(q)
    BY <1>3, <2>1, <2>3, <2>5
  <2>8. CrcTable[h] = l => 2 * h = q
    BY <2>2, <2>4, <2>6, <2>7, Zenon
  <2>9. CrcTable[h] # l
    BY <2>1, <2>8
  <2>. QED
    BY <2>9 DEF h, l
<1>13. CASE x = p * 256
  <2>1. h = p /\ l = 0
    BY <1>1, <1>13
  <2>. QED
    BY <1>1, <1>2, <2>1, TableZero
<1>. QED
  BY <1>1, <1>5, <1>6, <1>7, <1>8, <1>9, <1>10, <1>11, <1>12, <1>13

-----------------------------------------------------------------------------
(* The checksum: of the bytes of a frame                                   *)

\* What one byte makes of the checksum so far.
Step(c, b) == CrcTable[XorTable[c][b]]

LEMMA StepIs ==
  ASSUME NEW c \in Byte, NEW b \in Byte
  PROVE  Step(c, b) \in Byte /\ Step(c, b) = CrcTable[Xor(c, b)]
  BY XorByte, TableIs DEF Step

LEMMA StepInjective ==
  ASSUME NEW c \in Byte, NEW d \in Byte, NEW b \in Byte, Step(c, b) = Step(d, b)
  PROVE  c = d
<1>1. CrcTable[Xor(c, b)] = CrcTable[Xor(d, b)]
  BY StepIs
<1>2. Xor(c, b) = Xor(d, b)
  BY <1>1, XorBits, TableInjective
<1>. QED
  BY <1>2, XorCancel

LEMMA StepSelf ==
  ASSUME NEW c \in Byte
  PROVE  Step(c, c) = 0
  BY StepIs, XorSelf, TableZero

\* f holds the checksums of the first 0 to n bytes of p.
Run(p, n, f) == f = [i \in 0..n |-> IF i = 0 THEN 255 ELSE Step(f[i - 1], p[i])]

LEMMA RunIs ==
  ASSUME NEW p, NEW n \in Nat, NEW f, Run(p, n, f)
  PROVE  f[0] = 255 /\ \A i \in 1..n : f[i] = Step(f[i - 1], p[i])
  BY DEF Run

LEMMA RunExists ==
  ASSUME NEW p
  PROVE  \A n \in Nat : \E f : Run(p, n, f)
<1>. DEFINE S == {m \in Nat : \E f : Run(p, m, f)}
<1>1. 0 \in S
  <2>. DEFINE f == [i \in 0..0 |-> 255]
  <2>1. Run(p, 0, f)
    BY DEF Run
  <2>. QED
    BY <2>1
<1>2. \A m \in Nat : m \in S => m + 1 \in S
  <2>. SUFFICES ASSUME NEW m \in Nat, NEW f, Run(p, m, f) PROVE \E g : Run(p, m + 1, g)
    OBVIOUS
  <2>. DEFINE g == [i \in 0..(m + 1) |-> IF i = m + 1 THEN Step(f[m], p[m + 1]) ELSE f[i]]
  <2>1. \A i \in 0..m : f[i] = IF i = 0 THEN 255 ELSE Step(f[i - 1], p[i])
    BY DEF Run
  <2>2. \A i \in 0..m : g[i] = f[i]
    OBVIOUS
  <2>3. g[m + 1] = Step(f[m], p[m + 1]) /\ g = [i \in 0..(m + 1) |-> g[i]]
    OBVIOUS
  <2>. HIDE DEF g
  <2>4. ASSUME NEW i \in 0..(m + 1)
        PROVE  g[i] = IF i = 0 THEN 255 ELSE Step(g[i - 1], p[i])
    <3>1. CASE i = m + 1
      <4>1. (m + 1) - 1 = m /\ m \in 0..m /\ m + 1 # 0
        OBVIOUS
      <4>. QED
        BY <2>2, <2>3, <3>1, <4>1, Zenon
    <3>2. CASE i \in 0..m
      <4>1. i # 0 => i - 1 \in 0..m
        BY <3>2
      <4>. QED
        BY <2>1, <2>2, <3>2, <4>1
    <3>. QED
      BY <3>1, <3>2
  <2>5. g = [i \in 0..(m + 1) |-> IF i = 0 THEN 255 ELSE Step(g[i - 1], p[i])]
    BY <2>3, <2>4
  <2>6. Run(p, m + 1, g)
    BY <2>5 DEF Run
  <2>. QED
    BY <2>6
<1>. HIDE DEF S
<1>3. \A n \in Nat : n \in S
  BY <1>1, <1>2, Induct
<1>. QED
  BY <1>3 DEF S

LEMMA HashIsRun ==
  ASSUME NEW p, NEW n \in Nat
  PROVE  \E f : Run(p, n, f) /\ Hash(p, n) = f[n]
<1>1. PICK f : Run(p, n, f)
  BY RunExists
<1>. DEFINE body(crc) ==
              [i \in 0..n |-> IF i = 0 THEN 255 ELSE CrcTable[XorTable[crc[i - 1]][p[i]]]]
            h == CHOOSE crc : crc = body(crc)
<1>2. h = body(h)
  BY <1>1, Zenon DEF Run, Step
<1>3. Hash(p, n) = h[n]
  BY Zenon DEF Hash
<1>. QED
  BY <1>2, <1>3, Zenon DEF Run, Step

\* The checksums of the shorter beginnings are the same in every run.
LEMMA RunsAgree ==
  ASSUME NEW p, NEW n \in Nat, NEW k \in 0..n, NEW f, NEW g, Run(p, n, f), Run(p, k, g)
  PROVE  f[k] = g[k]
<1>. DEFINE S == {m \in Nat : m <= k => f[m] = g[m]}
<1>1. 0 \in S
  BY RunIs
<1>2. \A m \in Nat : m \in S => m + 1 \in S
  <2>. SUFFICES ASSUME NEW m \in Nat, f[m] = g[m], m + 1 <= k PROVE f[m + 1] = g[m + 1]
    OBVIOUS
  <2>1. m + 1 \in 1..n /\ m + 1 \in 1..k /\ (m + 1) - 1 = m
    OBVIOUS
  <2>2. f[m + 1] = Step(f[m], p[m + 1])
    BY <2>1, RunIs
  <2>3. g[m + 1] = Step(g[m], p[m + 1])
    BY <2>1, RunIs
  <2>. QED
    BY <2>2, <2>3
<1>. HIDE DEF S
<1>3. \A m \in Nat : m \in S
  BY <1>1, <1>2, Induct
<1>. QED
  BY <1>3 DEF S

\* The recursion that Hash stands for.
LEMMA HashNext ==
  ASSUME NEW p
  PROVE  Hash(p, 0) = 255 /\ \A n \in Nat : Hash(p, n + 1) = Step(Hash(p, n), p[n + 1])
<1>1. Hash(p, 0) = 255
  BY HashIsRun, RunIs
<1>2. ASSUME NEW n \in Nat
      PROVE  Hash(p, n + 1) = Step(Hash(p, n), p[n + 1])
  <2>1. PICK f : Run(p, n + 1, f) /\ Hash(p, n + 1) = f[n + 1]
    BY HashIsRun
  <2>2. PICK g : Run(p, n, g) /\ Hash(p, n) = g[n]
    BY HashIsRun
  <2>3. f[n + 1] = Step(f[n], p[n + 1])
    <3>1. n + 1 \in 1..(n + 1) /\ (n + 1) - 1 = n /\ n + 1 \in Nat
      OBVIOUS
    <3>. QED
      BY <2>1, <3>1, RunIs
  <2>4. f[n] = g[n]
    <3>1. n \in 0..(n + 1) /\ n + 1 \in Nat
      OBVIOUS
    <3>. QED
      BY <2>1, <2>2, <3>1, RunsAgree
  <2>. QED
    BY <2>1, <2>2, <2>3, <2>4
<1>. QED
  BY <1>1, <1>2

\* Bytes at the first n places.
Filling(p, n) == \A i \in 1..n : p[i] \in Byte

LEMMA HashByte ==
  ASSUME NEW p, NEW n \in Nat, Filling(p, n)
  PROVE  Hash(p, n) \in Byte
<1>. DEFINE S == {m \in Nat : m <= n => Hash(p, m) \in Byte}
<1>1. 0 \in S
  <2>1. 255 \in Byte
    BY DEF Byte
  <2>. QED
    BY <2>1, HashNext
<1>2. \A m \in Nat : m \in S => m + 1 \in S
  <2>. SUFFICES ASSUME NEW m \in Nat, Hash(p, m) \in Byte, m + 1 <= n
                PROVE  Hash(p, m + 1) \in Byte
    OBVIOUS
  <2>1. p[m + 1] \in Byte
    BY DEF Filling
  <2>. QED
    BY <2>1, HashNext, StepIs
<1>. HIDE DEF S
<1>3. \A m \in Nat : m \in S
  BY <1>1, <1>2, Induct
<1>. QED
  BY <1>3 DEF S

\* The checksum looks at these bytes only.
LEMMA HashAgree ==
  ASSUME NEW p, NEW q, NEW n \in Nat, \A i \in 1..n : p[i] = q[i]
  PROVE  Hash(p, n) = Hash(q, n)
<1>. DEFINE S == {m \in Nat : m <= n => Hash(p, m) = Hash(q, m)}
<1>1. 0 \in S
  BY HashNext
<1>2. \A m \in Nat : m \in S => m + 1 \in S
  <2>. SUFFICES ASSUME NEW m \in Nat, Hash(p, m) = Hash(q, m), m + 1 <= n
                PROVE  Hash(p, m + 1) = Hash(q, m + 1)
    OBVIOUS
  <2>1. p[m + 1] = q[m + 1]
    OBVIOUS
  <2>. QED
    BY <2>1, HashNext
<1>. HIDE DEF S
<1>3. \A m \in Nat : m \in S
  BY <1>1, <1>2, Induct
<1>. QED
  BY <1>3 DEF S

\* Zeros behind a frame whose checksum is zero leave it zero.
LEMMA HashZeros ==
  ASSUME NEW p, NEW k \in Nat, NEW n \in Nat, Hash(p, k) = 0,
         \A i \in (k + 1)..n : p[i] = 0
  PROVE  \A m \in k..n : Hash(p, m) = 0
<1>. DEFINE S == {m \in Nat : k + m <= n => Hash(p, k + m) = 0}
<1>1. 0 \in S
  OBVIOUS
<1>2. \A m \in Nat : m \in S => m + 1 \in S
  <2>. SUFFICES ASSUME NEW m \in Nat, Hash(p, k + m) = 0, k + (m + 1) <= n
                PROVE  Hash(p, k + (m + 1)) = 0
    OBVIOUS
  <2>1. p[k + m + 1] = 0 /\ k + m \in Nat /\ k + (m + 1) = k + m + 1 /\ 0 \in Byte
    BY DEF Byte
  <2>2. Hash(p, k + m + 1) = Step(0, 0)
    BY <2>1, HashNext
  <2>. QED
    BY <2>1, <2>2, StepSelf
<1>. HIDE DEF S
<1>3. \A m \in Nat : m \in S
  BY <1>1, <1>2, Induct
<1>4. ASSUME NEW m \in k..n
      PROVE  Hash(p, m) = 0
  <2>1. m - k \in Nat /\ k + (m - k) = m
    OBVIOUS
  <2>. QED
    BY <1>3, <2>1 DEF S
<1>. QED
  BY <1>4

\* Checksums that differ after k bytes differ after all that follow, if these are the same.
LEMMA HashDiffers ==
  ASSUME NEW p, NEW q, NEW k \in Nat, NEW n \in Nat, Filling(p, n), Filling(q, n),
         Hash(p, k) # Hash(q, k), \A i \in (k + 1)..n : p[i] = q[i]
  PROVE  \A m \in k..n : Hash(p, m) # Hash(q, m)
<1>. DEFINE S == {m \in Nat : k + m <= n => Hash(p, k + m) # Hash(q, k + m)}
<1>1. 0 \in S
  OBVIOUS
<1>2. \A m \in Nat : m \in S => m + 1 \in S
  <2>. SUFFICES ASSUME NEW m \in Nat, Hash(p, k + m) # Hash(q, k + m), k + (m + 1) <= n
                PROVE  Hash(p, k + (m + 1)) # Hash(q, k + (m + 1))
    OBVIOUS
  <2>1. /\ p[k + m + 1] = q[k + m + 1] /\ p[k + m + 1] \in Byte
        /\ k + m \in Nat /\ k + (m + 1) = k + m + 1
    BY DEF Filling
  <2>2. Filling(p, k + m) /\ Filling(q, k + m)
    BY DEF Filling
  <2>3. Hash(p, k + m) \in Byte /\ Hash(q, k + m) \in Byte
    BY <2>1, <2>2, HashByte
  <2>4. /\ Hash(p, k + m + 1) = Step(Hash(p, k + m), p[k + m + 1])
        /\ Hash(q, k + m + 1) = Step(Hash(q, k + m), p[k + m + 1])
    BY <2>1, HashNext
  <2>. QED
    BY <2>1, <2>3, <2>4, StepInjective
<1>. HIDE DEF S
<1>3. \A m \in Nat : m \in S
  BY <1>1, <1>2, Induct
<1>4. ASSUME NEW m \in k..n
      PROVE  Hash(p, m) # Hash(q, m)
  <2>1. m - k \in Nat /\ k + (m - k) = m
    OBVIOUS
  <2>. QED
    BY <1>3, <2>1 DEF S
<1>. QED
  BY <1>4

LEMMA XorNothing ==
  ASSUME NEW y \in Byte, NEW z \in Byte, Xor(y, z) = y
  PROVE  z = 0
<1>1. Xor(z, y) = Xor(0, y) /\ 0 \in Byte
  BY XorComm, XorZero, ZeroBits
<1>. QED
  BY <1>1, XorCancel

\* The byte of p that a burst x hits first is i.
Burst(p, q, n, i, x) ==
  /\ q[i] = XorTable[p[i]][x \div 256]
  /\ q[i + 1] = XorTable[p[i + 1]][x % 256]
  /\ \A j \in 1..n : j # i /\ j # i + 1 => q[j] = p[j]

LEMMA BurstFills ==
  ASSUME NEW p, NEW q, NEW n \in Nat, NEW i \in 1..(n - 1), NEW x \in BurstSet,
         Filling(p, n), Burst(p, q, n, i, x)
  PROVE  Filling(q, n)
<1>1. x \div 256 \in Byte /\ x % 256 \in Byte
  BY BurstBytes
<1>2. p[i] \in Byte /\ p[i + 1] \in Byte
  BY DEF Filling
<1>3. q[i] \in Byte /\ q[i + 1] \in Byte
  BY <1>1, <1>2, XorByte DEF Burst
<1>4. \A j \in 1..n : j # i /\ j # i + 1 => q[j] \in Byte
  BY DEF Burst, Filling
<1>. QED
  BY <1>3, <1>4 DEF Filling

\* The checksum finds every burst of up to eight bits, in frames of every length.
LEMMA BurstIsSeen ==
  ASSUME NEW p, NEW q, NEW n \in Nat, NEW i \in 1..(n - 1), NEW x \in BurstSet,
         Filling(p, n), Burst(p, q, n, i, x)
  PROVE  Hash(q, n) # Hash(p, n)
<1>. DEFINE h == x \div 256
            l == x % 256
            c == Hash(p, i - 1)
            a == Hash(p, i)
            b == Hash(p, i + 1)
            r == p[i + 1]
<1>1. h \in Byte /\ l \in Byte /\ CrcTable[h] # l /\ CrcTable[h] \in Byte
  BY BurstBytes, BurstKernel, TableIs
<1>2. Filling(q, n)
  BY BurstFills
<1>3. p[i] \in Byte /\ r \in Byte
  BY DEF Filling
<1>4. c \in Byte /\ a \in Byte /\ b \in Byte
  <2>1. Filling(p, i - 1) /\ Filling(p, i) /\ Filling(p, i + 1)
    BY DEF Filling
  <2>. QED
    BY <2>1, HashByte
<1>5. Hash(q, i - 1) = c
  <2>1. \A j \in 1..(i - 1) : q[j] = p[j]
    BY DEF Burst
  <2>. QED
    BY <2>1, HashAgree
<1>6. /\ a = Step(c, p[i]) /\ b = Step(a, r)
      /\ Hash(q, i) = Step(c, q[i]) /\ Hash(q, i + 1) = Step(Hash(q, i), q[i + 1])
  <2>1. i - 1 \in Nat /\ i \in Nat /\ (i - 1) + 1 = i
    OBVIOUS
  <2>2. a = Step(c, p[i])
    BY <2>1, HashNext
  <2>3. Hash(q, i) = Step(c, q[i])
    BY <1>5, <2>1, HashNext
  <2>. QED
    BY <2>1, <2>2, <2>3, HashNext
<1>7. q[i] = Xor(p[i], h) /\ q[i + 1] = Xor(r, l)
  BY <1>1, <1>3, XorByte DEF Burst
<1>. HIDE DEF h, l, c, a, b, r
<1>8. Hash(q, i) = Xor(a, CrcTable[h])
  <2>1. Xor(p[i], h) \in Byte /\ Xor(c, p[i]) \in Byte
    BY <1>1, <1>3, <1>4, XorBits
  <2>2. Hash(q, i) = CrcTable[Xor(c, Xor(p[i], h))]
    BY <1>4, <1>6, <1>7, <2>1, StepIs
  <2>3. Xor(c, Xor(p[i], h)) = Xor(Xor(c, p[i]), h)
    BY <1>1, <1>3, <1>4, XorAssoc
  <2>4. a = CrcTable[Xor(c, p[i])]
    BY <1>3, <1>4, <1>6, StepIs
  <2>. QED
    BY <1>1, <2>1, <2>2, <2>3, <2>4, TableXor
<1>9. Hash(q, i + 1) # b
  <2>. DEFINE y == Xor(a, r)
              z == Xor(CrcTable[h], l)
  <2>1. y \in Byte /\ z \in Byte /\ Xor(a, CrcTable[h]) \in Byte /\ Xor(r, l) \in Byte
    BY <1>1, <1>3, <1>4, XorBits
  <2>2. Hash(q, i + 1) = CrcTable[Xor(Xor(a, CrcTable[h]), Xor(r, l))]
    BY <1>6, <1>7, <1>8, <2>1, StepIs
  <2>3. Xor(Xor(a, CrcTable[h]), Xor(r, l)) = Xor(y, z)
    BY <1>1, <1>3, <1>4, XorSwap
  <2>4. b = CrcTable[y]
    BY <1>3, <1>4, <1>6, StepIs
  <2>5. z # 0
    BY <1>1, XorIsZero
  <2>. HIDE DEF y, z
  <2>6. Xor(y, z) # y /\ Xor(y, z) \in Byte
    BY <2>1, <2>5, XorNothing, XorBits
  <2>. QED
    BY <2>1, <2>2, <2>3, <2>4, <2>6, TableInjective
<1>10. \A j \in ((i + 1) + 1)..n : p[j] = q[j]
  BY DEF Burst
<1>11. i + 1 \in Nat /\ n \in (i + 1)..n /\ Hash(p, i + 1) # Hash(q, i + 1)
  BY <1>9 DEF b
<1>. QED
  BY <1>2, <1>10, <1>11, HashDiffers

\* Appending the checksum to a frame makes that of the whole zero.
LEMMA HashClosed ==
  ASSUME NEW p \in Seq(Byte)
  PROVE  LET q == Append(p, Hash(p, Len(p)))
         IN  /\ q \in Seq(Byte) /\ Len(q) = Len(p) + 1 /\ \A i \in 1..Len(p) : q[i] = p[i]
             /\ Hash(q, Len(q)) = 0
<1>. DEFINE n == Len(p)
            c == Hash(p, n)
            q == Append(p, c)
<1>1. n \in Nat /\ Filling(p, n)
  BY DEF Filling
<1>2. c \in Byte
  BY <1>1, HashByte
<1>3. /\ q \in Seq(Byte) /\ Len(q) = n + 1 /\ q[n + 1] = c
      /\ \A i \in 1..n : q[i] = p[i]
  BY <1>2, AppendProperties
<1>. HIDE DEF n, c, q
<1>4. Hash(q, n) = c
  BY <1>1, <1>3, HashAgree DEF c
<1>5. Hash(q, n + 1) = Step(Hash(q, n), q[n + 1])
  BY <1>1, HashNext
<1>6. Step(c, c) = 0
  BY <1>2, StepSelf
<1>7. Hash(q, n + 1) = 0
  BY <1>3, <1>4, <1>5, <1>6, Zenon
<1>. QED
  BY <1>3, <1>7 DEF n, c, q

-----------------------------------------------------------------------------
(* Frames                                                                  *)

LEMMA FunctionIsSeq ==
  ASSUME NEW S, NEW n \in Nat, NEW f \in [1..n -> S]
  PROVE  f \in Seq(S) /\ Len(f) = n
<1>1. f \in Seq(S)
  BY SeqDef
<1>2. Len(f) \in Nat /\ 1..Len(f) = 1..n
  BY <1>1, LenProperties
<1>. QED
  BY <1>1, <1>2

\* Elements that are known one by one make two sequences equal.
LEMMA SameElements ==
  ASSUME NEW S, NEW s \in Seq(S), NEW t \in Seq(S), NEW n \in Nat, Len(s) = n, Len(t) = n,
         \A i \in 1..n : s[i] = t[i]
  PROVE  s = t
  BY SeqEqual

LEMMA Joined ==
  ASSUME NEW S, NEW s \in Seq(S), NEW t \in Seq(S)
  PROVE  /\ s \o t \in Seq(S) /\ Len(s \o t) = Len(s) + Len(t)
         /\ \A i \in 1..Len(s) : (s \o t)[i] = s[i]
         /\ \A i \in 1..Len(t) : (s \o t)[Len(s) + i] = t[i]
<1>. DEFINE q == s \o t
            m == Len(s)
            n == Len(t)
<1>1. /\ q \in Seq(S) /\ Len(q) = m + n
      /\ \A i \in 1..(m + n) : q[i] = IF i <= m THEN s[i] ELSE t[i - m]
  BY ConcatProperties
<1>2. m \in Nat /\ n \in Nat
  BY LenProperties
<1>. HIDE DEF q, m, n
<1>3. \A i \in 1..m : q[i] = s[i]
  BY <1>1, <1>2
<1>4. ASSUME NEW i \in 1..n
      PROVE  q[m + i] = t[i]
  <2>1. m + i \in 1..(m + n) /\ ~ (m + i <= m) /\ (m + i) - m = i
    BY <1>2
  <2>. QED
    BY <1>1, <2>1
<1>. QED
  BY <1>1, <1>3, <1>4 DEF q, m, n

LEMMA BufferIs ==
  ASSUME NEW p \in Seq(Byte), NEW n \in Nat
  PROVE  /\ Buffer(p, n) \in [1..n -> Byte] /\ Buffer(p, n) \in Seq(Byte)
         /\ Len(Buffer(p, n)) = n /\ Filling(Buffer(p, n), n)
         /\ \A i \in 1..n : i <= Len(p) => Buffer(p, n)[i] = p[i]
         /\ \A i \in 1..n : i > Len(p) => Buffer(p, n)[i] = 0
<1>1. 0 \in Byte /\ Len(p) \in Nat /\ \A i \in 1..Len(p) : p[i] \in Byte
  BY ZeroBits, LenProperties, ElementOfSeq
<1>2. /\ \A i \in 1..n : i <= Len(p) => Buffer(p, n)[i] = p[i]
      /\ \A i \in 1..n : i > Len(p) => Buffer(p, n)[i] = 0
      /\ Buffer(p, n) = [i \in 1..n |-> Buffer(p, n)[i]]
  BY <1>1 DEF Buffer
<1>3. \A i \in 1..n : Buffer(p, n)[i] \in Byte
  BY <1>1, <1>2
<1>4. Buffer(p, n) \in [1..n -> Byte]
  BY <1>2, <1>3
<1>5. Buffer(p, n) \in Seq(Byte) /\ Len(Buffer(p, n)) = n
  BY <1>4, FunctionIsSeq
<1>. QED
  BY <1>2, <1>3, <1>4, <1>5 DEF Filling

\* A frame as either codec makes it.
IsFrame(p, type, payload, from, to) ==
  /\ p \in Seq(Byte) /\ Len(p) = Len(payload) + Const
  /\ p[1] = SFD /\ Length(p) = Len(p)
  /\ p[4] = from /\ p[5] = to /\ p[6] = type
  /\ \A i \in 1..Len(payload) : p[6 + i] = payload[i]
  /\ Hash(p, Len(p)) = 0

\* The six bytes before the payload.
Start(n, from, to, type) == <<SFD>> \o HighLow(n) \o <<from, to, type>>

LEMMA StartIs ==
  ASSUME NEW n \in Nat, n < 256 * 256, NEW from \in Byte, NEW to \in Byte, NEW type \in Byte
  PROVE  LET s == Start(n, from, to, type)
         IN  /\ s \in Seq(Byte) /\ Len(s) = 6
             /\ s[1] = SFD /\ Length(s) = n /\ s[4] = from /\ s[5] = to /\ s[6] = type
<1>. DEFINE h == (n \div 256) % 256
            l == n % 256
            s == Start(n, from, to, type)
<1>1. h \in Byte /\ l \in Byte /\ 256 * h + l = n /\ SFD \in Byte
  BY DEF Byte, SFD
<1>2. HighLow(n) = <<h, l>>
  BY DEF HighLow
<1>. HIDE DEF h, l
<1>. DEFINE a == <<SFD>>
            b == <<h, l>>
            c == <<from, to, type>>
            d == a \o b
<1>3. /\ a \in Seq(Byte) /\ Len(a) = 1 /\ a[1] = SFD
      /\ b \in Seq(Byte) /\ Len(b) = 2 /\ b[1] = h /\ b[2] = l
      /\ c \in Seq(Byte) /\ Len(c) = 3 /\ c[1] = from /\ c[2] = to /\ c[3] = type
  BY <1>1
<1>4. s = d \o c
  BY <1>2 DEF Start
<1>. HIDE DEF a, b, c
<1>5. /\ d \in Seq(Byte) /\ Len(d) = 3
      /\ \A i \in 1..1 : d[i] = a[i]
      /\ \A i \in 1..2 : d[1 + i] = b[i]
  <2>1. /\ d \in Seq(Byte) /\ Len(d) = Len(a) + Len(b)
        /\ \A i \in 1..Len(a) : d[i] = a[i]
        /\ \A i \in 1..Len(b) : d[Len(a) + i] = b[i]
    <3>1. a \in Seq(Byte) /\ b \in Seq(Byte)
      BY <1>3
    <3>. QED
      BY ONLY <3>1, Joined DEF d
  <2>. HIDE DEF d
  <2>. QED
    BY <1>3, <2>1
<1>6. d[1] = SFD /\ d[2] = h /\ d[3] = l
  BY <1>3, <1>5
<1>. HIDE DEF d, s
<1>7. /\ s \in Seq(Byte) /\ Len(s) = 6
      /\ \A i \in 1..3 : s[i] = d[i]
      /\ \A i \in 1..3 : s[3 + i] = c[i]
  <2>1. /\ s \in Seq(Byte) /\ Len(s) = Len(d) + Len(c)
        /\ \A i \in 1..Len(d) : s[i] = d[i]
        /\ \A i \in 1..Len(c) : s[Len(d) + i] = c[i]
    <3>1. d \in Seq(Byte) /\ c \in Seq(Byte)
      BY <1>3, <1>5
    <3>. QED
      BY ONLY <1>4, <3>1, Joined
  <2>. QED
    BY <1>3, <1>5, <2>1
<1>8. s \in Seq(Byte) /\ Len(s) = 6
  BY <1>7
<1>9. s[1] = SFD /\ s[2] = h /\ s[3] = l /\ s[4] = from /\ s[5] = to /\ s[6] = type
  BY <1>3, <1>6, <1>7
<1>10. Length(s) = n
  BY <1>1, <1>9 DEF Length
<1>. QED
  BY <1>8, <1>9, <1>10 DEF s

LEMMA FrameIs ==
  ASSUME NEW payload \in Seq(Byte), Len(payload) + Const < 256 * 256,
         NEW from \in Byte, NEW to \in Byte, NEW type \in Byte,
         NEW p, p = Start(Const + Len(payload), from, to, type) \o payload
  PROVE  IsFrame(Append(p, Hash(p, Len(p))), type, payload, from, to)
<1>. DEFINE m == Len(payload)
            n == Const + m
            s == Start(n, from, to, type)
            q == Append(p, Hash(p, Len(p)))
<1>1. m \in Nat /\ n \in Nat /\ n < 256 * 256 /\ n = m + 7
  BY LenProperties DEF Const
<1>2. /\ s \in Seq(Byte) /\ Len(s) = 6
      /\ s[1] = SFD /\ Length(s) = n /\ s[4] = from /\ s[5] = to /\ s[6] = type
  BY <1>1, StartIs
<1>3. p = s \o payload
  OBVIOUS
<1>. HIDE DEF s, m, n
<1>4. /\ p \in Seq(Byte) /\ Len(p) = 6 + m
      /\ \A i \in 1..6 : p[i] = s[i]
      /\ \A i \in 1..m : p[6 + i] = payload[i]
  <2>1. Len(payload) = m
    BY DEF m
  <2>2. /\ p \in Seq(Byte) /\ Len(p) = Len(s) + Len(payload)
        /\ \A i \in 1..Len(s) : p[i] = s[i]
        /\ \A i \in 1..Len(payload) : p[Len(s) + i] = payload[i]
    <3>1. s \in Seq(Byte) /\ payload \in Seq(Byte)
      BY <1>2
    <3>. QED
      BY ONLY <1>3, <3>1, Joined
  <2>. QED
    BY ONLY <1>1, <1>2, <2>1, <2>2
<1>5. /\ q \in Seq(Byte) /\ Len(q) = Len(p) + 1 /\ \A i \in 1..Len(p) : q[i] = p[i]
      /\ Hash(q, Len(q)) = 0
  BY <1>4, HashClosed
<1>. HIDE DEF q
<1>6. Len(q) = n
  BY <1>1, <1>4, <1>5
<1>7. /\ q[1] = s[1] /\ q[2] = s[2] /\ q[3] = s[3]
      /\ q[4] = s[4] /\ q[5] = s[5] /\ q[6] = s[6]
  <2>1. \A i \in 1..6 : i \in 1..Len(p)
    BY <1>1, <1>4
  <2>2. \A i \in 1..6 : q[i] = s[i]
    BY <1>4, <1>5, <2>1
  <2>. QED
    BY <2>2
<1>8. Length(q) = n
  BY <1>2, <1>7 DEF Length
<1>9. ASSUME NEW i \in 1..m
       PROVE  q[6 + i] = payload[i]
  <2>1. 6 + i \in 1..Len(p)
    BY <1>1, <1>4
  <2>. QED
    BY <1>4, <1>5, <2>1
<1>10. n = m + Const
  BY <1>1 DEF Const
<1>. QED
  BY <1>2, <1>5, <1>6, <1>7, <1>8, <1>9, <1>10 DEF IsFrame, m, q

LEMMA HostFrame ==
  ASSUME NEW payload \in Seq(Byte), Len(payload) + Const < 256 * 256, NEW type \in Byte
  PROVE  IsFrame(HostSerialize(type, payload), type, payload, 0, BoardId)
<1>1. 0 \in Byte /\ BoardId \in Byte
  BY ZeroBits, SizesAssumption
<1>. QED
  BY <1>1, FrameIs DEF HostSerialize, Start

LEMMA BoardFrame ==
  ASSUME NEW type \in Byte
  PROVE  IsFrame(BoardSerialize(type), type, <<>>, BoardId, 0)
<1>. DEFINE p == <<SFD>> \o HighLow(Const) \o <<BoardId, 0, type>>
<1>1. 0 \in Byte /\ BoardId \in Byte
  BY ZeroBits, SizesAssumption
<1>2. /\ <<>> \in Seq(Byte) /\ Len(<<>>) = 0 /\ Const \in Nat /\ Const < 256 * 256
      /\ Len(<<>>) + Const < 256 * 256
  BY EmptySeq DEF Const
<1>3. Start(Const, BoardId, 0, type) \in Seq(Byte)
  BY <1>1, <1>2, StartIs
<1>4. p = Start(Const + Len(<<>>), BoardId, 0, type) \o <<>>
  BY <1>2, <1>3, ConcatEmptySeq DEF Start
<1>. HIDE DEF p
<1>5. IsFrame(Append(p, Hash(p, Len(p))), type, <<>>, BoardId, 0)
  BY <1>1, <1>2, <1>4, FrameIs
<1>. QED
  BY <1>5 DEF BoardSerialize, p

-----------------------------------------------------------------------------
(* Frames that arrive                                                      *)

LEMMA PartIs ==
  ASSUME NEW S, NEW s \in Seq(S), NEW j \in Nat, NEW k \in Nat, j + k <= Len(s)
  PROVE  LET q == SubSeq(s, j + 1, j + k)
         IN  q \in Seq(S) /\ Len(q) = k /\ \A i \in 1..k : q[i] = s[j + i]
<1>. DEFINE q == SubSeq(s, j + 1, j + k)
<1>1. \A i \in (j + 1)..(j + k) : s[i] \in S
  BY ElementOfSeq, LenProperties
<1>2. j + 1 \in Int /\ j + k \in Int
  OBVIOUS
<1>3. /\ q \in Seq(S) /\ Len(q) = IF j + 1 <= j + k THEN (j + k) - (j + 1) + 1 ELSE 0
      /\ \A i \in 1..((j + k) - (j + 1) + 1) : q[i] = s[j + 1 + i - 1]
  BY ONLY <1>1, <1>2, SubSeqProperties DEF q
<1>. HIDE DEF q
<1>4. Len(q) = k
  BY <1>3
<1>5. ASSUME NEW i \in 1..k
      PROVE  q[i] = s[j + i]
  <2>1. i \in 1..((j + k) - (j + 1) + 1) /\ j + 1 + i - 1 = j + i
    OBVIOUS
  <2>. QED
    BY <1>3, <2>1
<1>. QED
  BY <1>3, <1>4, <1>5 DEF q

\* A frame that was not hit, in a buffer that it fits.
LEMMA FrameTaken ==
  ASSUME NEW payload \in Seq(Byte), NEW type, NEW from, NEW to, NEW p,
         IsFrame(p, type, payload, from, to), NEW N \in Nat, Len(p) <= N
  PROVE  LET b == Buffer(p, N)
         IN  /\ b \in Seq(Byte) /\ Len(b) = N /\ b[1] = SFD /\ Length(b) = Len(payload) + Const
             /\ b[4] = from /\ b[5] = to /\ b[6] = type
             /\ \A i \in 1..Len(payload) : b[Const - 1 + i] = payload[i]
             /\ ~Undefined(b) /\ Deserializes(b) /\ Payload(b) = payload
<1>. DEFINE b == Buffer(p, N)
            m == Len(payload)
<1>1. /\ p \in Seq(Byte) /\ Len(p) = m + 7 /\ m \in Nat
      /\ p[1] = SFD /\ Length(p) = m + 7
      /\ p[4] = from /\ p[5] = to /\ p[6] = type
      /\ \A i \in 1..m : p[6 + i] = payload[i]
      /\ Hash(p, m + 7) = 0
  BY LenProperties DEF IsFrame, Const
<1>2. /\ b \in Seq(Byte) /\ Len(b) = N
      /\ \A i \in 1..N : i <= Len(p) => b[i] = p[i]
  BY <1>1, BufferIs
<1>. HIDE DEF b, m
<1>3. \A i \in 1..(m + 7) : b[i] = p[i]
  BY <1>1, <1>2
<1>4. b[1] = p[1] /\ b[2] = p[2] /\ b[3] = p[3] /\ b[4] = p[4] /\ b[5] = p[5] /\ b[6] = p[6]
  BY <1>1, <1>3
<1>5. Length(b) = m + 7
  BY <1>1, <1>4 DEF Length
<1>6. \A i \in 1..m : b[6 + i] = payload[i]
  <2>. TAKE i \in 1..m
  <2>1. 6 + i \in 1..(m + 7)
    BY <1>1
  <2>. QED
    BY <1>1, <1>3, <2>1
<1>7. Hash(b, m + 7) = 0
  <2>1. m + 7 \in Nat
    BY <1>1
  <2>. QED
    BY <1>1, <1>3, <2>1, HashAgree
<1>8. Deserializes(b) /\ ~Undefined(b)
  BY <1>1, <1>2, <1>4, <1>5, <1>7 DEF Deserializes, Undefined, Const
<1>9. Payload(b) = payload
  <2>. DEFINE q == SubSeq(b, 6 + 1, 6 + m)
  <2>1. Payload(b) = q
    <3>1. Const = 6 + 1 /\ Length(b) - 1 = 6 + m
      BY <1>1, <1>5 DEF Const
    <3>. QED
      BY <3>1 DEF Payload
  <2>2. q \in Seq(Byte) /\ Len(q) = m /\ \A i \in 1..m : q[i] = b[6 + i]
    <3>1. 6 + m <= Len(b) /\ 6 \in Nat
      BY <1>1, <1>2
    <3>. QED
      BY <1>1, <1>2, <3>1, PartIs
  <2>. HIDE DEF q
  <2>3. q = payload
    BY <1>1, <1>6, <2>2, SameElements DEF m
  <2>. QED
    BY <2>1, <2>3
<1>10. \A i \in 1..m : b[Const - 1 + i] = payload[i]
  BY <1>1, <1>6 DEF Const
<1>11. m + 7 = m + Const
  BY DEF Const
<1>. QED
  BY <1>1, <1>2, <1>4, <1>5, <1>8, <1>9, <1>10, <1>11 DEF b, m

\* What a hit makes of a frame.
Damaged(p, i, x) ==
  [p EXCEPT ![i] = XorTable[@][x \div 256], ![i + 1] = XorTable[@][x % 256]]

LEMMA DamagedIs ==
  ASSUME NEW p \in Seq(Byte), NEW i \in 1..(Len(p) - 1), NEW x \in BurstSet
  PROVE  LET q == Damaged(p, i, x)
         IN  /\ q \in Seq(Byte) /\ Len(q) = Len(p)
             /\ \A n \in Nat : n <= Len(p) => Burst(p, q, n, i, x)
<1>. DEFINE n == Len(p)
            h == x \div 256
            l == x % 256
            q == Damaged(p, i, x)
<1>1. /\ n \in Nat /\ p \in [1..n -> Byte] /\ DOMAIN p = 1..n
      /\ i \in 1..n /\ i + 1 \in 1..n /\ i # i + 1
  BY LenProperties
<1>2. h \in Byte /\ l \in Byte
  BY BurstBytes
<1>3. /\ XorTable[p[i]][h] \in Byte /\ XorTable[p[i + 1]][l] \in Byte
  BY <1>1, <1>2, XorByte
<1>4. /\ q[i] = XorTable[p[i]][h] /\ q[i + 1] = XorTable[p[i + 1]][l]
      /\ \A j \in 1..n : j # i /\ j # i + 1 => q[j] = p[j]
      /\ q \in [1..n -> Byte]
  BY <1>1, <1>3 DEF Damaged
<1>5. q \in Seq(Byte) /\ Len(q) = n
  BY <1>1, <1>4, FunctionIsSeq
<1>. HIDE DEF q, h, l
<1>6. ASSUME NEW k \in Nat, k <= n
      PROVE  Burst(p, q, k, i, x)
  BY <1>1, <1>4, <1>6 DEF Burst, h, l
<1>. QED
  BY <1>5, <1>6 DEF q

LEMMA BurstsAreBursts == ASSUME NEW x \in Bursts PROVE x \in BurstSet
  BY BurstsAssumption DEF BurstSet

\* The board refuses a frame that was hit, unless its length ends it early; it does so without
\* exception when the length was not hit.
LEMMA DamageRefused ==
  ASSUME NEW payload \in Seq(Byte), NEW type, NEW from, NEW to, NEW p,
         IsFrame(p, type, payload, from, to), NEW N \in Nat, Len(p) <= N,
         NEW i \in 1..(Len(p) - 1), NEW x \in BurstSet
  PROVE  LET b == Buffer(Damaged(p, i, x), N)
         IN  /\ Undefined(b) \/ Length(b) < Len(p) \/ ~Deserializes(b)
             /\ i \notin 1..3 => /\ ~Undefined(b) /\ ~Deserializes(b)
                                 /\ Length(b) = Len(p)
<1>. DEFINE n == Len(p)
            q == Damaged(p, i, x)
            a == Buffer(p, N)
            b == Buffer(q, N)
<1>1. /\ p \in Seq(Byte) /\ n = Len(payload) + 7 /\ Len(payload) \in Nat /\ n \in Nat
      /\ p[1] = SFD /\ Length(p) = n /\ Hash(p, n) = 0
  BY LenProperties DEF IsFrame, Const
<1>2. q \in Seq(Byte) /\ Len(q) = n /\ \A k \in Nat : k <= n => Burst(p, q, k, i, x)
  BY <1>1, DamagedIs
<1>. HIDE DEF q, n
<1>3. /\ b \in Seq(Byte) /\ Len(b) = N /\ Filling(b, N)
      /\ \A j \in 1..N : j <= n => b[j] = q[j]
      /\ \A j \in 1..N : j > n => b[j] = 0
  BY <1>2, BufferIs
<1>4. /\ Filling(a, N)
      /\ \A j \in 1..N : j <= n => a[j] = p[j]
      /\ \A j \in 1..N : j > n => a[j] = 0
  BY <1>1, BufferIs DEF n
<1>. HIDE DEF a, b
<1>5. i \in 1..(n - 1) /\ i + 1 \in 1..n /\ i \in 1..n /\ n <= N
  BY <1>1 DEF n
<1>6. \A k \in n..N : Hash(a, k) = 0
  <2>1. Hash(a, n) = 0
    <3>1. \A j \in 1..n : a[j] = p[j]
      BY <1>1, <1>4, <1>5
    <3>. QED
      BY <1>1, <3>1, HashAgree
  <2>2. \A j \in (n + 1)..N : a[j] = 0
    BY <1>1, <1>4
  <2>. QED
    BY <1>1, <2>1, <2>2, HashZeros
<1>7. ASSUME NEW k \in n..N
      PROVE  Hash(b, k) # 0
  <2>1. k \in Nat /\ i \in 1..(k - 1) /\ Filling(a, k)
    BY <1>1, <1>4, <1>5 DEF Filling
  <2>2. Burst(p, q, n, i, x)
    BY <1>1, <1>2
  <2>3. a[i] = p[i] /\ a[i + 1] = p[i + 1] /\ b[i] = q[i] /\ b[i + 1] = q[i + 1]
    BY <1>1, <1>3, <1>4, <1>5
  <2>4. b[i] = XorTable[a[i]][x \div 256] /\ b[i + 1] = XorTable[a[i + 1]][x % 256]
    BY <2>2, <2>3 DEF Burst
  <2>5. ASSUME NEW j \in 1..k, j # i, j # i + 1
        PROVE  b[j] = a[j]
    <3>1. CASE j <= n
      BY <1>1, <1>3, <1>4, <2>2, <2>5, <3>1 DEF Burst
    <3>2. CASE j > n
      BY <1>1, <1>3, <1>4, <3>2
    <3>. QED
      BY <1>1, <3>1, <3>2
  <2>6. Burst(a, b, k, i, x)
    BY <2>4, <2>5 DEF Burst
  <2>7. Hash(b, k) # Hash(a, k)
    BY <2>1, <2>6, BurstIsSeen
  <2>. QED
    BY <1>6, <2>7
<1>8. Undefined(b) \/ Length(b) < n \/ ~Deserializes(b)
  <2>. SUFFICES ASSUME ~Undefined(b), b[1] = SFD, ~ (Length(b) < n)
                PROVE  Hash(b, Length(b)) # 0
    BY DEF Deserializes
  <2>1. ~ (Length(b) > N)
    BY <1>3 DEF Undefined
  <2>2. Length(b) \in Nat
    <3>1. b[2] \in Byte /\ b[3] \in Byte
      BY <1>1, <1>3, <1>5 DEF Filling
    <3>2. b[2] \in Nat /\ b[3] \in Nat
      BY <3>1, ByteNat
    <3>. QED
      BY <3>2 DEF Length
  <2>3. Length(b) \in n..N
    BY <1>1, <2>1, <2>2
  <2>. QED
    BY <1>7, <2>3
<1>9. ASSUME i \notin 1..3
      PROVE  ~Undefined(b) /\ ~Deserializes(b) /\ Length(b) = n
  <2>1. Burst(p, q, n, i, x)
    BY <1>1, <1>2
  <2>2. q[1] = p[1] /\ q[2] = p[2] /\ q[3] = p[3]
    BY <1>1, <1>5, <1>9, <2>1 DEF Burst
  <2>3. b[1] = q[1] /\ b[2] = q[2] /\ b[3] = q[3]
    BY <1>1, <1>3, <1>5
  <2>4. Length(b) = n /\ b[1] = SFD
    BY <1>1, <2>2, <2>3 DEF Length
  <2>5. n \in n..N
    BY <1>1, <1>5
  <2>. QED
    BY <1>1, <1>3, <1>5, <1>7, <2>4, <2>5 DEF Undefined, Deserializes, Const
<1>. QED
  BY <1>8, <1>9 DEF b, q, n

\* So does the host, with its answer.
LEMMA AnswerRefused ==
  ASSUME NEW payload \in Seq(Byte), NEW type, NEW from, NEW to, NEW p,
         IsFrame(p, type, payload, from, to),
         NEW i \in 1..(Len(p) - 1), NEW x \in BurstSet
  PROVE  HostDeserialize(Damaged(p, i, x)) = -1
<1>. DEFINE n == Len(p)
            q == Damaged(p, i, x)
<1>1. p \in Seq(Byte) /\ n \in Nat /\ Hash(p, n) = 0 /\ Filling(p, n)
  BY LenProperties, ElementOfSeq DEF IsFrame, Filling
<1>2. Len(q) = n /\ Burst(p, q, n, i, x)
  BY <1>1, DamagedIs
<1>3. Hash(q, n) # 0
  BY <1>1, <1>2, BurstIsSeen
<1>. HIDE DEF q
<1>. QED
  BY <1>2, <1>3 DEF HostDeserialize, q

LEMMA AnswerTaken ==
  ASSUME NEW type
  PROVE  \A p : IsFrame(p, type, <<>>, BoardId, 0) => HostDeserialize(p) = type
  BY DEF IsFrame, HostDeserialize

-----------------------------------------------------------------------------
(* The inductive invariant                                                 *)

Frame == HostSerialize(packet.type, packet.payload)
Heard == HostDeserialize(wire)
Unhurt == hurt \subseteq {"data"}

\* The packet pk has the bytes of the program pr behind the first o, up to e.
Part(pr, pk, o, e) ==
  /\ pk.type = ProgramData /\ o \in Nat /\ e = o + Len(pk.payload) /\ e <= Len(pr)
  /\ Len(pk.payload) \in 1..MaxData /\ (e < Len(pr) => Len(pk.payload) = MaxData)
  /\ pk.payload = SubSeq(pr, o + 1, e)

\* The bytes g and the flash f hold the first o bytes of pr.
Holds(pr, o, g, f) ==
  /\ g = SubSeq(pr, 1, o) /\ o <= Len(f) /\ SubSeq(f, 1, o) = SubSeq(pr, 1, o)
  /\ o < Len(pr) => Len(f) = o

\* The board has taken k packets, made of the first o bytes of pr.  A packet that was hit and
\* ended early left less than these, and no later one makes up for it.
Taken(pr, o, k, g, f) ==
  /\ o < Len(pr) => o = k * MaxData
  /\ o = Len(pr) => k = Quantity(Len(pr))
  /\ Len(g) <= o
  /\ Len(g) = o => Holds(pr, o, g, f)

\* What the board knows of the request: all, or no HMAC that a program has.
Announced(pr, c, h) == h \in {0, Hmac[pr]} /\ (h = Hmac[pr] => c = Quantity(Len(pr)))

Board(o) ==
  /\ Taken(prog, o, counter, got, flash) /\ Announced(prog, count, hmac)
  /\ Unhurt => hmac = Hmac[prog] /\ Len(got) = o

Base  == offset - Len(packet.payload)
Waits == Part(prog, packet, Base, offset) /\ Board(Base)

Complete(pr, f, c) ==
  Len(f) >= Len(pr) /\ SubSeq(f, 1, Len(pr)) = pr /\ c = Quantity(Len(pr))

Types ==
  /\ prog \in Programs /\ offset \in 0..Len(prog)
  /\ packet \in [type : Byte, payload : Seq(Byte)]
  /\ wire \in Seq(Byte) /\ data \in [1..MaxData -> Byte]
  /\ flash \in Seq(Byte) /\ got \in Seq(Byte)
  /\ counter \in Nat /\ count \in Nat /\ hmac \in Nat /\ counter <= count
  /\ at \in {"request", "data", "sent", "done", "failed", "undefined"}
  /\ dir \in {"none", "board", "host"} /\ hit \in BOOLEAN

\* What is on the line.
Idle     == wire = <<>> /\ ~hit
OnItsWay ==
  IF hit
  THEN /\ \E i \in 1..(Len(Frame) - 1), x \in Bursts :
            wire = Damaged(Frame, i, x) /\ (i \in 1..3 => ~Unhurt)
       /\ at = "request" => ~Unhurt
  ELSE wire = Frame
AnswerOnItsWay ==
  \E t \in {Ack, Nack, FatalError, Finished} :
    IF hit
    THEN ~Unhurt /\ \E i \in 1..(Const - 1), x \in Bursts :
                      wire = Damaged(BoardSerialize(t), i, x)
    ELSE wire = BoardSerialize(t)
Line ==
  /\ dir = "none" => Idle
  /\ dir = "board" => at \in {"request", "data"} /\ OnItsWay
  /\ dir = "host" => at \in {"request", "data", "sent"} /\ AnswerOnItsWay

\* How far the transfer is.
AtRequest ==
  /\ offset = 0
  /\ dir = "board" => packet.type = UpdateRequest /\ packet.payload = Header
  /\ dir = "host" => /\ Heard = Ack => Board(0)
                     /\ Unhurt => Heard = Ack
AtData ==
  /\ dir = "none" => Board(offset)
  /\ dir = "board" => Waits
  /\ dir = "host" => /\ Heard = Ack => Board(offset)
                     /\ Heard = Nack => Waits
                     /\ Unhurt => Heard \in {Ack, Nack}
AtSent ==
  /\ offset = Len(prog)
  /\ dir = "none" => Board(offset)
  /\ dir = "host" => /\ Heard = Finished => Complete(prog, flash, count)
                     /\ Unhurt => Heard = Finished
Way ==
  /\ at = "request" => AtRequest
  /\ at = "data" => AtData
  /\ at = "sent" => AtSent
  /\ at = "done" => Complete(prog, flash, count)
  /\ Unhurt => at \notin {"failed", "undefined"}

Inv == Types /\ Line /\ Way

-----------------------------------------------------------------------------
(* The constants                                                           *)

LEMMA Sizes ==
  /\ MaxData \in Nat /\ MaxData >= 1 /\ MaxData + Const < 256 * 256
  /\ Page \in 1..MaxData /\ MaxData % Page = 0
  /\ CliLen \in Nat /\ CliLen >= 16 /\ Const = 7
  BY SizesAssumption DEF Const

LEMMA Kinds ==
  /\ Ack \in Byte /\ Nack \in Byte /\ FatalError \in Byte /\ Finished \in Byte
  /\ UpdateRequest \in Byte /\ ProgramData \in Byte
  /\ UpdateRequest \in Carried /\ ProgramData \in Carried
  /\ Ack # Nack /\ Ack # FatalError /\ Ack # Finished
  /\ Nack # FatalError /\ Nack # Finished /\ FatalError # Finished
  /\ -1 # Ack /\ -1 # Nack /\ -1 # FatalError /\ -1 # Finished
  BY DEF Ack, Nack, FatalError, Finished, UpdateRequest, ProgramData, Carried, Byte

LEMMA HmacIs ==
  /\ \A p \in Programs : Hmac[p] \in Byte /\ Hmac[p] >= 1 /\ Hmac[p] \in Nat
  /\ \A p, q \in Programs : Hmac[p] = Hmac[q] => p = q
<1>. DEFINE n == Cardinality(Programs)
<1>1. n \in Nat /\ n <= 255 /\ ExistsBijection(1..n, Programs)
  BY ProgramsAssumption, FS_CardinalityType
<1>2. ExistsBijection(Programs, 1..n)
  BY <1>1, Fun_ExistsBijSymmetric
<1>3. \E f : f \in Injection(Programs, 1..n)
  BY <1>2, Zenon DEF ExistsBijection, Bijection
<1>4. Hmac \in Injection(Programs, 1..n)
  BY <1>3, Zenon DEF Hmac
<1>. HIDE DEF n
<1>5. Hmac \in [Programs -> 1..n] /\ \A p, q \in Programs : Hmac[p] = Hmac[q] => p = q
  BY <1>4, Fun_InjectionProperties, Zenon
<1>6. \A c \in 1..n : c \in 1..255
  BY <1>1
<1>7. \A c \in 1..255 : c \in Byte /\ c >= 1 /\ c \in Nat
  BY DEF Byte
<1>. QED
  BY <1>5, <1>6, <1>7

LEMMA ProgramIs ==
  ASSUME NEW p \in Programs
  PROVE  p \in Seq(Byte) /\ Len(p) \in Nat
  BY ProgramsAssumption, LenProperties

\* A number of packets.
LEMMA QuantityIs ==
  ASSUME NEW n \in Nat
  PROVE  /\ Quantity(n) \in Nat
         /\ n <= Quantity(n) * MaxData /\ Quantity(n) * MaxData < n + MaxData
<1>. DEFINE m == MaxData
<1>1. m \in Nat /\ m >= 1
  BY Sizes
<1>. DEFINE a == n + m - 1
            q == a \div m
<1>2. a \in Nat
  BY <1>1
<1>3. q \in Nat /\ q * m <= a /\ a < q * m + m
  BY <1>1, <1>2
<1>. HIDE DEF q
<1>4. q * m \in Nat
  BY <1>1, <1>3
<1>5. Quantity(n) = q
  BY DEF Quantity, q
<1>. QED
  BY <1>1, <1>3, <1>4, <1>5

LEMMA Monotone ==
  ASSUME NEW a \in Nat, NEW b \in Nat, NEW m \in Nat, m >= 1
  PROVE  /\ a * m \in Nat /\ b * m \in Nat
         /\ a * m < b * m <=> a < b
         /\ a * m <= b * m <=> a <= b
         /\ (a + 1) * m = a * m + m
  OBVIOUS

\* Of k full packets and one more that may not be full there are k + 1.
LEMMA QuantityOf ==
  ASSUME NEW k \in Nat, NEW l \in 1..MaxData
  PROVE  Quantity(k * MaxData + l) = k + 1
<1>. DEFINE m == MaxData
            n == k * m + l
            q == Quantity(n)
<1>1. m \in Nat /\ m >= 1 /\ k * m \in Nat
  BY Sizes, Monotone
<1>2. n \in Nat
  BY <1>1
<1>3. q \in Nat /\ n <= q * m /\ q * m < n + m
  BY <1>2, QuantityIs
<1>. HIDE DEF q
<1>4. q * m \in Nat /\ (k + 1) * m = k * m + m /\ ((k + 1) + 1) * m = (k + 1) * m + m
  BY <1>1, <1>3, Monotone
<1>5. k * m < q * m /\ q * m < ((k + 1) + 1) * m
  BY <1>1, <1>3, <1>4
<1>6. k < q /\ q < (k + 1) + 1
  BY <1>1, <1>3, <1>5, Monotone
<1>7. q = k + 1
  BY <1>3, <1>6
<1>. QED
  BY <1>7 DEF q

LEMMA QuantityZero == Quantity(0) = 0
<1>1. Quantity(0) \in Nat /\ Quantity(0) * MaxData < 0 + MaxData
  BY QuantityIs
<1>2. Quantity(0) < 1
  BY <1>1, Sizes, Monotone
<1>. QED
  BY <1>1, <1>2

\* As long as a packet is missing, fewer were taken than there are.
LEMMA QuantityMore ==
  ASSUME NEW k \in Nat, NEW n \in Nat, k * MaxData < n
  PROVE  k < Quantity(n)
<1>1. Quantity(n) \in Nat /\ n <= Quantity(n) * MaxData
  BY QuantityIs
<1>2. k * MaxData < Quantity(n) * MaxData
  BY <1>1, Sizes, Monotone
<1>. QED
  BY <1>1, <1>2, Sizes, Monotone

\* Four bytes and the number they stand for.
Number(a, b, c, d) == 16777216 * a + 65536 * b + 256 * c + d

LEMMA LongIs ==
  ASSUME NEW n \in Nat, n \div (256 * 256) < 256 * 256
  PROVE  /\ Long(n) \in Seq(Byte) /\ Len(Long(n)) = 4
         /\ Number(Long(n)[1], Long(n)[2], Long(n)[3], Long(n)[4]) = n
<1>. DEFINE q1 == n \div 256
            q2 == n \div 65536
            q3 == n \div 16777216
            a == q3 % 256
            b == q2 % 256
            c == q1 % 256
            d == n % 256
<1>1. a \in Byte /\ b \in Byte /\ c \in Byte /\ d \in Byte
  BY DEF Byte
<1>2. Number(a, b, c, d) = n
  <2>1. q1 \in Nat /\ q2 \in Nat /\ q3 \in Nat /\ q2 < 65536
    OBVIOUS
  <2>2. 256 * q1 <= n /\ n < 256 * q1 + 256 /\ d = n - 256 * q1
    OBVIOUS
  <2>3. 65536 * q2 <= n /\ n < 65536 * q2 + 65536
    OBVIOUS
  <2>4. 16777216 * q3 <= n /\ n < 16777216 * q3 + 16777216
    OBVIOUS
  <2>. HIDE DEF q1, q2, q3, d
  <2>5. 256 * q2 <= q1 /\ q1 < 256 * q2 + 256
    BY <2>1, <2>2, <2>3
  <2>6. 256 * q3 <= q2 /\ q2 < 256 * q3 + 256
    BY <2>1, <2>3, <2>4
  <2>7. c = q1 - 256 * q2
    BY <2>1, <2>5
  <2>8. b = q2 - 256 * q3
    BY <2>1, <2>6
  <2>9. a = q3
    BY <2>1, <2>6
  <2>. HIDE DEF a, b, c
  <2>. QED
    BY <2>1, <2>2, <2>7, <2>8, <2>9 DEF Number
<1>. HIDE DEF a, b, c, d
<1>. DEFINE h == <<a, b>>
            l == <<c, d>>
            s == h \o l
<1>3. /\ h \in Seq(Byte) /\ Len(h) = 2 /\ h[1] = a /\ h[2] = b
      /\ l \in Seq(Byte) /\ Len(l) = 2 /\ l[1] = c /\ l[2] = d
  BY <1>1
<1>4. Long(n) = s
  BY DEF Long, HighLow, a, b, c, d
<1>. HIDE DEF h, l
<1>5. /\ s \in Seq(Byte) /\ Len(s) = Len(h) + Len(l)
      /\ \A i \in 1..Len(h) : s[i] = h[i]
      /\ \A i \in 1..Len(l) : s[Len(h) + i] = l[i]
  <2>1. h \in Seq(Byte) /\ l \in Seq(Byte)
    BY <1>3
  <2>. QED
    BY ONLY <2>1, Joined DEF s
<1>. HIDE DEF s
<1>6. Len(s) = 4 /\ \A i \in 1..2 : s[i] = h[i] /\ s[2 + i] = l[i]
  BY <1>3, <1>5
<1>7. s[1] = h[1] /\ s[2] = h[2] /\ s[2 + 1] = l[1] /\ s[2 + 2] = l[2]
  BY ONLY <1>6
<1>8. 2 + 1 = 3 /\ 2 + 2 = 4
  OBVIOUS
<1>9. s[1] = a /\ s[2] = b /\ s[3] = c /\ s[4] = d
  BY <1>3, <1>7, <1>8
<1>10. Number(s[1], s[2], s[3], s[4]) = n
  BY ONLY <1>2, <1>9
<1>. QED
  BY ONLY <1>4, <1>5, <1>6, <1>10

-----------------------------------------------------------------------------
(* The packets                                                             *)

\* The request: one packet of the sizes' and the program's data.
LEMMA HeaderIs ==
  ASSUME prog \in Programs
  PROVE  /\ Header \in Seq(Byte) /\ Len(Header) = 9
         /\ PacketCount(Header) = Quantity(Len(prog)) /\ Header[9] = Hmac[prog]
<1>. DEFINE n == Quantity(Len(prog))
            a == Long(1)
            b == Long(n)
            h == a \o b
<1>1. n \in Nat /\ n \div (256 * 256) < 256 * 256 /\ Hmac[prog] \in Byte
  BY ProgramIs, QuantityIs, ProgramsAssumption, HmacIs
<1>2. 1 \in Nat /\ 1 \div (256 * 256) < 256 * 256
  OBVIOUS
<1>3. a \in Seq(Byte) /\ Len(a) = 4
  BY <1>2, LongIs
<1>. HIDE DEF n
<1>4. /\ b \in Seq(Byte) /\ Len(b) = 4
      /\ Number(b[1], b[2], b[3], b[4]) = n
  BY <1>1, LongIs
<1>. HIDE DEF a, b
<1>5. /\ h \in Seq(Byte) /\ Len(h) = Len(a) + Len(b)
      /\ \A i \in 1..Len(b) : h[Len(a) + i] = b[i]
  <2>1. a \in Seq(Byte) /\ b \in Seq(Byte)
    BY <1>3, <1>4
  <2>. QED
    BY ONLY <2>1, Joined DEF h
<1>. HIDE DEF h
<1>6. Len(h) = 8
  BY <1>3, <1>4, <1>5
<1>7. h[5] = b[1] /\ h[6] = b[2] /\ h[7] = b[3] /\ h[8] = b[4]
  <2>1. \A i \in 1..4 : h[4 + i] = b[i]
    BY <1>3, <1>4, <1>5
  <2>2. h[4 + 1] = b[1] /\ h[4 + 2] = b[2] /\ h[4 + 3] = b[3] /\ h[4 + 4] = b[4]
    BY ONLY <2>1
  <2>3. 4 + 1 = 5 /\ 4 + 2 = 6 /\ 4 + 3 = 7 /\ 4 + 4 = 8
    OBVIOUS
  <2>. QED
    BY <2>2, <2>3
<1>8. Header = Append(h, Hmac[prog])
  BY DEF Header, h, a, b, n
<1>9. /\ Header \in Seq(Byte) /\ Len(Header) = 9 /\ Header[9] = Hmac[prog]
      /\ \A i \in 1..8 : Header[i] = h[i]
  <2>1. h \in Seq(Byte) /\ Hmac[prog] \in Byte
    BY <1>1, <1>5
  <2>2. /\ Header \in Seq(Byte) /\ Len(Header) = Len(h) + 1
        /\ Header[Len(h) + 1] = Hmac[prog] /\ \A i \in 1..Len(h) : Header[i] = h[i]
    BY ONLY <1>8, <2>1, AppendProperties
  <2>3. Len(h) + 1 = 9
    BY <1>6
  <2>. QED
    BY <1>6, <2>2, <2>3
<1>10. PacketCount(Header) = n
  <2>1. Header[5] = b[1] /\ Header[6] = b[2] /\ Header[7] = b[3] /\ Header[8] = b[4]
    BY <1>7, <1>9
  <2>. QED
    BY <1>4, <2>1 DEF PacketCount, Number
<1>. QED
  BY <1>9, <1>10 DEF n

\* The answers of the board.
LEMMA AnswerHeard ==
  ASSUME NEW t \in Byte
  PROVE  /\ BoardSerialize(t) \in Seq(Byte) /\ Len(BoardSerialize(t)) = Const
         /\ HostDeserialize(BoardSerialize(t)) = t
<1>1. IsFrame(BoardSerialize(t), t, <<>>, BoardId, 0)
  BY BoardFrame
<1>2. HostDeserialize(BoardSerialize(t)) = t
  BY <1>1, AnswerTaken
<1>3. Len(<<>>) + Const = Const
  BY EmptySeq DEF Const
<1>. QED
  BY <1>1, <1>2, <1>3 DEF IsFrame

LEMMA AnswerHurt ==
  ASSUME NEW t \in Byte, NEW i \in 1..(Const - 1), NEW x \in Bursts
  PROVE  LET q == Damaged(BoardSerialize(t), i, x)
         IN  q \in Seq(Byte) /\ Len(q) = Const /\ HostDeserialize(q) = -1
<1>. DEFINE p == BoardSerialize(t)
<1>1. IsFrame(p, t, <<>>, BoardId, 0)
  BY BoardFrame
<1>2. p \in Seq(Byte) /\ Len(p) = Const
  BY AnswerHeard
<1>. HIDE DEF p
<1>3. i \in 1..(Len(p) - 1) /\ x \in BurstSet /\ <<>> \in Seq(Byte)
  BY <1>2, BurstsAreBursts
<1>4. Damaged(p, i, x) \in Seq(Byte) /\ Len(Damaged(p, i, x)) = Const
  BY <1>2, <1>3, DamagedIs
<1>5. HostDeserialize(Damaged(p, i, x)) = -1
  BY <1>1, <1>3, AnswerRefused
<1>. QED
  BY <1>4, <1>5 DEF p

\* What a frame leaves in the buffer of its payload.
LEMMA CopiedIs ==
  ASSUME NEW b \in Seq(Byte), ~Undefined(b), Len(b) >= Const,
         NEW n \in Nat, NEW d \in [1..n -> Byte]
  PROVE  /\ Copied(b, d) \in [1..n -> Byte]
         /\ b[1] = SFD /\ b[6] \in Carried =>
              \A i \in 1..n : Copied(b, d)[i] =
                 IF i <= Length(b) - Const THEN b[Const - 1 + i] ELSE d[i]
<1>. DEFINE c == Copied(b, d)
<1>1. CASE b[1] = SFD /\ b[6] \in Carried
  <2>1. c = [i \in 1..n |-> IF i <= Length(b) - Const THEN b[Const - 1 + i] ELSE d[i]]
    BY <1>1 DEF Copied
  <2>2. b[2] \in Nat /\ b[3] \in Nat /\ Len(b) \in Nat
    <3>1. b[2] \in Byte /\ b[3] \in Byte /\ Len(b) \in Nat
      BY ElementOfSeq, LenProperties DEF Const
    <3>. QED
      BY <3>1, ByteNat
  <2>3. Length(b) \in Nat /\ ~ (Length(b) > Len(b))
    BY <1>1, <2>2 DEF Length, Undefined
  <2>4. ASSUME NEW i \in 1..n, i <= Length(b) - Const
        PROVE  b[Const - 1 + i] \in Byte
    <3>1. Const - 1 + i \in 1..Len(b)
      BY <2>2, <2>3, <2>4 DEF Const
    <3>. QED
      BY <3>1, ElementOfSeq
  <2>. HIDE DEF c
  <2>5. \A i \in 1..n : c[i] = IF i <= Length(b) - Const THEN b[Const - 1 + i] ELSE d[i]
    BY <2>1
  <2>6. \A i \in 1..n : c[i] \in Byte
    BY <2>4, <2>5
  <2>7. c \in [1..n -> Byte]
    BY <2>1, <2>6
  <2>. QED
    BY <2>5, <2>7 DEF c
<1>2. CASE ~ (b[1] = SFD /\ b[6] \in Carried)
  BY <1>2 DEF Copied
<1>. QED
  BY <1>1, <1>2

\* The block is as long as the buffer and starts with the packet; a full packet is the block.
LEMMA FilledIs ==
  ASSUME NEW d \in [1..MaxData -> Byte], NEW n \in 1..MaxData
  PROVE  /\ Filled(d, n) \in Seq(Byte) /\ Len(Filled(d, n)) = MaxData
         /\ \A i \in 1..n : Filled(d, n)[i] = d[i]
<1>1. MaxData \in Nat /\ Erased \in Byte
  BY Sizes DEF Erased, Byte
<1>2. Filled(d, n) \in [1..MaxData -> Byte] /\ \A i \in 1..n : Filled(d, n)[i] = d[i]
  <2>1. CASE n % Page # 0
    <3>1. Filled(d, n) = [i \in 1..MaxData |-> IF i <= n THEN d[i] ELSE Erased]
      BY <2>1 DEF Filled
    <3>2. \A i \in 1..MaxData : Filled(d, n)[i] \in Byte
      BY <1>1, <3>1
    <3>3. \A i \in 1..n : i \in 1..MaxData /\ i <= n
      BY <1>1
    <3>. QED
      BY <3>1, <3>2, <3>3
  <2>2. CASE ~ (n % Page # 0)
    BY <2>2 DEF Filled
  <2>. QED
    BY <2>1, <2>2
<1>. QED
  BY <1>1, <1>2, FunctionIsSeq

-----------------------------------------------------------------------------
(* The board's progress                                                    *)

LEMMA NoneTaken ==
  ASSUME NEW p \in Programs
  PROVE  Taken(p, 0, 0, <<>>, <<>>)
<1>1. p \in Seq(Byte) /\ Len(p) \in Nat
  BY ProgramIs
<1>2. 0 = 0 * MaxData
  BY Sizes
<1>3. Quantity(0) = 0 /\ Len(<<>>) = 0
  BY QuantityZero, EmptySeq
<1>4. SubSeq(p, 1, 0) = <<>>
  BY <1>1
<1>5. SubSeq(<<>>, 1, 0) = <<>>
  OBVIOUS
<1>. QED
  BY <1>1, <1>2, <1>3, <1>4, <1>5 DEF Taken, Holds

LEMMA FirstIs ==
  ASSUME NEW S, NEW s \in Seq(S), NEW k \in Nat, k <= Len(s)
  PROVE  LET q == SubSeq(s, 1, k)
         IN  q \in Seq(S) /\ Len(q) = k /\ \A i \in 1..k : q[i] = s[i]
<1>1. 0 \in Nat /\ 0 + k = k /\ 0 + 1 = 1 /\ \A i \in 1..k : 0 + i = i
  OBVIOUS
<1>. DEFINE q == SubSeq(s, 0 + 1, 0 + k)
<1>2. q \in Seq(S) /\ Len(q) = k /\ \A i \in 1..k : q[i] = s[0 + i]
  BY ONLY <1>1, s \in Seq(S), k \in Nat, k <= Len(s), PartIs DEF q
<1>3. q = SubSeq(s, 1, k)
  BY <1>1
<1>. HIDE DEF q
<1>. QED
  BY <1>1, <1>2, <1>3

LEMMA PartCounted ==
  ASSUME NEW p \in Programs, NEW k \in Nat, NEW pk, NEW o, NEW e, NEW g, NEW f,
         Part(p, pk, o, e), Taken(p, o, k, g, f)
  PROVE  /\ o = k * MaxData /\ o < Len(p)
         /\ e < Len(p) => e = (k + 1) * MaxData
         /\ e = Len(p) => k + 1 = Quantity(Len(p))
<1>. DEFINE l == Len(pk.payload)
<1>1. /\ o \in Nat /\ e = o + l /\ e <= Len(p) /\ l \in 1..MaxData
      /\ e < Len(p) => l = MaxData
  BY DEF Part
<1>. HIDE DEF l
<1>2. Len(p) \in Nat /\ MaxData \in Nat /\ MaxData >= 1
  BY ProgramIs, Sizes
<1>3. o < Len(p)
  BY <1>1, <1>2
<1>4. o = k * MaxData
  BY <1>3 DEF Taken
<1>5. (k + 1) * MaxData = k * MaxData + MaxData
  BY <1>2, Monotone
<1>6. Quantity(k * MaxData + l) = k + 1
  BY <1>1, QuantityOf
<1>7. e = k * MaxData + l
  BY <1>1, <1>4
<1>8. e < Len(p) => e = (k + 1) * MaxData
  BY <1>1, <1>5, <1>7
<1>9. e = Len(p) => k + 1 = Quantity(Len(p))
  BY <1>6, <1>7
<1>. QED
  BY <1>3, <1>4, <1>8, <1>9

\* The bytes h of the packet, and the block w: if none is missing, they go on where the program
\* ended so far.
LEMMA PartHeld ==
  ASSUME NEW p \in Programs, NEW pk, NEW o, NEW e, Part(p, pk, o, e),
         NEW g \in Seq(Byte), NEW f \in Seq(Byte), NEW w \in Seq(Byte), Len(w) = MaxData,
         \A i \in 1..Len(pk.payload) : w[i] = pk.payload[i],
         Holds(p, o, g, f)
  PROVE  Holds(p, e, g \o pk.payload, f \o w)
<1>. DEFINE l == Len(pk.payload)
            h == pk.payload
            g2 == g \o h
            f2 == f \o w
<1>1. /\ p \in Seq(Byte) /\ Len(p) \in Nat /\ Len(f) \in Nat /\ Len(g) \in Nat
      /\ MaxData \in Nat
  BY ProgramIs, Sizes, LenProperties
<1>2. /\ o \in Nat /\ e = o + l /\ e <= Len(p) /\ l \in 1..MaxData
      /\ e < Len(p) => l = MaxData
  BY DEF Part
<1>. HIDE DEF l
<1>3. l \in Nat /\ o + l <= Len(p) /\ o < Len(p) /\ e \in Nat /\ o <= Len(p)
  BY <1>1, <1>2
<1>4. h \in Seq(Byte) /\ Len(h) = l /\ \A i \in 1..l : h[i] = p[o + i]
  <2>1. h = SubSeq(p, o + 1, o + l)
    BY <1>2 DEF Part
  <2>. HIDE DEF h
  <2>2. p \in Seq(Byte) /\ o \in Nat /\ l \in Nat /\ o + l <= Len(p)
    BY <1>1, <1>2, <1>3
  <2>. QED
    BY ONLY <2>1, <2>2, PartIs
<1>5. g = SubSeq(p, 1, o) /\ o <= Len(f) /\ SubSeq(f, 1, o) = SubSeq(p, 1, o) /\ Len(f) = o
  BY <1>3 DEF Holds
<1>. HIDE DEF h, l
<1>6. /\ SubSeq(p, 1, o) \in Seq(Byte) /\ Len(SubSeq(p, 1, o)) = o
      /\ \A i \in 1..o : SubSeq(p, 1, o)[i] = p[i]
  BY <1>1, <1>2, <1>3, FirstIs
<1>7. \A i \in 1..o : f[i] = p[i] /\ g[i] = p[i]
  <2>1. \A i \in 1..o : SubSeq(f, 1, o)[i] = f[i]
    BY <1>1, <1>2, <1>5, FirstIs
  <2>. QED
    BY <1>5, <1>6, <2>1
<1>8. Len(g) = o
  BY <1>5, <1>6
<1>9. /\ g2 \in Seq(Byte) /\ Len(g2) = Len(g) + Len(h)
      /\ \A i \in 1..Len(g) : g2[i] = g[i]
      /\ \A i \in 1..Len(h) : g2[Len(g) + i] = h[i]
  <2>1. h \in Seq(Byte)
    BY <1>4
  <2>. QED
    BY ONLY <2>1, g \in Seq(Byte), Joined DEF g2
<1>10. /\ f2 \in Seq(Byte) /\ Len(f2) = Len(f) + Len(w)
       /\ \A i \in 1..Len(f) : f2[i] = f[i]
       /\ \A i \in 1..Len(w) : f2[Len(f) + i] = w[i]
  BY ONLY f \in Seq(Byte), w \in Seq(Byte), Joined DEF f2
<1>. HIDE DEF g2, f2
<1>11. Len(g2) = e /\ Len(f2) = o + MaxData
  BY <1>2, <1>4, <1>5, <1>8, <1>9, <1>10
<1>12. ASSUME NEW i \in 1..e
       PROVE  g2[i] = p[i] /\ f2[i] = p[i]
  <2>1. CASE i <= o
    <3>1. i \in 1..o
      BY <1>2, <2>1
    <3>. QED
      BY <1>5, <1>7, <1>8, <1>9, <1>10, <3>1
  <2>2. CASE ~ (i <= o)
    <3>. DEFINE j == i - o
    <3>1. j \in 1..l /\ o + j = i /\ j \in 1..MaxData
      BY <1>1, <1>2, <1>3, <2>2
    <3>. HIDE DEF j
    <3>2. g2[o + j] = h[j]
      BY <1>4, <1>8, <1>9, <3>1
    <3>3. f2[o + j] = w[j]
      BY <1>5, <1>10, <3>1
    <3>4. w[j] = h[j]
      BY <3>1 DEF h, l
    <3>5. h[j] = p[o + j]
      BY <1>4, <3>1
    <3>. QED
      BY <3>1, <3>2, <3>3, <3>4, <3>5
  <2>. QED
    BY <2>1, <2>2
<1>13. e <= Len(f2)
  BY <1>1, <1>2, <1>11
<1>14. /\ SubSeq(p, 1, e) \in Seq(Byte) /\ Len(SubSeq(p, 1, e)) = e
       /\ \A i \in 1..e : SubSeq(p, 1, e)[i] = p[i]
  BY <1>1, <1>2, <1>3, FirstIs
<1>15. /\ SubSeq(f2, 1, e) \in Seq(Byte) /\ Len(SubSeq(f2, 1, e)) = e
       /\ \A i \in 1..e : SubSeq(f2, 1, e)[i] = f2[i]
  BY <1>3, <1>10, <1>13, FirstIs
<1>16. g2 = SubSeq(p, 1, e)
  BY <1>3, <1>9, <1>11, <1>12, <1>14, SameElements
<1>17. SubSeq(f2, 1, e) = SubSeq(p, 1, e)
  BY <1>3, <1>12, <1>14, <1>15, SameElements
<1>18. e < Len(p) => Len(f2) = e
  BY <1>2, <1>11
<1>. QED
  BY <1>13, <1>16, <1>17, <1>18 DEF Holds, g2, f2, h

LEMMA PartTaken ==
  ASSUME NEW p \in Programs, NEW k \in Nat, NEW pk, NEW o, NEW e, Part(p, pk, o, e),
         NEW g \in Seq(Byte), NEW f \in Seq(Byte), Taken(p, o, k, g, f),
         NEW h \in Seq(Byte), Len(h) < Len(pk.payload) \/ h = pk.payload,
         NEW w \in Seq(Byte), Len(w) = MaxData,
         h = pk.payload => \A i \in 1..Len(pk.payload) : w[i] = pk.payload[i]
  PROVE  /\ Taken(p, e, k + 1, g \o h, f \o w)
         /\ Len(g) = o /\ h = pk.payload => Len(g \o h) = e
<1>. DEFINE l == Len(pk.payload)
            g2 == g \o h
            f2 == f \o w
<1>1. o \in Nat /\ e = o + l /\ l \in Nat /\ e <= Len(p)
  BY Sizes DEF Part
<1>2. Len(g) \in Nat /\ Len(h) \in Nat /\ Len(g) <= o
  BY LenProperties DEF Taken
<1>3. Len(g2) = Len(g) + Len(h)
  BY ONLY g \in Seq(Byte), h \in Seq(Byte), Joined
<1>4. /\ e < Len(p) => e = (k + 1) * MaxData
      /\ e = Len(p) => k + 1 = Quantity(Len(p))
  BY PartCounted
<1>5. Len(h) <= l /\ (Len(h) = l => h = pk.payload)
  <2>1. CASE h = pk.payload
    BY <1>1, <2>1
  <2>2. CASE Len(h) < l
    BY <1>1, <1>2, <2>2
  <2>3. Len(h) < l \/ h = pk.payload
    OBVIOUS
  <2>. HIDE DEF l
  <2>. QED
    BY ONLY <2>1, <2>2, <2>3
<1>. HIDE DEF l, g2, f2
<1>6. Len(g2) <= e
  BY <1>1, <1>2, <1>3, <1>5
<1>7. ASSUME Len(g2) = e
      PROVE  Holds(p, e, g2, f2)
  <2>1. Len(g) = o /\ Len(h) = l
    <3>. DEFINE a == Len(g)
                b == Len(h)
    <3>1. a \in Nat /\ b \in Nat /\ a <= o /\ b <= l /\ a + b = o + l
      BY <1>1, <1>2, <1>3, <1>5, <1>7
    <3>. HIDE DEF a, b
    <3>2. a = o /\ b = l
      BY ONLY <1>1, <3>1
    <3>. QED
      BY <3>2 DEF a, b
  <2>2. h = pk.payload
    BY <1>5, <2>1
  <2>3. Holds(p, o, g, f)
    BY <2>1 DEF Taken
  <2>4. Holds(p, e, g \o pk.payload, f \o w)
    BY <2>2, <2>3, PartHeld
  <2>. QED
    BY <2>2, <2>4 DEF g2, f2
<1>8. Len(g) = o /\ h = pk.payload => Len(g2) = e
  BY <1>1, <1>3 DEF l
<1>9. Taken(p, e, k + 1, g2, f2)
  BY <1>4, <1>6, <1>7 DEF Taken
<1>. QED
  BY <1>8, <1>9 DEF g2, f2

-----------------------------------------------------------------------------
(* What arrives                                                            *)

Room == IF at = "request" THEN CliLen ELSE MaxData + Const

LEMMA Sent ==
  ASSUME Inv, dir = "board"
  PROVE  /\ packet.payload \in Seq(Byte) /\ packet.type \in Carried /\ packet.type \in Byte
         /\ Len(packet.payload) >= 1
         /\ IsFrame(Frame, packet.type, packet.payload, 0, BoardId)
         /\ Room \in Nat /\ Len(Frame) <= Room /\ Const <= Room
         /\ at \in {"request", "data"} /\ OnItsWay
<1>1. at \in {"request", "data"} /\ OnItsWay
  BY DEF Inv, Line
<1>2. packet.payload \in Seq(Byte) /\ packet.type \in Byte /\ prog \in Programs
  BY DEF Inv, Types
<1>3. CASE at = "request"
  <2>1. packet.type = UpdateRequest /\ packet.payload = Header
    BY <1>3 DEF Inv, Way, AtRequest
  <2>2. Len(packet.payload) = 9
    BY <1>2, <2>1, HeaderIs
  <2>3. Len(packet.payload) + Const < 256 * 256 /\ Room \in Nat /\ Room >= 16
    BY <1>3, <2>2, Sizes DEF Room
  <2>4. IsFrame(Frame, packet.type, packet.payload, 0, BoardId)
    BY <1>2, <2>3, HostFrame DEF Frame
  <2>5. Len(Frame) = 16
    BY <2>2, <2>4, Sizes DEF IsFrame
  <2>. QED
    BY <1>1, <1>2, <2>1, <2>2, <2>3, <2>4, <2>5, Kinds, Sizes
<1>4. CASE at = "data"
  <2>1. packet.type = ProgramData /\ Len(packet.payload) \in 1..MaxData
    BY <1>4 DEF Inv, Way, AtData, Waits, Part
  <2>2. /\ Len(packet.payload) + Const < 256 * 256 /\ Room \in Nat
        /\ Len(packet.payload) + Const <= Room /\ Const <= Room /\ Len(packet.payload) >= 1
    BY <1>4, <2>1, Sizes DEF Room
  <2>3. IsFrame(Frame, packet.type, packet.payload, 0, BoardId)
    BY <1>2, <2>2, HostFrame DEF Frame
  <2>4. Len(Frame) <= Room
    BY <2>2, <2>3 DEF IsFrame
  <2>. QED
    BY <1>1, <1>2, <2>1, <2>2, <2>3, <2>4, Kinds
<1>. QED
  BY <1>1, <1>3, <1>4

LEMMA ArrivesWhole ==
  ASSUME Inv, dir = "board", ~hit
  PROVE  LET b == Buffer(wire, Room)
         IN  /\ b \in Seq(Byte) /\ Len(b) = Room /\ b[1] = SFD
             /\ Length(b) = Len(packet.payload) + Const
             /\ b[5] = BoardId /\ b[6] = packet.type
             /\ \A i \in 1..Len(packet.payload) : b[Const - 1 + i] = packet.payload[i]
             /\ ~Undefined(b) /\ Deserializes(b) /\ Payload(b) = packet.payload
<1>1. wire = Frame
  BY Sent DEF OnItsWay
<1>2. /\ packet.payload \in Seq(Byte) /\ Room \in Nat /\ Len(Frame) <= Room
      /\ IsFrame(Frame, packet.type, packet.payload, 0, BoardId)
  BY Sent
<1>. HIDE DEF Room
<1>. QED
  BY ONLY <1>1, <1>2, FrameTaken

LEMMA ArrivesHurt ==
  ASSUME Inv, dir = "board", hit
  PROVE  LET b == Buffer(wire, Room)
         IN  /\ b \in Seq(Byte) /\ Len(b) = Room /\ wire \in Seq(Byte)
             /\ Len(wire) = Len(packet.payload) + Const /\ Len(wire) <= Room
             /\ Undefined(b) \/ Length(b) < Len(wire) \/ ~Deserializes(b)
             /\ Unhurt => ~Undefined(b) /\ ~Deserializes(b)
             /\ at = "request" => ~Unhurt
<1>1. /\ packet.payload \in Seq(Byte) /\ Room \in Nat /\ Len(Frame) <= Room
      /\ IsFrame(Frame, packet.type, packet.payload, 0, BoardId)
      /\ OnItsWay
  BY Sent
<1>2. PICK i \in 1..(Len(Frame) - 1), x \in Bursts :
        wire = Damaged(Frame, i, x) /\ (i \in 1..3 => ~Unhurt)
  BY <1>1 DEF OnItsWay
<1>3. at = "request" => ~Unhurt
  BY <1>1 DEF OnItsWay
<1>4. x \in BurstSet
  BY BurstsAreBursts
<1>5. Frame \in Seq(Byte) /\ Len(Frame) = Len(packet.payload) + Const
  BY <1>1 DEF IsFrame
<1>6. wire \in Seq(Byte) /\ Len(wire) = Len(Frame)
  <2>1. i \in 1..(Len(Frame) - 1)
    OBVIOUS
  <2>. QED
    BY ONLY <1>2, <1>4, <1>5, <2>1, DamagedIs
<1>7. Buffer(wire, Room) \in Seq(Byte) /\ Len(Buffer(wire, Room)) = Room
  BY <1>1, <1>6, BufferIs
<1>8. LET b == Buffer(Damaged(Frame, i, x), Room)
      IN  /\ Undefined(b) \/ Length(b) < Len(Frame) \/ ~Deserializes(b)
          /\ i \notin 1..3 => ~Undefined(b) /\ ~Deserializes(b)
  <2>1. i \in 1..(Len(Frame) - 1)
    OBVIOUS
  <2>. QED
    BY ONLY <1>1, <1>4, <2>1, DamageRefused
<1>. QED
  BY <1>1, <1>2, <1>3, <1>5, <1>6, <1>7, <1>8

LEMMA AnswerIs ==
  ASSUME Inv, dir = "host"
  PROVE  /\ wire \in Seq(Byte) /\ Len(wire) = Const
         /\ hit => ~Unhurt /\ Heard = -1
<1>1. PICK t \in {Ack, Nack, FatalError, Finished} :
        IF hit
        THEN ~Unhurt /\ \E i \in 1..(Const - 1), x \in Bursts :
                          wire = Damaged(BoardSerialize(t), i, x)
        ELSE wire = BoardSerialize(t)
  BY DEF Inv, Line, AnswerOnItsWay
<1>2. t \in Byte
  BY Kinds
<1>3. CASE hit
  <2>1. PICK i \in 1..(Const - 1), x \in Bursts : wire = Damaged(BoardSerialize(t), i, x)
    BY <1>1, <1>3
  <2>2. wire \in Seq(Byte) /\ Len(wire) = Const /\ HostDeserialize(wire) = -1
    BY <1>2, <2>1, AnswerHurt
  <2>. QED
    BY <1>1, <1>3, <2>2 DEF Heard
<1>4. CASE ~hit
  BY <1>1, <1>2, <1>4, AnswerHeard
<1>. QED
  BY <1>3, <1>4

-----------------------------------------------------------------------------
(* What the invariant says                                                 *)

LEMMA InvTypes == Inv => TypeOK
<1>. SUFFICES ASSUME Inv PROVE TypeOK
  OBVIOUS
<1>1. wire \in Seq(Byte) /\ Len(wire) <= Room
  <2>1. dir \in {"none", "board", "host"}
    BY DEF Inv, Types
  <2>2. CASE dir = "none"
    <3>1. wire = <<>>
      BY <2>2 DEF Inv, Line, Idle
    <3>. QED
      BY <3>1, Sizes, EmptySeq DEF Room
  <2>3. CASE dir = "board"
    <3>1. CASE hit
      BY <2>3, <3>1, ArrivesHurt
    <3>2. CASE ~hit
      <4>1. wire = Frame
        BY <2>3, <3>2, Sent DEF OnItsWay
      <4>. QED
        BY <2>3, <4>1, Sent DEF IsFrame
    <3>. QED
      BY <3>1, <3>2
  <2>4. CASE dir = "host"
    <3>1. wire \in Seq(Byte) /\ Len(wire) = Const
      BY <2>4, AnswerIs
    <3>2. Const <= Room
      BY Sizes DEF Room
    <3>. QED
      BY <3>1, <3>2
  <2>. QED
    BY <2>1, <2>2, <2>3, <2>4
<1>. QED
  BY <1>1 DEF TypeOK, Inv, Types, Room

LEMMA InvFrames == Inv => FramesAgree
<1>. SUFFICES ASSUME Inv, dir = "board", ~hit
              PROVE  /\ ~Undefined(Checked) /\ Deserializes(Checked)
                     /\ Checked[5] = BoardId /\ Checked[6] = packet.type
                     /\ Payload(Checked) = packet.payload
  BY DEF FramesAgree
<1>1. Checked = Buffer(wire, Room)
  BY DEF Checked, Room
<1>. QED
  BY <1>1, ArrivesWhole

LEMMA InvDamage == Inv => DamageIsRefused
<1>. SUFFICES ASSUME Inv, hit
              PROVE  \/ dir = "host" /\ HostDeserialize(wire) = -1
                     \/ dir = "board" /\ Undefined(Checked)
                     \/ dir = "board" /\ Length(Checked) < Len(wire)
                     \/ dir = "board" /\ ~Deserializes(Checked)
  BY DEF DamageIsRefused
<1>1. Checked = Buffer(wire, Room)
  BY DEF Checked, Room
<1>2. dir = "board" \/ dir = "host"
  BY DEF Inv, Types, Line, Idle
<1>3. CASE dir = "board"
  BY <1>1, <1>3, ArrivesHurt
<1>4. CASE dir = "host"
  BY <1>4, AnswerIs DEF Heard
<1>. QED
  BY <1>2, <1>3, <1>4

LEMMA InvFlash == Inv => FlashHoldsProgram
  BY DEF Inv, Way, Complete, FlashHoldsProgram

LEMMA InvRepaired == Inv => DataIsRepaired
  BY DEF Inv, Way, Unhurt, DataIsRepaired

-----------------------------------------------------------------------------
(* The invariant is kept                                                   *)

LEMMA InitInv == Init => Inv
<1>. SUFFICES ASSUME Init PROVE Inv
  OBVIOUS
<1>1. /\ prog \in Programs /\ offset = 0 /\ packet = [type |-> Nack, payload |-> <<>>]
      /\ wire = <<>> /\ dir = "none" /\ at = "request" /\ hit = FALSE
      /\ data = [i \in 1..MaxData |-> 0] /\ flash = <<>> /\ got = <<>>
      /\ counter = 0 /\ count = 0 /\ hmac = 0
  BY DEF Init
<1>2. Types
  <2>1. offset \in 0..Len(prog)
    BY <1>1, ProgramIs
  <2>2. packet \in [type : Byte, payload : Seq(Byte)] /\ <<>> \in Seq(Byte)
    BY <1>1, Kinds, EmptySeq
  <2>3. data \in [1..MaxData -> Byte]
    BY <1>1, ZeroBits
  <2>4. wire \in Seq(Byte) /\ flash \in Seq(Byte) /\ got \in Seq(Byte)
    BY <1>1, <2>2
  <2>5. counter \in Nat /\ count \in Nat /\ hmac \in Nat /\ counter <= count
    BY <1>1
  <2>6. hit \in BOOLEAN
    BY <1>1
  <2>. QED
    BY <1>1, <2>1, <2>2, <2>3, <2>4, <2>5, <2>6 DEF Types
<1>3. Line
  BY <1>1 DEF Line, Idle
<1>4. Way
  BY <1>1 DEF Way, AtRequest
<1>. QED
  BY <1>2, <1>3, <1>4 DEF Inv

LEMMA AnswerSent ==
  ASSUME NEW t \in {Ack, Nack, FatalError, Finished}, Respond(t)
  PROVE  /\ wire' \in Seq(Byte) /\ dir' = "host" /\ hit' = FALSE
         /\ AnswerOnItsWay' /\ Heard' = t
<1>1. wire' = BoardSerialize(t) /\ dir' = "host" /\ hit' = FALSE
  BY DEF Respond
<1>2. t \in Byte
  BY Kinds
<1>3. BoardSerialize(t) \in Seq(Byte) /\ HostDeserialize(BoardSerialize(t)) = t
  BY <1>2, AnswerHeard
<1>4. AnswerOnItsWay'
  BY <1>1 DEF AnswerOnItsWay
<1>. QED
  BY <1>1, <1>3, <1>4 DEF Heard

LEMMA LineIsIdle ==
  ASSUME LineIdle
  PROVE  wire' \in Seq(Byte) /\ dir' = "none" /\ hit' = FALSE /\ Line'
  BY EmptySeq DEF LineIdle, Line, Idle

LEMMA StutterStep == Inv /\ UNCHANGED vars => Inv'
<1>. SUFFICES ASSUME Inv, UNCHANGED vars PROVE Inv'
  OBVIOUS
<1>1. /\ prog' = prog /\ offset' = offset /\ packet' = packet
      /\ wire' = wire /\ dir' = dir /\ at' = at /\ hit' = hit /\ hurt' = hurt
      /\ data' = data /\ flash' = flash /\ got' = got
      /\ counter' = counter /\ count' = count /\ hmac' = hmac
  BY DEF vars, host, board
<1>2. Types'
  BY <1>1 DEF Inv, Types
<1>3. Line'
  BY <1>1 DEF Inv, Line, Idle, OnItsWay, AnswerOnItsWay, Unhurt, Frame
<1>4. Way'
  <2>1. AtRequest => AtRequest'
    BY <1>1 DEF AtRequest, Header, Heard, Board, Unhurt
  <2>2. AtData => AtData'
    BY <1>1 DEF AtData, Heard, Board, Waits, Base, Unhurt
  <2>3. AtSent => AtSent'
    BY <1>1 DEF AtSent, Heard, Board, Unhurt
  <2>. QED
    BY <1>1, <2>1, <2>2, <2>3 DEF Inv, Way, Unhurt
<1>. QED
  BY <1>2, <1>3, <1>4 DEF Inv

LEMMA RequestStep == Inv /\ Request => Inv'
<1>. SUFFICES ASSUME Inv, Request PROVE Inv'
  OBVIOUS
<1>1. /\ at = "request" /\ dir = "none" /\ HostSends(UpdateRequest, Header)
      /\ UNCHANGED <<prog, offset, at, hit, hurt, hits, board>>
  BY DEF Request
<1>2. /\ packet' = [type |-> UpdateRequest, payload |-> Header]
      /\ wire' = HostSerialize(UpdateRequest, Header) /\ dir' = "board"
  BY <1>1 DEF HostSends
<1>3. hit = FALSE
  BY <1>1 DEF Inv, Types, Line, Idle
<1>4. Header \in Seq(Byte) /\ Len(Header) = 9 /\ Len(Header) + Const < 256 * 256
  <2>1. prog \in Programs
    BY DEF Inv, Types
  <2>2. Header \in Seq(Byte) /\ Len(Header) = 9
    BY <2>1, HeaderIs
  <2>. QED
    BY <2>2, Sizes
<1>5. wire' \in Seq(Byte)
  BY <1>2, <1>4, HostFrame, Kinds DEF IsFrame
<1>6. Types'
  BY <1>1, <1>2, <1>4, <1>5, Kinds DEF Inv, Types, board
<1>7. Line'
  BY <1>1, <1>2, <1>3 DEF Line, OnItsWay, Frame
<1>8. Header' = Header
  BY <1>1 DEF Header
<1>9. Way'
  BY <1>1, <1>2, <1>8 DEF Inv, Way, AtRequest, Unhurt
<1>. QED
  BY <1>6, <1>7, <1>9 DEF Inv

LEMMA ChunkIs ==
  ASSUME prog \in Programs, offset \in 0..Len(prog)
  PROVE  /\ Chunk \in Seq(Byte) /\ Len(Chunk) \in 0..MaxData /\ offset + Len(Chunk) <= Len(prog)
         /\ Chunk = <<>> => offset = Len(prog)
         /\ Chunk # <<>> => Len(Chunk) >= 1
         /\ offset + Len(Chunk) < Len(prog) => Len(Chunk) = MaxData
         /\ Chunk = SubSeq(prog, offset + 1, offset + Len(Chunk))
<1>. DEFINE e == IF offset + MaxData < Len(prog) THEN offset + MaxData ELSE Len(prog)
            k == e - offset
<1>1. prog \in Seq(Byte) /\ Len(prog) \in Nat /\ MaxData \in Nat /\ MaxData >= 1
  BY ProgramIs, Sizes
<1>2. /\ offset \in Nat /\ k \in 0..MaxData /\ k \in Nat
      /\ offset + k = e /\ offset + k <= Len(prog)
      /\ k = 0 => offset = Len(prog)
      /\ offset + k < Len(prog) => k = MaxData
  BY <1>1
<1>3. Chunk = SubSeq(prog, offset + 1, e)
  BY DEF Chunk
<1>. HIDE DEF e, k
<1>4. Chunk = SubSeq(prog, offset + 1, offset + k)
  BY <1>2, <1>3
<1>5. Chunk \in Seq(Byte) /\ Len(Chunk) = k
  BY ONLY <1>1, <1>2, <1>4, PartIs
<1>6. Chunk = <<>> => k = 0
  BY <1>5, EmptySeq
<1>7. Chunk # <<>> => k # 0
  BY <1>5, EmptySeq
<1>8. Chunk = SubSeq(prog, offset + 1, offset + Len(Chunk))
  BY <1>4, <1>5
<1>9. Chunk # <<>> => k >= 1
  BY <1>2, <1>7
<1>. QED
  BY ONLY <1>2, <1>5, <1>6, <1>8, <1>9

LEMMA SendNextStep == Inv /\ SendNext => Inv'
<1>. SUFFICES ASSUME Inv, SendNext PROVE Inv'
  OBVIOUS
<1>1. /\ at = "data" /\ dir = "none" /\ UNCHANGED <<prog, hit, hurt, hits, board>>
      /\ IF Chunk = <<>>
         THEN at' = "sent" /\ UNCHANGED <<offset, packet, wire, dir>>
         ELSE HostSends(ProgramData, Chunk) /\ offset' = offset + Len(Chunk) /\ UNCHANGED at
  BY DEF SendNext
<1>2. prog \in Programs /\ offset \in 0..Len(prog) /\ Types
  BY DEF Inv, Types
<1>3. wire = <<>> /\ hit = FALSE /\ Board(offset)
  BY <1>1 DEF Inv, Types, Line, Idle, Way, AtData
<1>4. /\ Chunk \in Seq(Byte) /\ Len(Chunk) \in 0..MaxData /\ offset + Len(Chunk) <= Len(prog)
      /\ Chunk = <<>> => offset = Len(prog)
      /\ Chunk # <<>> => Len(Chunk) >= 1
      /\ offset + Len(Chunk) < Len(prog) => Len(Chunk) = MaxData
      /\ Chunk = SubSeq(prog, offset + 1, offset + Len(Chunk))
  BY <1>2, ChunkIs
<1>5. /\ prog' = prog /\ hit' = hit /\ hurt' = hurt
      /\ data' = data /\ flash' = flash /\ got' = got
      /\ counter' = counter /\ count' = count /\ hmac' = hmac
  BY <1>1 DEF board
<1>6. CASE Chunk = <<>>
  <2>1. at' = "sent" /\ offset' = offset /\ packet' = packet /\ wire' = wire /\ dir' = dir
    BY <1>1, <1>6
  <2>2. Types'
    BY <1>2, <1>5, <2>1 DEF Types
  <2>3. Line'
    BY <1>1, <1>3, <1>5, <2>1 DEF Line, Idle
  <2>4. Board(offset)'
    BY <1>3, <1>5, <2>1 DEF Board, Unhurt
  <2>5. Way'
    BY <1>1, <1>4, <1>5, <1>6, <2>1, <2>4 DEF Way, AtSent
  <2>. QED
    BY <2>2, <2>3, <2>5 DEF Inv
<1>7. CASE Chunk # <<>>
  <2>1. /\ packet' = [type |-> ProgramData, payload |-> Chunk]
        /\ wire' = HostSerialize(ProgramData, Chunk) /\ dir' = "board"
        /\ offset' = offset + Len(Chunk) /\ at' = at
    BY <1>1, <1>7 DEF HostSends
  <2>2. offset \in Nat /\ Len(prog) \in Nat /\ Len(Chunk) \in 1..MaxData
    BY <1>2, <1>4, <1>7, Sizes, ProgramIs
  <2>3. offset' \in 0..Len(prog') /\ offset' <= Len(prog)
    BY <1>4, <1>5, <2>1, <2>2
  <2>4. wire' \in Seq(Byte)
    <3>1. Len(Chunk) + Const < 256 * 256
      BY <2>2, Sizes
    <3>. QED
      BY <1>4, <2>1, <3>1, HostFrame, Kinds DEF IsFrame
  <2>5. packet' \in [type : Byte, payload : Seq(Byte)]
    BY <1>4, <2>1, Kinds
  <2>6. Types'
    BY <1>2, <1>5, <2>1, <2>3, <2>4, <2>5 DEF Types
  <2>7. Line'
    BY <1>1, <1>3, <1>5, <2>1 DEF Line, OnItsWay, Frame
  <2>8. Base' = offset
    BY <2>1, <2>2 DEF Base
  <2>9. Part(prog, packet, Base, offset)'
    <3>1. packet'.type = ProgramData /\ packet'.payload = Chunk
      BY <2>1
    <3>2. Part(prog, packet', offset, offset')
      BY <1>4, <2>1, <2>2, <2>3, <3>1 DEF Part
    <3>. QED
      BY <1>5, <2>8, <3>2
  <2>10. Board(Base)'
    BY <1>3, <1>5, <2>8 DEF Board, Unhurt
  <2>11. Way'
    BY <1>1, <2>1, <2>9, <2>10 DEF Way, AtData, Waits
  <2>. QED
    BY <2>6, <2>7, <2>11 DEF Inv
<1>. QED
  BY <1>6, <1>7

LEMMA AnsweredStep == Inv /\ Answered => Inv'
<1>. SUFFICES ASSUME Inv, Answered PROVE Inv'
  OBVIOUS
<1>1. /\ dir = "host" /\ Heard = Ack /\ at \in {"request", "data"}
      /\ LineIdle /\ at' = "data" /\ UNCHANGED <<host, hurt, hits, board>>
  BY DEF Answered, Heard
<1>2. wire' \in Seq(Byte) /\ dir' = "none" /\ hit' = FALSE /\ Line'
  BY <1>1, LineIsIdle
<1>3. /\ prog' = prog /\ offset' = offset /\ packet' = packet /\ hurt' = hurt
      /\ data' = data /\ flash' = flash /\ got' = got
      /\ counter' = counter /\ count' = count /\ hmac' = hmac
  BY <1>1 DEF host, board
<1>4. Types'
  BY <1>1, <1>2, <1>3 DEF Inv, Types
<1>5. Board(offset)
  BY <1>1 DEF Inv, Way, AtRequest, AtData
<1>6. Board(offset)'
  BY <1>3, <1>5 DEF Board, Unhurt
<1>7. Way'
  BY <1>1, <1>2, <1>6 DEF Way, AtData
<1>. QED
  BY <1>2, <1>4, <1>7 DEF Inv

LEMMA SendAgainStep == Inv /\ SendAgain => Inv'
<1>. SUFFICES ASSUME Inv, SendAgain PROVE Inv'
  OBVIOUS
<1>1. /\ dir = "host" /\ Heard = Nack /\ at = "data" /\ hit' = FALSE
      /\ HostSends(packet.type, packet.payload) /\ UNCHANGED <<prog, offset, at, hurt, hits, board>>
  BY DEF SendAgain, Heard
<1>2. /\ packet' = [type |-> packet.type, payload |-> packet.payload]
      /\ wire' = HostSerialize(packet.type, packet.payload) /\ dir' = "board"
  BY <1>1 DEF HostSends
<1>3. /\ prog' = prog /\ offset' = offset /\ at' = at /\ hurt' = hurt
      /\ data' = data /\ flash' = flash /\ got' = got
      /\ counter' = counter /\ count' = count /\ hmac' = hmac
  BY <1>1 DEF board
<1>4. packet.type \in Byte /\ packet.payload \in Seq(Byte) /\ Types
  BY DEF Inv, Types
<1>5. /\ packet' \in [type : Byte, payload : Seq(Byte)]
      /\ packet'.type = packet.type /\ packet'.payload = packet.payload
  BY <1>2, <1>4
<1>6. Waits
  BY <1>1 DEF Inv, Way, AtData
<1>7. wire' \in Seq(Byte)
  <2>1. Len(packet.payload) + Const < 256 * 256
    BY <1>6, Sizes DEF Waits, Part
  <2>. QED
    BY <1>2, <1>4, <2>1, HostFrame DEF IsFrame
<1>8. Types'
  BY <1>1, <1>2, <1>3, <1>4, <1>5, <1>7 DEF Types
<1>9. Line'
  BY <1>1, <1>2, <1>3, <1>5 DEF Line, OnItsWay, Frame
<1>10. Waits'
  <2>1. Base' = Base
    BY <1>3, <1>5 DEF Base
  <2>2. Part(prog, packet, Base, offset)'
    BY <1>3, <1>5, <1>6, <2>1 DEF Waits, Part
  <2>3. Board(Base)'
    BY <1>3, <1>6, <2>1 DEF Waits, Board, Unhurt
  <2>. QED
    BY <2>2, <2>3 DEF Waits
<1>11. Way'
  BY <1>1, <1>2, <1>3, <1>10 DEF Way, AtData
<1>. QED
  BY <1>8, <1>9, <1>11 DEF Inv

LEMMA ConcludeStep == Inv /\ Conclude => Inv'
<1>. SUFFICES ASSUME Inv, Conclude PROVE Inv'
  OBVIOUS
<1>1. /\ dir = "host" /\ Heard = Finished /\ at = "sent"
      /\ LineIdle /\ at' = "done" /\ UNCHANGED <<host, hurt, hits, board>>
  BY DEF Conclude, Heard
<1>2. wire' \in Seq(Byte) /\ dir' = "none" /\ hit' = FALSE /\ Line'
  BY <1>1, LineIsIdle
<1>3. /\ prog' = prog /\ offset' = offset /\ packet' = packet /\ hurt' = hurt
      /\ data' = data /\ flash' = flash /\ got' = got
      /\ counter' = counter /\ count' = count /\ hmac' = hmac
  BY <1>1 DEF host, board
<1>4. Types'
  BY <1>1, <1>2, <1>3 DEF Inv, Types
<1>5. Complete(prog, flash, count)
  BY <1>1 DEF Inv, Way, AtSent
<1>6. Way'
  BY <1>1, <1>3, <1>5 DEF Way
<1>. QED
  BY <1>2, <1>4, <1>6 DEF Inv

LEMMA FailStep == Inv /\ Fail => Inv'
<1>. SUFFICES ASSUME Inv, Fail PROVE Inv'
  OBVIOUS
<1>1. /\ dir = "host" /\ LineIdle /\ at' = "failed" /\ UNCHANGED <<host, hurt, hits, board>>
      /\ Heard \notin
           (CASE at = "request" -> {Ack} [] at = "data" -> {Ack, Nack} [] OTHER -> {Finished})
  BY DEF Fail, Heard
<1>2. wire' \in Seq(Byte) /\ dir' = "none" /\ hit' = FALSE /\ Line'
  BY <1>1, LineIsIdle
<1>3. /\ prog' = prog /\ offset' = offset /\ packet' = packet /\ hurt' = hurt
      /\ data' = data /\ flash' = flash /\ got' = got
      /\ counter' = counter /\ count' = count /\ hmac' = hmac
  BY <1>1 DEF host, board
<1>4. Types'
  BY <1>1, <1>2, <1>3 DEF Inv, Types
<1>5. ~Unhurt
  <2>1. at \in {"request", "data", "sent"}
    BY <1>1 DEF Inv, Line
  <2>2. CASE at = "request"
    BY <1>1, <2>2 DEF Inv, Way, AtRequest
  <2>3. CASE at = "data"
    BY <1>1, <2>3 DEF Inv, Way, AtData
  <2>4. CASE at = "sent"
    BY <1>1, <2>4 DEF Inv, Way, AtSent
  <2>. QED
    BY <2>1, <2>2, <2>3, <2>4
<1>6. Way'
  BY <1>1, <1>3, <1>5 DEF Way, Unhurt
<1>. QED
  BY <1>2, <1>4, <1>6 DEF Inv

LEMMA HitStep == Inv /\ Hit => Inv'
<1>. SUFFICES ASSUME Inv, Hit PROVE Inv'
  OBVIOUS
<1>1. /\ dir # "none" /\ ~hit /\ hit' = TRUE /\ UNCHANGED <<host, dir, at, board>>
  BY DEF Hit
<1>2. PICK i \in 1..(Len(wire) - 1), x \in Bursts :
        wire' = Damaged(wire, i, x) /\ hurt' = hurt \cup {Field(i)}
  BY DEF Hit, Damaged
<1>3. /\ prog' = prog /\ offset' = offset /\ packet' = packet /\ dir' = dir /\ at' = at
      /\ data' = data /\ flash' = flash /\ got' = got
      /\ counter' = counter /\ count' = count /\ hmac' = hmac
  BY <1>1 DEF host, board
<1>4. dir \in {"board", "host"} /\ wire \in Seq(Byte) /\ Types
  BY <1>1 DEF Inv, Types
<1>5. wire' \in Seq(Byte)
  <2>1. i \in 1..(Len(wire) - 1) /\ x \in BurstSet
    BY BurstsAreBursts
  <2>. QED
    BY ONLY <1>2, <1>4, <2>1, DamagedIs
<1>6. Types'
  BY <1>1, <1>3, <1>4, <1>5 DEF Types
<1>7. Unhurt' => Unhurt
  BY <1>2 DEF Unhurt
<1>8. Field(i) # "data" => ~Unhurt'
  BY <1>2 DEF Unhurt
<1>9. CASE dir = "board"
  <2>1. wire = Frame /\ at \in {"request", "data"}
    BY <1>1, <1>9 DEF Inv, Line, OnItsWay
  <2>2. i \in 1..3 => ~Unhurt'
    BY <1>8, <1>9 DEF Field
  <2>3. at' = "request" => ~Unhurt'
    BY <1>3, <1>8, <1>9 DEF Field
  <2>4. Frame' = Frame
    BY <1>3 DEF Frame
  <2>5. i \in 1..(Len(Frame') - 1) /\ x \in Bursts /\ wire' = Damaged(Frame', i, x)
    BY <1>2, <2>1, <2>4
  <2>6. OnItsWay'
    BY <1>1, <2>2, <2>3, <2>5 DEF OnItsWay
  <2>7. Line'
    BY <1>3, <1>9, <2>1, <2>6 DEF Line
  <2>8. AtRequest => AtRequest'
    BY <1>3, <1>9 DEF AtRequest, Header
  <2>9. AtData => AtData'
    <3>. SUFFICES ASSUME AtData PROVE AtData'
      OBVIOUS
    <3>1. Waits
      BY <1>9 DEF AtData
    <3>2. Base' = Base
      BY <1>3 DEF Base
    <3>3. Part(prog, packet, Base, offset)'
      BY <1>3, <3>1, <3>2 DEF Waits, Part
    <3>4. Board(Base)'
      BY <1>3, <1>7, <3>1, <3>2 DEF Waits, Board
    <3>. QED
      BY <1>3, <1>9, <3>3, <3>4 DEF AtData, Waits
  <2>10. Way'
    BY <1>3, <1>7, <2>1, <2>8, <2>9 DEF Inv, Way
  <2>. QED
    BY <1>6, <2>7, <2>10 DEF Inv
<1>10. CASE dir = "host"
  <2>1. at \in {"request", "data", "sent"}
    BY <1>10 DEF Inv, Line
  <2>2. PICK t \in {Ack, Nack, FatalError, Finished} : wire = BoardSerialize(t)
    BY <1>1, <1>10 DEF Inv, Line, AnswerOnItsWay
  <2>3. t \in Byte
    BY Kinds
  <2>4. Len(wire) = Const
    BY <2>2, <2>3, AnswerHeard
  <2>5. i \in 1..(Const - 1) /\ wire' = Damaged(BoardSerialize(t), i, x)
    BY <1>2, <2>2, <2>4
  <2>6. Heard' = -1
    BY <2>3, <2>5, AnswerHurt DEF Heard
  <2>7. ~Unhurt'
    BY <1>8, <1>10 DEF Field
  <2>8. AnswerOnItsWay'
    BY <1>1, <2>5, <2>7 DEF AnswerOnItsWay
  <2>9. Line'
    BY <1>3, <1>10, <2>1, <2>8 DEF Line
  <2>10. Heard' # Ack /\ Heard' # Nack /\ Heard' # Finished
    BY <2>6, Kinds
  <2>11. AtRequest => AtRequest'
    BY <1>3, <1>10, <2>7, <2>10 DEF AtRequest
  <2>12. AtData => AtData'
    BY <1>3, <1>10, <2>7, <2>10 DEF AtData
  <2>13. AtSent => AtSent'
    BY <1>3, <1>10, <2>7, <2>10 DEF AtSent
  <2>14. Way'
    BY <1>3, <2>1, <2>7, <2>11, <2>12, <2>13 DEF Inv, Way
  <2>. QED
    BY <1>6, <2>9, <2>14 DEF Inv
<1>. QED
  BY <1>4, <1>9, <1>10

LEMMA UndefinedStep == Inv /\ ReceiveUndefined => Inv'
<1>. SUFFICES ASSUME Inv, ReceiveUndefined PROVE Inv'
  OBVIOUS
<1>1. /\ dir = "board" /\ LineIdle /\ at' = "undefined" /\ UNCHANGED <<host, hurt, hits, board>>
      /\ Undefined(Buffer(wire, Room))
  BY DEF ReceiveUndefined, Room
<1>2. wire' \in Seq(Byte) /\ dir' = "none" /\ hit' = FALSE /\ Line'
  BY <1>1, LineIsIdle
<1>3. /\ prog' = prog /\ offset' = offset /\ packet' = packet /\ hurt' = hurt
      /\ data' = data /\ flash' = flash /\ got' = got
      /\ counter' = counter /\ count' = count /\ hmac' = hmac
  BY <1>1 DEF host, board
<1>4. Types'
  BY <1>1, <1>2, <1>3 DEF Inv, Types
<1>5. hit
  BY <1>1, ArrivesWhole
<1>6. ~Unhurt
  BY <1>1, <1>5, ArrivesHurt
<1>7. Way'
  BY <1>1, <1>3, <1>6 DEF Way, Unhurt
<1>. QED
  BY <1>2, <1>4, <1>7 DEF Inv

LEMMA NoMoreStep == Inv /\ ReceiveNoMore => Inv'
<1>. SUFFICES ASSUME Inv, ReceiveNoMore PROVE Inv'
  OBVIOUS
<1>1. /\ at = "data" /\ dir = "board" /\ counter = count /\ Respond(FatalError)
      /\ UNCHANGED <<host, at, hurt, hits, board>>
  BY DEF ReceiveNoMore
<1>2. wire' \in Seq(Byte) /\ dir' = "host" /\ hit' = FALSE /\ AnswerOnItsWay' /\ Heard' = FatalError
  BY <1>1, AnswerSent
<1>3. /\ prog' = prog /\ offset' = offset /\ packet' = packet /\ hurt' = hurt /\ at' = at
      /\ data' = data /\ flash' = flash /\ got' = got
      /\ counter' = counter /\ count' = count /\ hmac' = hmac
  BY <1>1 DEF host, board
<1>4. Types'
  BY <1>2, <1>3 DEF Inv, Types
<1>5. Line'
  BY <1>1, <1>2, <1>3 DEF Line
<1>6. ~Unhurt
  <2>. SUFFICES ASSUME Unhurt PROVE FALSE
    OBVIOUS
  <2>1. Waits /\ prog \in Programs /\ counter \in Nat
    BY <1>1 DEF Inv, Types, Way, AtData
  <2>2. count = Quantity(Len(prog))
    BY <2>1 DEF Waits, Board, Announced
  <2>3. Part(prog, packet, Base, offset) /\ Taken(prog, Base, counter, got, flash)
    BY <2>1 DEF Waits, Board
  <2>4. Base = counter * MaxData /\ Base < Len(prog)
    <3>. HIDE DEF Base
    <3>. QED
      BY ONLY <2>1, <2>3, PartCounted
  <2>5. counter < Quantity(Len(prog))
    BY <2>1, <2>4, ProgramIs, QuantityMore
  <2>6. Quantity(Len(prog)) \in Nat
    BY <2>1, ProgramIs, QuantityIs
  <2>. QED
    BY <1>1, <2>1, <2>2, <2>5, <2>6
<1>7. Way'
  BY <1>1, <1>2, <1>3, <1>6, Kinds DEF Way, AtData, Unhurt
<1>. QED
  BY <1>4, <1>5, <1>7 DEF Inv

LEMMA CountIs ==
  ASSUME NEW p, p[5] \in Nat, p[6] \in Nat, p[7] \in Nat, p[8] \in Nat
  PROVE  PacketCount(p) \in Nat
<1>. DEFINE a == p[5]
            b == p[6]
            c == p[7]
            d == p[8]
<1>1. PacketCount(p) = 16777216 * a + 65536 * b + 256 * c + d
  BY DEF PacketCount
<1>2. a \in Nat /\ b \in Nat /\ c \in Nat /\ d \in Nat
  OBVIOUS
<1>. HIDE DEF a, b, c, d
<1>3. 16777216 * a \in Nat /\ 65536 * b \in Nat /\ 256 * c \in Nat
  BY ONLY <1>2
<1>4. 16777216 * a + 65536 * b \in Nat
  BY ONLY <1>3
<1>. QED
  BY ONLY <1>1, <1>2, <1>3, <1>4

LEMMA ReceiveRequestStep == Inv /\ ReceiveRequest => Inv'
<1>. SUFFICES ASSUME Inv, ReceiveRequest PROVE Inv'
  OBVIOUS
<1>. DEFINE b == Buffer(wire, Room)
            zeros == Buffer(<<>>, CliLen)
            header == Copied(b, zeros)
<1>1. at = "request" /\ dir = "board" /\ ~Undefined(b) /\ UNCHANGED <<host, at, hurt, hits>>
  BY DEF ReceiveRequest, Room
<1>2. IF Deserializes(b) /\ b[6] = UpdateRequest
      THEN /\ count' = PacketCount(header) /\ hmac' = header[9]
           /\ counter' = 0 /\ got' = <<>> /\ flash' = <<>>
           /\ data' = [i \in 1..MaxData |-> 0]
           /\ Respond(Ack)
      ELSE Respond(Nack) /\ UNCHANGED board
  BY <1>1 DEF ReceiveRequest, Room
<1>3. prog' = prog /\ offset' = offset /\ packet' = packet /\ hurt' = hurt /\ at' = at
  BY <1>1 DEF host
<1>4. Types /\ prog \in Programs /\ offset = 0
  BY <1>1 DEF Inv, Types, Way, AtRequest
<1>5. packet.type = UpdateRequest /\ packet.payload = Header /\ Len(Header) = 9
  BY <1>1, <1>4, HeaderIs DEF Inv, Way, AtRequest
<1>6. CASE Deserializes(b) /\ b[6] = UpdateRequest
  <2>1. /\ count' = PacketCount(header) /\ hmac' = header[9]
        /\ counter' = 0 /\ got' = <<>> /\ flash' = <<>>
        /\ data' = [i \in 1..MaxData |-> 0] /\ Respond(Ack)
    BY <1>2, <1>6
  <2>2. wire' \in Seq(Byte) /\ dir' = "host" /\ hit' = FALSE /\ AnswerOnItsWay' /\ Heard' = Ack
    BY <2>1, AnswerSent
  <2>3. b \in Seq(Byte) /\ Len(b) = Room /\ Room >= Const
    BY <1>1, ArrivesWhole, ArrivesHurt, Sent
  <2>4. zeros \in [1..CliLen -> Byte] /\ \A i \in 1..CliLen : zeros[i] = 0
    <3>1. CliLen \in Nat /\ <<>> \in Seq(Byte) /\ Len(<<>>) = 0
      BY Sizes, EmptySeq
    <3>2. \A i \in 1..CliLen : i > Len(<<>>)
      BY <3>1
    <3>3. /\ zeros \in [1..CliLen -> Byte]
          /\ \A i \in 1..CliLen : i > Len(<<>>) => zeros[i] = 0
      BY ONLY <3>1, BufferIs
    <3>. QED
      BY <3>2, <3>3
  <2>5. b[1] = SFD /\ b[6] \in Carried
    BY <1>6, Kinds DEF Deserializes
  <2>. HIDE DEF b, zeros
  <2>6. /\ header \in [1..CliLen -> Byte]
        /\ \A i \in 1..CliLen : header[i] =
              IF i <= Length(b) - Const THEN b[Const - 1 + i] ELSE zeros[i]
    BY <1>1, <2>3, <2>4, <2>5, Sizes, CopiedIs
  <2>. HIDE DEF header
  <2>7. 1..9 \subseteq 1..CliLen
    BY Sizes
  <2>8. /\ header[5] \in Nat /\ header[6] \in Nat /\ header[7] \in Nat /\ header[8] \in Nat
        /\ header[9] \in Nat
    <3>1. \A i \in 1..9 : header[i] \in Byte
      BY <2>6, <2>7
    <3>. QED
      BY <3>1, ByteNat
  <2>9. count' \in Nat /\ hmac' \in Nat
    <3>1. PacketCount(header) \in Nat
      BY ONLY <2>8, CountIs
    <3>. QED
      BY <2>1, <2>8, <3>1
  <2>10. Types'
    <3>1. <<>> \in Seq(Byte)
      BY EmptySeq
    <3>2. data' \in [1..MaxData -> Byte]
      BY <2>1, ZeroBits
    <3>3. counter' \in Nat /\ counter' <= count'
      BY <2>1, <2>9
    <3>. QED
      BY <1>3, <1>4, <2>1, <2>2, <2>9, <3>1, <3>2, <3>3 DEF Types
  <2>11. Announced(prog, count', hmac') /\ (Unhurt => hmac' = Hmac[prog])
    <3>1. CASE ~hit
      <4>1. /\ Length(b) = Len(Header) + Const
            /\ \A i \in 1..Len(Header) : b[Const - 1 + i] = Header[i]
        BY <1>1, <1>5, <3>1, ArrivesWhole DEF b
      <4>2. Length(b) - Const = 9
        BY <1>5, <4>1 DEF Const
      <4>3. \A i \in 1..9 : header[i] = Header[i]
        BY <1>5, <2>6, <2>7, <4>1, <4>2
      <4>4. /\ header[5] = Header[5] /\ header[6] = Header[6] /\ header[7] = Header[7]
            /\ header[8] = Header[8] /\ header[9] = Header[9]
        BY <4>3
      <4>5. PacketCount(header) = PacketCount(Header)
        BY <4>4 DEF PacketCount
      <4>6. count' = Quantity(Len(prog)) /\ hmac' = Hmac[prog]
        BY <1>4, <2>1, <4>4, <4>5, HeaderIs
      <4>. QED
        BY <4>6 DEF Announced
    <3>2. CASE hit
      <4>1. Len(wire) = 16 /\ (Undefined(b) \/ Length(b) < Len(wire) \/ ~Deserializes(b)) /\ ~Unhurt
        BY <1>1, <1>5, <3>2, ArrivesHurt, Sizes DEF b
      <4>2. Length(b) < 16
        BY <1>1, <1>6, <4>1
      <4>3. Length(b) \in Nat
        <5>1. b[2] \in Byte /\ b[3] \in Byte
          BY <2>3, ElementOfSeq DEF Const
        <5>. QED
          BY <5>1, ByteNat DEF Length
      <4>4. ~ (9 <= Length(b) - Const)
        BY <4>2, <4>3 DEF Const
      <4>5. header[9] = 0
        BY <2>4, <2>6, <2>7, <4>4
      <4>6. hmac' = 0
        BY <2>1, <4>5
      <4>7. 0 # Hmac[prog]
        BY <1>4, HmacIs
      <4>. QED
        BY <4>1, <4>6, <4>7 DEF Announced
    <3>. QED
      BY <3>1, <3>2
  <2>12. Board(0)'
    <3>1. Taken(prog, 0, 0, <<>>, <<>>)
      BY <1>4, NoneTaken
    <3>2. Unhurt' => Unhurt
      BY <1>3 DEF Unhurt
    <3>3. Len(<<>>) = 0
      BY EmptySeq
    <3>. QED
      BY <1>3, <2>1, <2>11, <3>1, <3>2, <3>3 DEF Board
  <2>13. Line'
    BY <1>1, <1>3, <2>2 DEF Line
  <2>14. Way'
    BY <1>1, <1>3, <1>4, <2>2, <2>12 DEF Way, AtRequest
  <2>. QED
    BY <2>10, <2>13, <2>14 DEF Inv
<1>7. CASE ~ (Deserializes(b) /\ b[6] = UpdateRequest)
  <2>1. Respond(Nack) /\ UNCHANGED board
    BY <1>2, <1>7
  <2>2. wire' \in Seq(Byte) /\ dir' = "host" /\ hit' = FALSE /\ AnswerOnItsWay' /\ Heard' = Nack
    BY <2>1, AnswerSent
  <2>3. /\ data' = data /\ flash' = flash /\ got' = got
        /\ counter' = counter /\ count' = count /\ hmac' = hmac
    BY <2>1 DEF board
  <2>4. Types'
    BY <1>3, <1>4, <2>2, <2>3 DEF Types
  <2>5. Line'
    BY <1>1, <1>3, <2>2 DEF Line
  <2>6. hit
    BY <1>1, <1>5, <1>7, ArrivesWhole
  <2>7. ~Unhurt'
    BY <1>1, <1>3, <2>6, ArrivesHurt DEF Unhurt
  <2>8. Way'
    BY <1>1, <1>3, <1>4, <2>2, <2>7, Kinds DEF Way, AtRequest
  <2>. QED
    BY <2>4, <2>5, <2>8 DEF Inv
<1>. QED
  BY <1>6, <1>7

LEMMA CheckStep == Inv /\ Check => Inv'
<1>. SUFFICES ASSUME Inv, Check PROVE Inv'
  OBVIOUS
<1>. DEFINE t == IF counter = count /\ got \in Programs /\ Hmac[got] = hmac
                 THEN Finished ELSE FatalError
<1>1. at = "sent" /\ dir = "none" /\ Respond(t) /\ UNCHANGED <<host, at, hurt, hits, board>>
  BY DEF Check
<1>2. t \in {Ack, Nack, FatalError, Finished}
  OBVIOUS
<1>3. wire' \in Seq(Byte) /\ dir' = "host" /\ hit' = FALSE /\ AnswerOnItsWay' /\ Heard' = t
  <2>. HIDE DEF t
  <2>. QED
    BY <1>1, <1>2, AnswerSent
<1>4. /\ prog' = prog /\ offset' = offset /\ packet' = packet /\ hurt' = hurt /\ at' = at
      /\ data' = data /\ flash' = flash /\ got' = got
      /\ counter' = counter /\ count' = count /\ hmac' = hmac
  BY <1>1 DEF host, board
<1>5. Types /\ prog \in Programs /\ prog \in Seq(Byte) /\ Len(prog) \in Nat
  BY ProgramIs DEF Inv, Types
<1>6. Types'
  BY <1>3, <1>4, <1>5 DEF Types
<1>7. Line'
  BY <1>1, <1>3, <1>4 DEF Line
<1>8. offset = Len(prog) /\ Board(Len(prog))
  BY <1>1 DEF Inv, Way, AtSent
<1>9. SubSeq(prog, 1, Len(prog)) = prog
  <2>1. /\ SubSeq(prog, 1, Len(prog)) \in Seq(Byte) /\ Len(SubSeq(prog, 1, Len(prog))) = Len(prog)
        /\ \A i \in 1..Len(prog) : SubSeq(prog, 1, Len(prog))[i] = prog[i]
    BY <1>5, FirstIs
  <2>. QED
    BY <1>5, <2>1, SameElements
<1>10. Len(got) = Len(prog) =>
         got = prog /\ Len(flash) >= Len(prog) /\ SubSeq(flash, 1, Len(prog)) = prog
  <2>. SUFFICES ASSUME Len(got) = Len(prog)
                PROVE  got = prog /\ Len(prog) <= Len(flash) /\ SubSeq(flash, 1, Len(prog)) = prog
    BY <1>5, LenProperties DEF Types
  <2>1. Holds(prog, Len(prog), got, flash)
    BY <1>8 DEF Board, Taken
  <2>. QED
    BY <1>9, <2>1 DEF Holds
<1>11. Heard' = Finished => Complete(prog, flash, count)
  <2>. SUFFICES ASSUME Heard' = Finished PROVE Complete(prog, flash, count)
    OBVIOUS
  <2>1. counter = count /\ got \in Programs /\ Hmac[got] = hmac
    BY <1>3, Kinds
  <2>2. hmac \in {0, Hmac[prog]} /\ (hmac = Hmac[prog] => count = Quantity(Len(prog)))
    BY <1>8 DEF Board, Announced
  <2>3. Hmac[got] \in Nat /\ Hmac[got] >= 1
    BY <2>1, HmacIs
  <2>4. hmac # 0
    BY <2>1, <2>3
  <2>5. hmac = Hmac[prog] /\ count = Quantity(Len(prog))
    BY <2>2, <2>4
  <2>6. got = prog
    BY <1>5, <2>1, <2>5, HmacIs
  <2>. QED
    BY <1>10, <2>5, <2>6 DEF Complete
<1>12. Unhurt => Heard' = Finished
  <2>. SUFFICES ASSUME Unhurt PROVE Heard' = Finished
    OBVIOUS
  <2>1. hmac = Hmac[prog] /\ Len(got) = Len(prog)
    BY <1>8 DEF Board
  <2>2. count = Quantity(Len(prog)) /\ counter = Quantity(Len(prog))
    BY <1>8, <2>1 DEF Board, Announced, Taken
  <2>3. got = prog
    BY <1>10, <2>1
  <2>4. t = Finished
    BY <1>5, <2>1, <2>2, <2>3
  <2>. QED
    BY <1>3, <2>4
<1>. HIDE DEF t
<1>13. Way'
  BY <1>1, <1>3, <1>4, <1>8, <1>11, <1>12 DEF Way, AtSent, Unhurt
<1>. QED
  BY <1>6, <1>7, <1>13 DEF Inv

LEMMA ReceiveDataStep == Inv /\ ReceiveData => Inv'
<1>. SUFFICES ASSUME Inv, ReceiveData PROVE Inv'
  OBVIOUS
<1>. DEFINE b == Buffer(wire, Room)
            n == Length(b) - Const
            h == SubSeq(data', 1, n)
            w == Filled(data', n)
            k == Len(packet.payload)
<1>1. at = "data" /\ Room = MaxData + Const
  BY DEF ReceiveData, Room
<1>2. /\ dir = "board" /\ counter < count /\ ~Undefined(b) /\ data' = Copied(b, data)
      /\ UNCHANGED <<host, at, hurt, hits, count, hmac>>
  BY <1>1 DEF ReceiveData
<1>3. IF Deserializes(b) /\ b[5] = BoardId /\ b[6] = ProgramData /\ n > 0
      THEN got' = got \o h /\ flash' = flash \o w /\ counter' = counter + 1 /\ Respond(Ack)
      ELSE Respond(Nack) /\ UNCHANGED <<got, flash, counter>>
  BY <1>1 DEF ReceiveData
<1>4. /\ prog' = prog /\ offset' = offset /\ packet' = packet /\ hurt' = hurt /\ at' = at
      /\ count' = count /\ hmac' = hmac
  BY <1>2 DEF host
<1>5. /\ Types /\ prog \in Programs /\ data \in [1..MaxData -> Byte]
      /\ got \in Seq(Byte) /\ flash \in Seq(Byte)
      /\ counter \in Nat /\ count \in Nat /\ packet.payload \in Seq(Byte)
  BY DEF Inv, Types
<1>6. Waits
  BY <1>1, <1>2 DEF Inv, Way, AtData
<1>7. packet.type = ProgramData /\ k \in 1..MaxData
  BY <1>6 DEF Waits, Part
<1>8. b \in Seq(Byte) /\ Len(b) = Room /\ Len(b) >= Const /\ MaxData \in Nat
  BY <1>2, ArrivesWhole, ArrivesHurt, Sent, Sizes
<1>. HIDE DEF b
<1>9. /\ data' \in [1..MaxData -> Byte]
      /\ b[1] = SFD /\ b[6] \in Carried =>
           \A i \in 1..MaxData : data'[i] =
              IF i <= Length(b) - Const THEN b[Const - 1 + i] ELSE data[i]
  BY <1>2, <1>5, <1>8, CopiedIs
<1>10. CASE Deserializes(b) /\ b[5] = BoardId /\ b[6] = ProgramData /\ n > 0
  <2>1. got' = got \o h /\ flash' = flash \o w /\ counter' = counter + 1 /\ Respond(Ack)
    BY <1>3, <1>10
  <2>2. wire' \in Seq(Byte) /\ dir' = "host" /\ hit' = FALSE /\ AnswerOnItsWay' /\ Heard' = Ack
    BY <2>1, AnswerSent
  <2>3. \A i \in 1..MaxData : i <= n => data'[i] = b[Const - 1 + i]
    BY <1>9, <1>10, Kinds DEF Deserializes
  <2>4. Length(b) \in Nat /\ n \in Int
    <3>1. b[2] \in Byte /\ b[3] \in Byte
      BY <1>8, ElementOfSeq DEF Const
    <3>2. Length(b) \in Nat
      BY <3>1, ByteNat DEF Length
    <3>. QED
      BY <3>2 DEF Const
  <2>5. \/ /\ ~hit /\ n = k
           /\ \A i \in 1..k : b[Const - 1 + i] = packet.payload[i]
        \/ hit /\ ~Unhurt /\ n < k
    <3>1. CASE ~hit
      <4>1. /\ Length(b) = k + Const
            /\ \A i \in 1..k : b[Const - 1 + i] = packet.payload[i]
        BY <1>2, <3>1, ArrivesWhole DEF b
      <4>2. n = k
        BY <1>7, <4>1 DEF Const
      <4>. QED
        BY <3>1, <4>1, <4>2
    <3>2. CASE hit
      <4>1. /\ Len(wire) = k + Const /\ (Undefined(b) \/ Length(b) < Len(wire) \/ ~Deserializes(b))
            /\ (Unhurt => ~Undefined(b) /\ ~Deserializes(b))
        BY <1>2, <3>2, ArrivesHurt DEF b
      <4>2. Length(b) < k + Const /\ ~Unhurt
        BY <1>2, <1>10, <4>1
      <4>3. n < k
        BY <1>7, <2>4, <4>2 DEF Const
      <4>. QED
        BY <3>2, <4>2, <4>3
    <3>. QED
      BY <3>1, <3>2
  <2>6. n \in 1..MaxData
    <3>1. n > 0
      BY <1>10
    <3>. HIDE DEF n, k
    <3>. QED
      BY <1>7, <1>8, <2>4, <2>5, <3>1
  <2>. HIDE DEF n
  <2>7. h \in Seq(Byte) /\ Len(h) = n /\ \A i \in 1..n : h[i] = data'[i]
    <3>1. data' \in Seq(Byte) /\ Len(data') = MaxData
      BY <1>8, <1>9, FunctionIsSeq
    <3>2. n \in Nat /\ n <= Len(data')
      BY <1>8, <2>6, <3>1
    <3>. QED
      BY ONLY <3>1, <3>2, FirstIs DEF h
  <2>8. w \in Seq(Byte) /\ Len(w) = MaxData /\ \A i \in 1..n : w[i] = data'[i]
    BY <1>9, <2>6, FilledIs
  <2>. HIDE DEF h, w
  <2>9. ~hit => h = packet.payload /\ \A i \in 1..k : w[i] = packet.payload[i]
    <3>. SUFFICES ASSUME ~hit
                  PROVE  h = packet.payload /\ \A i \in 1..k : w[i] = packet.payload[i]
      OBVIOUS
    <3>1. n = k /\ \A i \in 1..k : b[Const - 1 + i] = packet.payload[i]
      BY <2>5
    <3>2. k \in Nat /\ \A i \in 1..k : i \in 1..MaxData /\ i <= k
      <4>. HIDE DEF k
      <4>. QED
        BY <1>7, <1>8
    <3>3. \A i \in 1..k : data'[i] = packet.payload[i]
      BY <2>3, <3>1, <3>2
    <3>4. \A i \in 1..k : h[i] = packet.payload[i] /\ w[i] = packet.payload[i]
      <4>1. \A i \in 1..k : h[i] = data'[i] /\ w[i] = data'[i]
        BY ONLY <2>7, <2>8, <3>1
      <4>. QED
        BY ONLY <3>3, <4>1
    <3>5. h = packet.payload
      <4>1. /\ h \in Seq(Byte) /\ packet.payload \in Seq(Byte)
            /\ Len(h) = k /\ Len(packet.payload) = k /\ k \in Nat
        BY <1>5, <2>7, <3>1, <3>2
      <4>2. \A i \in 1..k : h[i] = packet.payload[i]
        BY <3>4
      <4>. HIDE DEF k
      <4>. QED
        BY ONLY <4>1, <4>2, SameElements
    <3>. QED
      BY <3>4, <3>5
  <2>10. hit => Len(h) < k /\ h # packet.payload /\ ~Unhurt
    <3>. SUFFICES ASSUME hit PROVE Len(h) < k /\ h # packet.payload /\ ~Unhurt
      OBVIOUS
    <3>1. n < k /\ ~Unhurt
      BY <2>5
    <3>2. Len(h) < k
      BY <2>7, <3>1
    <3>3. h # packet.payload
      <4>. SUFFICES ASSUME h = packet.payload PROVE FALSE
        OBVIOUS
      <4>1. Len(h) = k
        OBVIOUS
      <4>. HIDE DEF k
      <4>. QED
        BY <1>7, <3>2, <4>1
    <3>. QED
      BY <3>1, <3>2, <3>3
  <2>11. Part(prog, packet, Base, offset) /\ Taken(prog, Base, counter, got, flash)
    BY <1>6 DEF Waits, Board
  <2>12. /\ Taken(prog, offset, counter + 1, got \o h, flash \o w)
         /\ Len(got) = Base /\ h = packet.payload => Len(got \o h) = offset
    <3>1. Len(h) < Len(packet.payload) \/ h = packet.payload
      BY <2>9, <2>10
    <3>2. h = packet.payload => \A i \in 1..Len(packet.payload) : w[i] = packet.payload[i]
      BY <2>9, <2>10
    <3>. HIDE DEF Base, k
    <3>. QED
      BY ONLY <1>5, <2>7, <2>8, <2>11, <3>1, <3>2, PartTaken
  <2>13. Board(offset)'
    <3>1. Unhurt' => ~hit /\ Unhurt
      BY <1>4, <2>10 DEF Unhurt
    <3>2. Unhurt => hmac = Hmac[prog] /\ Len(got) = Base
      BY <1>6 DEF Waits, Board
    <3>3. Unhurt' => hmac' = Hmac[prog] /\ Len(got') = offset
      BY <1>4, <2>1, <2>9, <2>12, <3>1, <3>2
    <3>4. Announced(prog, count, hmac)
      BY <1>6 DEF Waits, Board
    <3>. QED
      BY <1>4, <2>1, <2>12, <3>3, <3>4 DEF Board
  <2>14. Types'
    <3>1. got' \in Seq(Byte) /\ flash' \in Seq(Byte)
      <4>1. got \in Seq(Byte) /\ flash \in Seq(Byte) /\ h \in Seq(Byte) /\ w \in Seq(Byte)
        BY <1>5, <2>7, <2>8
      <4>. QED
        BY ONLY <2>1, <4>1, Joined
    <3>2. counter' \in Nat /\ counter' <= count'
      BY <1>2, <1>4, <1>5, <2>1
    <3>. QED
      BY <1>4, <1>5, <1>9, <2>2, <3>1, <3>2 DEF Types
  <2>15. Line'
    BY <1>1, <1>4, <2>2 DEF Line
  <2>16. Way'
    BY <1>1, <1>4, <2>2, <2>13, Kinds DEF Way, AtData
  <2>. QED
    BY <2>14, <2>15, <2>16 DEF Inv
<1>11. CASE ~ (Deserializes(b) /\ b[5] = BoardId /\ b[6] = ProgramData /\ n > 0)
  <2>1. Respond(Nack) /\ got' = got /\ flash' = flash /\ counter' = counter
    BY <1>3, <1>11
  <2>2. wire' \in Seq(Byte) /\ dir' = "host" /\ hit' = FALSE /\ AnswerOnItsWay' /\ Heard' = Nack
    BY <2>1, AnswerSent
  <2>3. Types'
    BY <1>4, <1>5, <1>9, <2>1, <2>2 DEF Types
  <2>4. Line'
    BY <1>1, <1>4, <2>2 DEF Line
  <2>5. Base' = Base
    BY <1>4 DEF Base
  <2>6. Part(prog, packet, Base, offset)'
    BY <1>4, <1>6, <2>5 DEF Waits, Part
  <2>7. Board(Base)'
    BY <1>4, <1>6, <2>1, <2>5 DEF Waits, Board, Unhurt
  <2>8. Way'
    BY <1>1, <1>4, <2>2, <2>6, <2>7, Kinds DEF Way, AtData, Waits
  <2>. QED
    BY <2>3, <2>4, <2>8 DEF Inv
<1>. QED
  BY <1>10, <1>11

LEMMA NextInv == Inv /\ [Next]_vars => Inv'
  BY RequestStep, SendNextStep, AnsweredStep, SendAgainStep, ConcludeStep, FailStep, HitStep,
     ReceiveRequestStep, ReceiveDataStep, NoMoreStep, UndefinedStep, CheckStep, StutterStep
     DEF Next

\* The line carries a frame of one of the codecs, hit or not, and what the board has received and
\* programmed is the part of the program that the host has sent, or short of it for good.
THEOREM InvInvariant == Spec => []Inv
  BY InitInv, NextInv, PTL DEF Spec

-----------------------------------------------------------------------------
(* Theorems                                                                *)

\* The checksum of both codecs (_calculate_hash, _calculate_hash of the board) tells a sequence
\* of any length from one in which bits within two neighbouring bytes were changed, all of
\* them within eight neighbouring bits.
THEOREM BurstsAreSeen ==
  ASSUME NEW n \in Nat, NEW i \in 1..(n - 1), NEW x \in Bursts,
         NEW p, NEW q, Filling(p, n), Burst(p, q, n, i, x)
  PROVE  Hash(q, n) # Hash(p, n)
  BY BurstsAreBursts, BurstIsSeen

\* For every program, board, size of packets, pages and mailbox, and any number of frames that
\* are hit: what is on the line are bytes that fit the buffer of the one who waits for them, and
\* the board never counts more packets than it was told of.
THEOREM TransferTypes == Spec => []TypeOK
  BY InvInvariant, InvTypes, PTL

\* The two codecs (fvc_protocol.py, fvc_protocol.c) agree: a frame that was not hit passes the
\* board's checks, and the type and the payload it takes from it are the ones the host sent.
THEOREM CodecsAgree == Spec => []FramesAgree
  BY InvInvariant, InvFrames, PTL

\* No frame that was hit is taken for another one, by either side, unless the board ends it
\* early because the hit made its length smaller.
THEOREM DamageIsNoticed == Spec => []DamageIsRefused
  BY InvInvariant, InvDamage, PTL

\* When the host hears of the end, the external flash holds the whole program from its start
\* on, whatever was hit on the way.
THEOREM ProgramArrives == Spec => []FlashHoldsProgram
  BY InvInvariant, InvFlash, PTL

\* As long as only payloads and checksums of data packets are hit, no transfer fails: each of
\* them is refused and sent again.
THEOREM DamageIsRepaired == Spec => []DataIsRepaired
  BY InvInvariant, InvRepaired, PTL
=============================================================================
