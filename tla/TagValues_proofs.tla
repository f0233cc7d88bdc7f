-------------------------- MODULE TagValues_proofs --------------------------
(***************************************************************************)
(* The conversions of a tag, for every integer a column or a register may  *)
(* hold.                                                                   *)
(***************************************************************************)
EXTENDS MCTagValues, TLAPS

(* A word, by its bounds.                                                  *)
LEMMA WordBounds ==
  ASSUME NEW c \in Int, 0 <= c, c <= 65535
  PROVE  c \in Word
<1>. DEFINE top == 65535
<1>1. top \in Int /\ c <= top
  OBVIOUS
<1>. HIDE DEF top
<1>2. c \in 0 .. top
  BY <1>1
<1>. QED
  BY <1>2 DEF top, Word

(* And the bounds of a word.                                               *)
LEMMA WordRange ==
  ASSUME NEW w \in Word
  PROVE  w \in Int /\ 0 <= w /\ w <= 65535
BY DEF Word

(* What the two bytes make of a quotient and a remainder.                  *)
LEMMA JoinedBytes ==
  ASSUME NEW q \in Int, NEW r \in Int, 0 <= r, r < 256
  PROVE  (256 * q + r) % 65536 = (q % 256) * 256 + r
<1>. DEFINE p == q \div 256
            m == q % 256
<1>1. p \in Int /\ m \in Int /\ 0 <= m /\ m < 256 /\ q = 256 * p + m
  OBVIOUS
<1>. HIDE DEF p, m
<1>2. 256 * q + r = 65536 * p + (m * 256 + r)
  BY <1>1
<1>3. 0 <= m * 256 + r /\ m * 256 + r < 65536 /\ m * 256 + r \in Int
  BY <1>1
<1>4. (65536 * p + (m * 256 + r)) % 65536 = m * 256 + r
  BY <1>1, <1>3
<1>. QED
  BY <1>2, <1>4 DEF m

(* The frame of any integer, negative ones included                        *)
(* (modbus_client2.cpp:198-206).                                           *)
LEMMA FrameJoined ==
  ASSUME NEW v \in Int
  PROVE  BytesToWord(FrameBytes(v)) = WordReadBack(v)
<1>. DEFINE t == TruncDiv256(v)
            r == v % 256
            high == t % 256
<1>1. BytesToWord(FrameBytes(v)) = high * 256 + r
  <2>1. FrameBytes(v) = << high, r >>
    BY DEF FrameBytes
  <2>. HIDE DEF high, r
  <2>. QED
    BY <2>1 DEF BytesToWord
<1>2. r \in Int /\ 0 <= r /\ r < 256
  OBVIOUS
<1>3. t \in Int /\ (IF v >= 0 \/ r = 0 THEN v ELSE v + 256) = 256 * t + r
  <2>1. CASE v >= 0
    BY <2>1 DEF TruncDiv256
  <2>2. CASE v < 0
    BY <2>2 DEF TruncDiv256
  <2>. QED
    BY <2>1, <2>2
<1>4. WordReadBack(v) = (IF v >= 0 \/ r = 0 THEN v ELSE v + 256) % 65536
  BY DEF WordReadBack
<1>. HIDE DEF t, r
<1>5. (256 * t + r) % 65536 = high * 256 + r
  BY <1>2, <1>3, JoinedBytes
<1>. HIDE DEF high
<1>. QED
  BY <1>1, <1>3, <1>4, <1>5

(* A register goes through the frame unchanged.                            *)
LEMMA FrameHoldsWord ==
  ASSUME NEW w \in Word
  PROVE  BytesToWord(FrameBytes(w)) = w
<1>1. w \in Int /\ w >= 0 /\ w % 65536 = w
  BY WordRange
<1>. QED
  BY <1>1, FrameJoined DEF WordReadBack

(* gstInt2Word makes a register of any integer, and gstWord2Int undoes it. *)
LEMMA Int2WordInverse ==
  ASSUME NEW v \in Int
  PROVE  gstInt2Word(v) \in Word /\ gstWord2Int(gstInt2Word(v)) = Clamp16(v)
<1>. DEFINE c == Clamp16(v)
<1>1. c \in Int /\ 0 - 32768 <= c /\ c <= 32767
  BY DEF Clamp16
<1>2. gstInt2Word(v) = IF c < 0 THEN 65535 - (-c) + 1 ELSE c
  BY DEF gstInt2Word, Complement16
<1>. HIDE DEF c
<1>3. CASE c < 0
  <2>1. gstInt2Word(v) = 65536 + c
    BY <1>1, <1>2, <1>3
  <2>2. 65536 + c \in Word /\ ~(65536 + c < 32768)
    BY <1>1, <1>3 DEF Word
  <2>3. gstWord2Int(65536 + c) = -(65535 - (65536 + c) + 1)
    BY <2>2 DEF gstWord2Int, Complement16
  <2>4. -(65535 - (65536 + c) + 1) = c
    BY <1>1
  <2>. QED
    BY <2>1, <2>2, <2>3, <2>4 DEF c
<1>4. CASE ~(c < 0)
  <2>1. gstInt2Word(v) = c
    BY <1>2, <1>4
  <2>2. c \in Word /\ c < 32768
    <3>1. c \in Int /\ 0 <= c /\ c < 32768
      BY <1>1, <1>4
    <3>. QED
      BY <3>1, WordBounds
  <2>3. gstWord2Int(c) = c
    BY <2>2 DEF gstWord2Int
  <2>. QED
    BY <2>1, <2>2, <2>3 DEF c
<1>. QED
  BY <1>3, <1>4

(* An INT tag that was written reads back as the value of its column, cut  *)
(* to 16 bits of two's complement: through gstInt2Word, the frame of the   *)
(* mailbox thread, the register, and gstWord2Int.                          *)
THEOREM IntTagReadsBack ==
  \A v \in Int : FromRegister("INT", RegisterAfterWrite("INT", v)) = Clamp16(v)
BY Int2WordInverse, FrameHoldsWord DEF FromRegister, RegisterAfterWrite, ToRegister

(* Any register reads as two's complement, and the value written back      *)
(* leaves the register as it was (gStConv.c gstWord2Int, gstInt2Word).     *)
THEOREM WordReadsBack ==
  \A w \in Word : /\ gstWord2Int(w) = TwosComplement16(w)
                 /\ RegisterAfterWrite("INT", gstWord2Int(w)) = w
<1>. SUFFICES ASSUME NEW w \in Word
              PROVE  /\ gstWord2Int(w) = TwosComplement16(w)
                     /\ RegisterAfterWrite("INT", gstWord2Int(w)) = w
  OBVIOUS
<1>1. w \in Int /\ 0 <= w /\ w <= 65535
  BY DEF Word
<1>. DEFINE i == gstWord2Int(w)
<1>2. i = TwosComplement16(w)
  BY <1>1 DEF gstWord2Int, TwosComplement16, Complement16
<1>3. i = IF w < 32768 THEN w ELSE w - 65536
  BY <1>2 DEF TwosComplement16
<1>4. gstInt2Word(i) = w
  <2>. HIDE DEF i
  <2>1. i \in Int /\ Clamp16(i) = i
    BY <1>1, <1>3 DEF Clamp16
  <2>2. gstInt2Word(i) = IF i < 0 THEN 65535 - (-i) + 1 ELSE i
    BY <2>1 DEF gstInt2Word, Complement16
  <2>. QED
    BY <1>1, <1>3, <2>1, <2>2
<1>5. RegisterAfterWrite("INT", i) = w
  BY <1>4, FrameHoldsWord DEF RegisterAfterWrite, ToRegister
<1>. QED
  BY <1>2, <1>5

(* Every pair of words: the two's complement of the 32 bits, except that a *)
(* negative one whose low word is 0 comes out 65535 too high, because 1 is *)
(* carried in the place of 65536 (gStConv.c:71-74, gstDWord2Long).         *)
THEOREM DWordReads ==
  \A l, h \in Word :
    gstDWord2Long(l, h) =
      TwosComplement32(l, h) + (IF l = 0 /\ h >= 32768 THEN 65535 ELSE 0)
<1>. SUFFICES ASSUME NEW l \in Word, NEW h \in Word
              PROVE  gstDWord2Long(l, h) =
                       TwosComplement32(l, h) + (IF l = 0 /\ h >= 32768 THEN 65535 ELSE 0)
  OBVIOUS
<1>1. l \in Int /\ 0 <= l /\ l <= 65535 /\ h \in Int /\ 0 <= h /\ h <= 65535
  BY WordRange
<1>2. CASE h < 32768
  BY <1>1, <1>2 DEF gstDWord2Long, TwosComplement32, TwosComplement16
<1>3. CASE ~(h < 32768)
  <2>1. gstDWord2Long(l, h)
          = -((65535 - h) * 65536 + (IF 65535 - l + 1 = 65536 THEN 1 ELSE 65535 - l + 1))
    BY <1>3 DEF gstDWord2Long, Complement16
  <2>2. 65535 - l + 1 = 65536 <=> l = 0
    BY <1>1
  <2>3. TwosComplement32(l, h) = (h - 65536) * 65536 + l
    BY <1>3 DEF TwosComplement32, TwosComplement16
  <2>. QED
    BY <1>1, <1>3, <2>1, <2>2, <2>3
<1>. QED
  BY <1>2, <1>3

----------------------------------------------------------------------------
(* What the sweep checks, for every Bound.                                 *)
ValueIsInt == value \in Int

LEMMA SweepsIntegers == Spec => []ValueIsInt
<1>1. Init => ValueIsInt
  BY BoundAssumption DEF Init, ValueIsInt
<1>2. ValueIsInt /\ [Sweep]_value => ValueIsInt'
  BY DEF Sweep, ValueIsInt
<1>. QED
  BY <1>1, <1>2, PTL DEF Spec

(* An INT column reads back as its value, clamped to 16 bits.              *)
THEOREM IntRoundTrips == Spec => []IntTagRoundTrip
<1>1. ValueIsInt => IntTagRoundTrip
  BY IntTagReadsBack DEF IntTagRoundTrip, ValueIsInt
<1>. QED
  BY <1>1, SweepsIntegers, PTL

(* A register reads as two's complement and is written back unchanged.     *)
THEOREM WordsAreTwosComplement == Spec => []WordToIntIsTwosComplement
<1>1. WordToIntIsTwosComplement
  BY WordReadsBack DEF WordToIntIsTwosComplement
<1>. QED
  BY <1>1, PTL

(* A WORD column reads back modulo 2^16, but 256 higher when it is         *)
(* negative and no multiple of 256, for every integer it may hold          *)
(* (piComm.cpp:165, modbus_client2.cpp:204-205).                           *)
THEOREM WordRoundTrips == Spec => []WordTagRoundTrip
<1>1. ValueIsInt => WordTagRoundTrip
  BY FrameJoined
  DEF ValueIsInt, WordTagRoundTrip, FromRegister, RegisterAfterWrite, ToRegister
<1>. QED
  BY <1>1, SweepsIntegers, PTL
=============================================================================
