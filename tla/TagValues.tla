----------------------------- MODULE TagValues -----------------------------
(***************************************************************************)
(* The conversions a tag goes through between a database column and a      *)
(* holding register of a PLC: lib/gStools/gStConv.c, the choice of a       *)
(* conversion in piComm.cpp, and the two bytes of a register in the frames *)
(* of comm/modbus_client/modbus_client2.cpp.  Everything here is a         *)
(* constant operator: no state, no constant parameter.                     *)
(***************************************************************************)
EXTENDS Integers

Word == 0 .. 65535

(* What rllib's intValue answers for a tag that holds "ERR" or is absent.  *)
DAQ_ERROR == 8388608

(* w ^ 65535 for a 16-bit w *)
Complement16(w) == 65535 - w

\* mutant: the sign test is off by one
MutWord2IntSign(word) ==
  IF word \notin Word THEN 0
  ELSE IF word <= 32768 THEN word
  ELSE -(Complement16(word) + 1)

gstWord2Int(word) ==
  IF word \notin Word THEN 0
  ELSE IF word < 32768 THEN word
  ELSE -(Complement16(word) + 1)

Clamp16(i) == IF i > 32767 THEN 32767 ELSE IF i < -32768 THEN -32768 ELSE i

\* mutant: the +1 of the negation is forgotten
MutInt2WordNoCarry(integer) ==
  LET i == Clamp16(integer) IN IF i < 0 THEN Complement16(-i) ELSE i

gstInt2Word(integer) ==
  LET i == Clamp16(integer)
  IN  IF i < 0 THEN Complement16(-i) + 1 ELSE i

gstDWord2Long(lWord, hWord) ==
  IF lWord \notin Word \/ hWord \notin Word THEN 0
  ELSE IF hWord < 32768 THEN hWord * 65536 + lWord
  ELSE LET temp == Complement16(lWord) + 1
           high == Complement16(hWord) * 65536
       IN  -(high + (IF temp = 65536 THEN 1 ELSE temp))

(***************************************************************************)
(* piComm.cpp: readINT converts, readWORD does not; writeTag converts only *)
(* an INT.                                                                 *)
(***************************************************************************)
FromRegister(type, word)  == IF type = "INT" THEN gstWord2Int(word) ELSE word
ToRegister(type, value)   == IF type = "INT" THEN gstInt2Word(value) ELSE value

(***************************************************************************)
(* The mailbox thread splits the value with C's truncating division, each  *)
(* half kept in a char: data[2] = val/256, data[3] = val & 0x0ff.          *)
(***************************************************************************)
TruncDiv256(v) == IF v < 0 THEN -((-v) \div 256) ELSE v \div 256
\* mutant: the bytes are swapped
MutFrameSwapped(val) == << val % 256, TruncDiv256(val) % 256 >>

FrameBytes(val) == << TruncDiv256(val) % 256, val % 256 >>

(* readModbus: val = data[ind]*256 + data[ind+1] *)
BytesToWord(data) == data[1] * 256 + data[2]

(* The register a PLC holds after value was written to a tag of that type. *)
RegisterAfterWrite(type, value) == BytesToWord(FrameBytes(ToRegister(type, value)))

----------------------------------------------------------------------------
(* The reference definitions: two's complement.                            *)
TwosComplement16(w)  == IF w < 32768 THEN w ELSE w - 65536
TwosComplement32(l, h) == TwosComplement16(h) * 65536 + l
============================================================================
