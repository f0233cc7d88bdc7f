---------------------------- MODULE MCTagValues ----------------------------
(***************************************************************************)
(* Sweeps the conversions of TagValues over every value a column may hold  *)
(* between -Bound and Bound.  A state is one argument.                     *)
(***************************************************************************)
EXTENDS TagValues

CONSTANT Bound      \* the swept range of column values is -Bound .. Bound

ASSUME BoundAssumption == Bound \in Nat

VARIABLE value

Init == value = -Bound

Sweep == value < Bound /\ value' = value + 1

Spec == Init /\ [][Sweep]_value

----------------------------------------------------------------------------
(* A value an operator writes to an INT column, sent to the PLC and read   *)
(* back, is the value itself, clamped to 16 bits (piComm.cpp writeTag,     *)
(* modbus_client2.cpp frame, readModbus, piComm.cpp readINT).              *)
IntTagRoundTrip ==
  FromRegister("INT", RegisterAfterWrite("INT", value)) = Clamp16(value)

(* Every register word an INT tag is read from is two's complement, and    *)
(* writing the value back leaves the register as it was.                   *)
WordToIntIsTwosComplement ==
  value \in Word => /\ gstWord2Int(value) = TwosComplement16(value)
                    /\ RegisterAfterWrite("INT", gstWord2Int(value)) = value

(* A WORD column is sent unconverted (piComm.cpp:165), whatever it holds.  *)
(* One that is not negative is read back modulo 2^16.  A negative one is   *)
(* not: val/256 rounds towards zero and val & 0x0ff does not               *)
(* (modbus_client2.cpp:204), so it comes back 256 higher, but for the      *)
(* multiples of 256: -1 is read back as 255.                               *)
WordReadBack(v) ==
  IF v >= 0 \/ v % 256 = 0 THEN v % 65536 ELSE (v + 256) % 65536

WordTagRoundTrip ==
  FromRegister("WORD", RegisterAfterWrite("WORD", value)) = WordReadBack(value)
============================================================================
