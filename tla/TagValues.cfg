SPECIFICATION Spec
CONSTANT Bound = 66000
INVARIANTS
  IntTagRoundTrip
  WordToIntIsTwosComplement
  WordTagRoundTrip
CHECK_DEADLOCK FALSE
