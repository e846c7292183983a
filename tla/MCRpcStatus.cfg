SPECIFICATION Spec
CONSTANTS
  Stream = {s1}
  LastSlot = 3
  Modulus = 64
INVARIANT StatusServed
CHECK_DEADLOCK FALSE
