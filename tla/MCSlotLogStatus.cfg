SPECIFICATION Spec
CONSTANTS
  FirstSlot = 4
  LastSlot = 6
  Window = 1
  Modulus = 64
  BlockBuf = 1
  None = None
  Collector = {c1}
  Attestation = {a1}
  ChanCap = 1
INVARIANT StatusKnown
CHECK_DEADLOCK FALSE
