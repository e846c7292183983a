SPECIFICATION FairSpec
CONSTANTS
  Stream = {s1}
  LastSlot = 3
  Modulus = 64
INVARIANTS
  TypeOK
  Answered
  HandshakeWithV2
  HeadNotAhead
PROPERTY StreamsEnd
CHECK_DEADLOCK FALSE
