SPECIFICATION FairSpec
CONSTANTS
  FirstSlot = 4
  LastSlot = 6
  Window = 1
  Modulus = 64
  BlockBuf = 1
  None = None
  Collector = {c1}
  Attestation = {a1, a2}
  ChanCap = 1
INVARIANTS
  TypeOK
  ExactlyOnce
  OnlyCompleted
  RecentKept
  StaleDropped
PROPERTY EventuallyLogged
CHECK_DEADLOCK FALSE
