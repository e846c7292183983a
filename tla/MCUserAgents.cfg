SPECIFICATION Spec
CONSTANTS
  Peer = {p1, p2}
  Name = {prysm}
  Major = {m5}
  Rest = {r1, r2}
  None = None
  EventBuf = 2
INVARIANTS
  TypeOK
  CountsMatch
CHECK_DEADLOCK FALSE
