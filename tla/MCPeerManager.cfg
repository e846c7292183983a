SPECIFICATION Spec
CONSTANTS
  Peer = {p1, p2, p3}
  Goroutine = {g1, g2, g3}
  None = None
  MaxPeers = 1
  Slack = 1
  MaxConcurrentDials = 3
  PullBatch = 2
  InitialBackoff = 1
  MaxBackoff = 1
  ShiftCap = 0
SYMMETRY Symmetry
INVARIANTS
  TypeOK
  Accounted
  InFlightBounded
  OvershootBounded
CHECK_DEADLOCK FALSE
