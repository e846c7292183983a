SPECIFICATION FairSpec
CONSTANTS
  Peer = {p1, p2}
  Goroutine = {g1, g2}
  None = None
  MaxPeers = 1
  Slack = 1
  MaxConcurrentDials = 1
  PullBatch = 1
  InitialBackoff = 1
  MaxBackoff = 1
  ShiftCap = 0
PROPERTIES
  StopsOnCancel
  KeepsDialling
CHECK_DEADLOCK FALSE
