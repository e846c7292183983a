SPECIFICATION HistorySpec
CONSTANTS
  Peer = {p1}
  Goroutine = {g1, g2}
  None = None
  MaxPeers = 0
  Slack = 1
  MaxConcurrentDials = 2
  PullBatch = 1
  InitialBackoff = 1
  MaxBackoff = 2
  ShiftCap = 1
INVARIANT OneFailurePerDial
CHECK_DEADLOCK FALSE
