SPECIFICATION SubscribedSpec
CONSTANTS
  Peer = {p1}
  Name = {prysm}
  Major = {m5}
  Rest = {r1, r2}
  None = None
  EventBuf = 2
INVARIANT GaugeCountsConnected
CHECK_DEADLOCK FALSE
