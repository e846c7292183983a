SPECIFICATION FairSpec
CONSTANTS
  p1 = p1
  p2 = p2
  ours = ours
  Peer = {p1, p2}
  Walker = {v4, v5}
  Boot = boot
  None = None
  ForkDigest = ours
  Enrs <- MCEnrs
  Subnets <- MCSubnets
  MaxRun = 2
INVARIANTS
  TypeOK
  NoDuplicateInRun
  RoutedIsKnown
  ConnectedIsWritten
  KeptPassesFilters
  AttnetsAgree
PROPERTY BootstrapReaches
CHECK_DEADLOCK FALSE
