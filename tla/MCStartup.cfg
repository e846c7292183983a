SPECIFICATION Spec
CONSTANTS
  a = a
  b = b
  d1 = d1
  d2 = d2
  EmptyName = EmptyName
  Configs <- MCConfigs
  Name = {a, b}
  Dir = {d1, d2}
  Key = {k1, k2, k3, k4}
  Absent = Absent
  Torn = Torn
  MaxPort = 7
  MaxRun = 3
INVARIANTS
  TypeOK
  OneIdentity
  DistinctHosts
  AcceptedStarts
  AllListening
  NeverUncapped
CHECK_DEADLOCK FALSE
