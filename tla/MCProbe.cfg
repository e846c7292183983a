SPECIFICATION FairSpec
CONSTANTS
  a = a
  b = b
  hostA = hostA
  hostB = hostB
  Instance = {a, b}
  instances <- MCInstances
  NoOwner = NoOwner
  HostID <- MCHostID
  NoPeer = NoPeer
  Peer = {hostA, hostB, p1}
  Router = {r1, r2}
  EventBuf = 2
INVARIANTS
  TypeOK
  Balanced
  DisjointPeerSets
  DialsOnlyOwned
  SafetyNetIdle
  NoSiblingLink
PROPERTIES
  KeepsPromise
  NeverDropped
CHECK_DEADLOCK FALSE
