CONSTANTS
  Sessions = {s1, s2}
  NLoops = 1
  Peers = {p1, p2}
  MaxConnectionsPerIp = 2
  StaleReuse = FALSE
  ScanRace = FALSE
  LateTasks = FALSE
SPECIFICATION Spec
SYMMETRY Symmetry
INVARIANTS
  NoDanglingPointer
  OwnedExactlyOnce
  ConnectionsExact
