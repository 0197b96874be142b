CONSTANTS
  Sessions = {s1}
  NLoops = 1
  Peers = {p1}
  MaxConnectionsPerIp = 2
  StaleReuse = FALSE
  ScanRace = TRUE
  LateTasks = FALSE
SPECIFICATION Spec
INVARIANT NoDanglingPointer
