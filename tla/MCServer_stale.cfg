CONSTANTS
  Sessions = {s1}
  NLoops = 1
  Peers = {p1}
  MaxConnectionsPerIp = 2
  StaleReuse = TRUE
  ScanRace = FALSE
  LateTasks = FALSE
SPECIFICATION Spec
INVARIANT NoDanglingPointer
