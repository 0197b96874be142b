CONSTANTS
  Sessions = {s1}
  NLoops = 1
  Peers = {p1}
  MaxConnectionsPerIp = 2
  StaleReuse = FALSE
  ScanRace = FALSE
  LateTasks = TRUE
SPECIFICATION Spec
INVARIANT HandleOutlivesNoLoop
