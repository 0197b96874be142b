CONSTANTS
  Sessions = {s1}
  NLoops = 2
  Peers = {p1}
  MaxConnectionsPerIp = 1
  StaleReuse = FALSE
  ScanRace = FALSE
  LateTasks = FALSE
SPECIFICATION FairSpec
INVARIANTS
  LoadIsExact
  NothingLeftAfterLoops
PROPERTIES
  FinishedIsDeleted
  WakeupIsServed
  ShutdownReachesPlugins
