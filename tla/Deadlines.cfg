CONSTANTS
  Sessions = {s1, s2}
  Secured = {s2}
  MaxTicks = 2
  AcceptTimeout = 2
  MaxSignals = 1
SPECIFICATION FairSpec
INVARIANT DeadlineCovered
PROPERTY OverdueIsClosed
