CONSTANTS
  N = 4
  TIMES = 2
SPECIFICATION FairSpec
INVARIANTS ForksExclusive MonitorExclusive
PROPERTIES CheckSyncReturns
