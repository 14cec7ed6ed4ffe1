CONSTANTS
  MAX_PID = 7
  MAX_PROCESS = 6
SPECIFICATION PidFairSpec
INVARIANTS UniquePids SafeInterval
PROPERTIES GetPidReturns

