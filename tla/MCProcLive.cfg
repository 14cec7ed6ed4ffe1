CONSTANTS
  idle = idle
  init = init
  u1 = u1
  u2 = u2
  None = None
  Procs = {idle, init, u1, u2}
  idleproc = idle
  initproc = init
  MAX_TIME_SLICE = 1
  MaxSleep = 2
SPECIFICATION FairSpec
PROPERTIES  SleeperWakes 
