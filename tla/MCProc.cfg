CONSTANTS
  idle = idle
  init = init
  u1 = u1
  u2 = u2
  u3 = u3
  None = None
  Procs = {idle, init, u1, u2, u3}
  idleproc = idle
  initproc = init
  MAX_TIME_SLICE = 2
  MaxSleep = 2
SPECIFICATION Spec
SYMMETRY Symmetric
INVARIANTS RunQueueExact NoLostChildExit TimersOfSleepers ParentCanReap InitLeavesNobody
