CONSTANTS
  p1 = p1
  p2 = p2
  p3 = p3
  p4 = p4
  Procs = {p1, p2, p3, p4}
  InitValue = 2
SPECIFICATION FairSpec
INVARIANTS TokensConserved QueuedAreAsleep
PROPERTIES WaiterGetsThrough FifoSpec
CHECK_DEADLOCK FALSE
