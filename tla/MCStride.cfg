CONSTANTS
  p1 = p1
  p2 = p2
  p3 = p3
  p4 = p4
  Procs = {p1, p2, p3, p4}
  None = None
  NULL = NULL
  BIG_STRIDE = 6
  HALF = 8
  MaxPriority = 4
  SetFirst = TRUE
  MaxTurns = 24
SPECIFICATION HeapSpec
INVARIANTS ComparisonTrue ProportionalShare PoolIsTree
PROPERTIES PicksMinimal
