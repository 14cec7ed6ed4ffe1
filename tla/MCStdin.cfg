CONSTANTS
  r1 = r1
  r2 = r2
  Readers = {r1, r2}
  CONSBUFSIZE = 3
  STDIN_BUFSIZE = 2
  MaxChars = 6
  MaxBurst = 3
  MaxLen = 3
SPECIFICATION Spec
SYMMETRY Symmetric
INVARIANTS InputExact NoSleeperWithInput EntriesAlive
