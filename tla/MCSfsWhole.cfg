CONSTANTS
  h1 = h1
  h2 = h2
  Handles = {h1, h2}
  f1 = f1
  Files = {f1}
  None = None
  SFS_BLKSIZE = 2
  SFS_NDIRECT = 1
  SFS_MAX_FILE_SIZE = 5
  NBlocks = 8
  Marks = {1}
  MaxLost = 1
  WholeBlocks = TRUE
SPECIFICATION Spec
SYMMETRY Symmetric
INVARIANTS ReadsTrue
