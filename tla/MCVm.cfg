CONSTANTS
  Users = {p1, p2}
  Check = check
  None = none
  NP = 24
  PTSIZE = 4
  PDSIZE = 8
  StackFrom = 8
  StackTo = 10
  LoadStack = 1
  Programs <- MCPrograms
  Values = {0, 1}
  CheckRp = 3
  CheckVp = 4
  MaxCalls = 5
CHECK_DEADLOCK FALSE
SPECIFICATION VmSpec
INVARIANTS  AddressSpacesSound ResidentQueue
PROPERTIES UserMemorySpec
SYMMETRY Symmetry
