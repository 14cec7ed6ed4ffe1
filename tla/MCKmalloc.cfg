CONSTANTS
  NP = 6
  MaxN = 2
  Reserve = 1
  U = 5
  Sizes <- MCSizes
  MaxObjects = 3
SPECIFICATION KSpec
INVARIANTS FreeListExact HeapExact ObjectsApart
PROPERTIES FreePagesSpec
