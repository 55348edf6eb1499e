CONSTANTS
  Functions <- MCFunctions
  MaxName = 9
  MaxLabel = 2
  MaxDepth = 3
  MaxObjects = 12
  MaxRecurs = 2
SPECIFICATION HeapSpec
INVARIANTS ReadsAreLive CountsExact ReleasedInOrder DefectKept WellCounted
