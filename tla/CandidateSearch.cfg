CONSTANTS
  MaxLength = 7
  MaxRequested = 3
  MinimumParallel = 3
  MaximumProbes = 1
  MinimumWindow = 3
  WindowPerWorker = 1
SPECIFICATION SearchSpec
INVARIANTS
  SearchesInOrder
CHECK_DEADLOCK FALSE
