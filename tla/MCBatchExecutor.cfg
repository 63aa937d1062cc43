CONSTANTS
  c1 = c1
  c2 = c2
  Callers = {c1, c2}
  NoCaller = NoCaller
  MaxWorkers = 3
  MaxItems = 3
  MaxBatches = 3
  MaxSpurious = 1
SPECIFICATION Spec
INVARIANTS
  TasksBelongToTheOpenCall
PROPERTIES
  ImplementsParallelBatch
