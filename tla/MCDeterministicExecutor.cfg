CONSTANTS
  c1 = c1
  c2 = c2
  Callers = {c1, c2}
  NoCaller = NoCaller
  MaxWidth = 3
  MaxBatches = 2
  MaxSpurious = 1
SPECIFICATION Spec
INVARIANTS
    NoDeadContext
    ExactlyOnce
PROPERTIES
  ImplementsParallelBatch
  EveryRunReturns
  StopJoins
