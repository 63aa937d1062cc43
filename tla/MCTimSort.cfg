SPECIFICATION Spec
CONSTANTS
    Sizes <- MCSizes
    Inputs <- MCInputs
    NaN = NaN
    MinimumRunLimit = 4
    MinimumGallop = 2
    MaximumPendingRuns = 5
    MaxLength = 5
    Halves <- MCHalves
    Scores = {1, 2, 3}
INVARIANTS
    PendingInvariant
    KeepsEntries
    SortsStably
PROPERTIES
    SortReturns
CHECK_DEADLOCK FALSE
