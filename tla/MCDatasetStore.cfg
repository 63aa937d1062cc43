SPECIFICATION Spec
CONSTANTS
    Processes = {p, q}
    MaxSize = 2
    MaxSaves = 3
    Bounds <- MCBounds
    Directories = {"seed_", "plain"}
INVARIANTS
    LoadIsLayered
    PlainLoadsAreFresh
    CompletedSaveLoads
PROPERTIES
    SeededLoadsAgree
SYMMETRY Symmetry
CHECK_DEADLOCK FALSE
