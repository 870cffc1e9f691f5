CONSTANTS
    Obj = {o1}
    Filter <- MCOneFilter
    Worker = {k1, k2}
    TornRead = TRUE
    MaxLog = 2
    MaxQueue = 2
    MaxEdits = 2
    MaxRestarts = 1
    MaxBoth = 2
SPECIFICATION Spec
SYMMETRY Symmetry
INVARIANTS RemovedWatchesAreQuiet NothingSkipped
CHECK_DEADLOCK FALSE
