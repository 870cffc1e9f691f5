CONSTANTS
    Ns = {n1, n2}
    Kind = {k1}
    Known = {k1}
    Children <- MCNoChildren
    ReadErrors = FALSE
    None = None
    MaxEdits = 3
    MaxFailures = 1
    MaxRestarts = 1
SPECIFICATION Spec
SYMMETRY Symmetry
INVARIANTS TypeOK NoOrphanFilters
CHECK_DEADLOCK FALSE
