CONSTANTS
    Item = {i1, i2, i3}
    NumRules = 2
    MaxCount = 2
    MaxTime = 2
    MaxField = 2
    Nil = Nil
SPECIFICATION MCSpec
SYMMETRY Symmetry
INVARIANTS TypeOK CountersExact DeletedIffUnkept KeepersHoldTheLast
CHECK_DEADLOCK FALSE
