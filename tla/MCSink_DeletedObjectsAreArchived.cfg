CONSTANTS
    Name = {n1}
    Uid = {u1, u2}
    Request = {r1, r2}
    IsPod = TRUE
    MaxClock = 2
    MaxVersion = 2
    NoObject = NoObject
    NoRow = NoRow
    NoUid = NoUid
    NoEvent = NoEvent
SPECIFICATION Spec
SYMMETRY Symmetry
INVARIANT DeletedObjectsAreArchived
CHECK_DEADLOCK FALSE
