CONSTANTS
    Id = {1, 2, 3}
    Name = {n1, n2}
    n1 = n1
    n2 = n2
    NameOf <- MCNameOf
    Key = {k1, k2}
    Value = {v1, v2}
    k1 = k1
    k2 = k2
    v1 = v1
    v2 = v2
    Labels <- MCLabels
    Request <- MCRequest
    MaxTime = 2
    MaxWrites = 3
    MaxAllowedLimit = 2
    None = None
SPECIFICATION Spec
CONSTRAINT SmallArchive
ACTION_CONSTRAINT WalkGoesOn
INVARIANTS ListedOnce 
 
CHECK_DEADLOCK FALSE
