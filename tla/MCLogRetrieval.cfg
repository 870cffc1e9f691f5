CONSTANTS
    Uid = {1, 2, 3, 4}
    Pod = {3, 4}
    Container = {c1}
    MaxTime = 2
    MaxCommits = 2
    None = None
    PageSize = 2
    MaxLog = 4
    Cursor = {9, 10, 11, 12}
    Shape <- MCShape
    Config <- MCConfig
SPECIFICATION MCSpec
INVARIANTS NewestPodServed   StatusTellsLogs
 
CHECK_DEADLOCK FALSE
