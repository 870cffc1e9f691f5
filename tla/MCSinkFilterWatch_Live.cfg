CONSTANTS
    Obj = {o1}
    Filter <- MCOneFilter
    Worker = {k1}
    TornRead = FALSE
    MaxLog = 2
    MaxQueue = 2
    MaxEdits = 1
    MaxRestarts = 1
    MaxBoth = 1
SPECIFICATION FairSpec
PROPERTIES StoppedLoopsEnd ChangesAreHandled 
CHECK_DEADLOCK FALSE
