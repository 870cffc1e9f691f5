CONSTANTS
    Ns = {n1}
    Kind = {k1}
    Known = {k1}
    Children <- MCRoles
    ReadErrors = TRUE
    None = None
    MaxEdits = 2
    MaxFailures = 0
    MaxRestarts = 0
SPECIFICATION FairSpec
PROPERTIES ConfigsTakeEffect VacuumsFollowConfigs RolesFollowConfigs
CHECK_DEADLOCK FALSE
