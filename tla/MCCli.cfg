CONSTANTS
    a = a
    b = b
    c = c
    Object <- MCObject
    NameOf <- MCNameOf
    Ages <- MCAges
    Options <- MCOptions
    MaxPages = 2
    None = None
    Server <- MCServer
    BaseName <- MCBaseName
    Host = {"h1", "h2"}
    Cert = {"c1"}
    Bearer = {"t1", "t2"}
    KubeToken = "t2"
    Environment <- MCEnvironment
    Discovery <- MCDiscovery
    PreferredVersion <- MCPreferredVersion
    ResourceSpec <- MCResourceSpec
    MaxEdits = 3
    MaxAlt = 2
    Unset = Unset
SPECIFICATION MCSpec
INVARIANTS NothingFallsBetween  OmissionsAreTold
    FileIsUsable  ResolvedAsAsked
PROPERTY OthersUntouched
CHECK_DEADLOCK FALSE
