SPECIFICATION Spec
CONSTANTS
    h1 = h1
    h2 = h2
    Handler <- MCHandler
    Request <- MCRequest
    Token = {"t"}
    User <- MCUser
    Group = {"dev"}
    Uid = {"u1"}
    Extra = {"x"}
    OwnerOf <- MCOwnerOf
    NamespaceOf <- MCNamespaceOf
    GroupVersion = {"v1", "apps/v1"}
    Resource = {"pods"}
    Name = {"p"}
    KindOf <- MCKindOf
    None = None
    Authorized = 1
    Unauthorized = 0
    CacheExpirationTime = 1
    Second = 2
    MaxNow = 3
    MaxRequests = 2
SYMMETRY Handlers
INVARIANTS   AnswersExpire
CHECK_DEADLOCK FALSE
