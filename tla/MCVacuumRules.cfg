SPECIFICATION RulesSpec
CONSTANTS
    Ns = {"kubearchive", "n1", "n2"}
    Home = "kubearchive"
    Kind = {"job", "app"}
    Hyphened = {"app"}
    Text <- MCText
    Empty = ""
    Normal <- MCNormal
    Trimmed <- MCTrimmed
    Sound <- MCSound
    NoName = ""
    AllNs = "___all"
    None = None
    Ckacs <- MCCkacs
    Kacs <- MCKacs
    Cvcs <- MCCvcs
    MaxEdits = 3
    MaxVacuums = 1
INVARIANTS
    ClusterRulesBind
    AdmittedTakesEffect
    
CHECK_DEADLOCK FALSE
