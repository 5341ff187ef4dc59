CONSTANTS
    s1 = s1
    s2 = s2
    x1 = x1
    x2 = x2
    c1 = c1
    c2 = c2
    k1 = k1
    w1 = w1
    w2 = w2
    Sessions <- TwoSessions
    Secrets <- TwoSecrets
    BackupCodes <- TwoCodes
    Keys <- OneKey
    Asked <- FactorOnly
    Workers <- TwoWorkers
    MaxTime = 2
    None = None
SYMMETRY Symmetry
SPECIFICATION Spec
CHECK_DEADLOCK FALSE
INVARIANTS
    TypeOK
    OwnProof
    FactorConfirmed
PROPERTIES
    OffByItsOwnCode
