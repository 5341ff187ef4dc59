CONSTANTS
    s1 = s1
    s2 = s2
    x1 = x1
    x2 = x2
    c1 = c1
    c2 = c2
    k1 = k1
    w1 = w1
    w2 = w2
    Sessions <- TwoSessions
    Secrets <- OneSecret
    BackupCodes = {}
    Keys <- OneKey
    Asked <- OnAndKeys
    Workers <- TwoWorkers
    MaxTime = 2
    None = None
SPECIFICATION FairSpec
CHECK_DEADLOCK FALSE
PROPERTIES
    EndedSessionsEnd
