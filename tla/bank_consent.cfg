CONSTANTS
    c1 = c1
    c2 = c2
    w1 = w1
    w2 = w2
    Attempts <- TwoAttempts
    Workers <- TwoWorkers
    None = None
SYMMETRY Symmetry
SPECIFICATION Spec
CHECK_DEADLOCK FALSE
INVARIANTS
    TypeOK
    ActiveIsGranted
PROPERTIES
    FirstReferenceSpentOnce
    ExpiryIsEarned
    LetGoOnlyWhenEnded
    RemovalKeepsMovements
    ImplementsLife
    PlacedOnce
