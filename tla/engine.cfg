CONSTANTS
    Amounts = {0, 1, 2, 3, 5, 8, 13}
    Dues = {0, 1, 2}
    Totals = {0, 1, 3}
    Horizons = {0, 1, 2}
    LastRow = 3
    LastMonth = 5
SPECIFICATION Spec
INVARIANTS
    LoopsComputePlan
    PouredOldestFirst
    NothingLost
