CONSTANTS
    m1 = m1
    m2 = m2
    h1 = h1
    a1 = a1
    a2 = a2
    w1 = w1
    w2 = w2
    Movements <- TwoMovements
    HandReceipts = {h1}
    AutoReceipts <- TwoAutoReceipts
    Leases = {l1}
    Workers <- TwoWorkers
    None = None
SYMMETRY Symmetry
SPECIFICATION Spec
INVARIANTS
    TypeOK
    OneMovementPerReceipt
    MoneyBehindMovement
    TestMoneyStaysOut
PROPERTIES
    ReceiptNeverReplaced
    ImplementsBook
