CONSTANTS
    r1 = r1
    r2 = r2
    w1 = w1
    w2 = w2
    Receipts <- TwoReceipts
    Workers <- OneWorker
    Script = script
    NoReceipt = none
    Tenants = {t1, t2}
    Tenant = t1
    Amounts = {1, 3, 4}
    Dates = {2}
    Sources = {"emitted", "draft"}
    Targets = {"draft", "review", "emitted", "voided"}
    Rents = {2}
    LeaseEnd = 1
    Horizon = 2
    LastMonth = 4
    MaxTime = 2
SYMMETRY ReceiptSymmetry
SPECIFICATION Spec
INVARIANTS
    NeverOverfilled
    
PROPERTIES
    ImplementsAccount
