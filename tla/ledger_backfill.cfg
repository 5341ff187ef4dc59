CONSTANTS
    r1 = r1
    r2 = r2
    w1 = w1
    w2 = w2
    Receipts <- TwoReceipts
    Workers <- OneWorker
    Script = script
    NoReceipt = none
    Tenants = {t1}
    Tenant = t1
    Amounts = {1, 3}
    Dates = {0}
    Sources = {"emitted", "draft"}
    Targets = {"draft", "review", "emitted", "voided"}
    Rents = {2}
    LeaseEnd = 2
    Horizon = 1
    LastMonth = 4
    MaxTime = 2
SYMMETRY ReceiptSymmetry
SPECIFICATION RunsSpec
PROPERTY RerunIsNoOp
