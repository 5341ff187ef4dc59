CONSTANTS
    r1 = r1
    r2 = r2
    w1 = w1
    w2 = w2
    Receipts <- TwoReceipts
    Workers <- OneWorker
    Script = script
    NoReceipt = none
    Tenants = {t1}
    Tenant = t1
    Amounts = {2, 4}
    Dates = {0}
    Sources = {"emitted", "draft"}
    Targets = {"draft", "review", "emitted", "voided"}
    Rents = {2, 3}
    LeaseEnd = 1
    Horizon = 2
    LastMonth = 3
    MaxTime = 2
SYMMETRY ReceiptSymmetry
SPECIFICATION Spec
PROPERTY NoSkippedMonth
