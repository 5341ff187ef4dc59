CONSTANTS
    r1 = r1
    r2 = r2
    w1 = w1
    w2 = w2
    Receipts <- TwoReceipts
    Workers <- TwoWorkers
    Script = script
    NoReceipt = none
    Tenants = {t1}
    Tenant = t1
    Amounts = {1, 3}
    Dates = {2}
    Sources = {"emitted"}
    Targets = {"voided"}
    Rents = {2, 3}
    LeaseEnd = 2
    Horizon = 1
    LastMonth = 3
    MaxTime = 2
SYMMETRY Symmetry
SPECIFICATION Spec
INVARIANTS
    TypeOK
    LedgerBalanced
    StatusFollowsMoney
    MoneyHasReceipt
    BackLink
PROPERTIES
    AllocatedOnce
    NoMoneyMinted
    MovesWhole
