CONSTANTS
    e1 = e1
    e2 = e2
    i1 = i1
    i2 = i2
    t1 = t1
    w1 = w1
    w2 = w2
    Emails <- TwoEmails
    Allowed <- OneAllowed
    Verified <- OneVerified
    Ids <- TwoIds
    Tickets <- OneTicket
    Workers <- TwoWorkers
    None = None
SYMMETRY Symmetry
SPECIFICATION Spec
CHECK_DEADLOCK FALSE
INVARIANTS
    TypeOK
    AdministratorRemains
PROPERTIES
    ImplementsRegistry
    RoleGivenByAdmin
    AdmittedByADoor
    SwitchNeverPutBack
