SPECIFICATION Spec
CONSTANTS
    r1 = r1
    r2 = r2
    w1 = w1
    w2 = w2
    Nil = Nil
    Request = {r1, r2}
    Id <- MCId1
    Key <- MCKey1
    IdOf <- TwiceIdOf
    HashOf <- MCHashOf
    Time <- MCTime
    TicksPerMilli = 1
    Worker = {w1, w2}
    QueueSize = 2
    InitialWaitInterval = 1
    RetryWaitInterval = 1
    TxLifeTimeMax = 2
    ReceivedAt <- MCReceivedAt
    Horizon = 2
    InitStatus <- OneSent
    ResendIds <- MCId1
    DBFaults = {"lost", "applied", "select"}
SYMMETRY MCSymmetry
CHECK_DEADLOCK FALSE
INVARIANTS
    TypeOK
    SoleCustody
    WaitsBeforeRetry
PROPERTIES
    ListContract
    Follows
