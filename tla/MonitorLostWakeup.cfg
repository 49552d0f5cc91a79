SPECIFICATION FairSpec
CONSTANTS
    r1 = r1
    r2 = r2
    w1 = w1
    w2 = w2
    Nil = Nil
    Request = {r1, r2}
    Id <- MCId2
    Key <- MCKey2
    IdOf <- OnceIdOf
    HashOf <- MCHashOf
    Time <- MCTime
    TicksPerMilli = 1
    Worker = {w1}
    QueueSize = 1
    InitialWaitInterval = 1
    RetryWaitInterval = 0
    TxLifeTimeMax = 1
    ReceivedAt <- MCReceivedAt
    Horizon = 1
    InitStatus <- BothPending
    ResendIds <- MCNoIds
    DBFaults = {}
CHECK_DEADLOCK FALSE
PROPERTIES
    ListedIsRetried
