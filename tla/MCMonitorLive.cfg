SPECIFICATION FairSpec
CONSTANTS
    r1 = r1
    r2 = r2
    w1 = w1
    w2 = w2
    Nil = Nil
    Request = {r1, r2}
    Id <- MCId1
    Key <- MCKey1
    IdOf <- FailedIdOf
    HashOf <- MCHashOf
    Time <- MCTime
    TicksPerMilli = 2
    Worker = {w1, w2}
    QueueSize = 2
    InitialWaitInterval = 0
    RetryWaitInterval = 1
    TxLifeTimeMax = 2
    ReceivedAt <- LaterReceivedAt
    Horizon = 2
    InitStatus <- OnePending
    ResendIds <- MCNoIds
    DBFaults = {}
CHECK_DEADLOCK FALSE
INVARIANTS
    NoPanic
    CheckerRemoves
PROPERTIES
    FinalIsFinal
    QueueImplemented
    EventuallyFinal
