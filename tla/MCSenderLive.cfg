SPECIFICATION FairSpec
CONSTANTS
    h1 = h1
    h2 = h2
    w1 = w1
    w2 = w2
    Nil = Nil
    Nobody = Nobody
    Settler = {}
    Expirer = {}
    Id <- MCId
    HashOf <- SameHashOf
    Valid <- OnlyA
    Handler = {h1}
    Worker = {w1}
    QueueSize = 1
    DialFails = TRUE
    RPCTimeouts = FALSE
    InitStatus <- PendingAndNew
    ResendIds <- OneId
    MaxCrashes = 1
    DBFaults = {}
CHECK_DEADLOCK FALSE
INVARIANTS
    PendingIsCovered
PROPERTIES
    QueueImplemented
    CallReturns
    PendingIsSent
    ResendIsServed
