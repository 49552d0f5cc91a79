SPECIFICATION Spec
CONSTANTS
    h1 = h1
    h2 = h2
    w1 = w1
    w2 = w2
    Nil = Nil
    Nobody = Nobody
    Settler = {"monitor"}
    Expirer = {"monitor"}
    Id <- MCId
    HashOf <- MCHashOf
    Valid <- OnlyA
    Handler = {h1}
    Worker = {w1, w2}
    QueueSize = 1
    DialFails = FALSE
    RPCTimeouts = FALSE
    InitStatus <- PendingAndNew
    ResendIds <- NoIds
    MaxCrashes = 1
    DBFaults = {}
INVARIANTS
    InvalidMeansInvalid
