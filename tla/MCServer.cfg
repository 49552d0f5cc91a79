SPECIFICATION FairSpec
CONSTANTS
    c1 = c1
    Nil = Nil
    Conn = {c1}
    HttpRequest <- MCHttpRequest
    RawTx <- MCRawTx
    String <- MCString
    Config <- MCConfig
    maxRequestContentLength = 2
INVARIANTS
    TypeOK
    RefusedHasNoEffect
    BatchInOrder
    ReplyMatches
    LostIsHandledWhole
PROPERTIES
    ServedIsReplied
