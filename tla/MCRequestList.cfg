SPECIFICATION ListSpec
CONSTANTS
    r1 = r1
    r2 = r2
    r3 = r3
    r4 = r4
    Nil = Nil
    Request = {r1, r2, r3, r4}
    Key <- MCId
    IdOf <- MCIdOf
    HashOf <- MCHashOf
    Time <- MCTime
    TicksPerMilli = 2
INVARIANTS
    ListTypeOK
PROPERTIES
    ConsistentKept
    SortedKept
    AddGoesLast
    OrderKept
