SPECIFICATION Spec
CONSTANTS
    Char <- MCChar
    MaxLen = 5
    MaxNumber = 300
    BitSize64 = 8
CHECK_DEADLOCK FALSE
INVARIANTS
    ValidDecodes
    NumberRoundTrip
    BytesRoundTrip
    OverflowIsError
    WhatIsLost
