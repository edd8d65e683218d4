CONSTANTS
    Req = {r1, r2}
    Capacity = 2
    Period = 3
    TTL = 7
    Deadline = 1
    Second = 2
    MaxTime = 8
    MaxCalls = 5
SYMMETRY Symmetry
SPECIFICATION Spec
INVARIANT TypeOK
PROPERTIES
    NeverLooser
    NeverStricter
    RetryAfterHonest
CHECK_DEADLOCK FALSE
