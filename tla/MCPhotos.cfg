CONSTANTS
    Req = {r1, r2}
    MinutesPerDay = 2
    MaxTime = 2
    MinuteLimit = 2
    DayLimit = 3
    MinuteTTL = 2
    DayTTL = 3
    MaxCalls = 4
    MaxFaults = 1
    Quota = 2
    QuotaTTL = 3
    PutTTL = 0
    Size = {1}
    MaxBytes = 1
SYMMETRY Symmetry
SPECIFICATION Spec
INVARIANTS
    WindowHolds
    RefusedAtLimit
    QuotaHolds
    ExceededAtQuota
PROPERTY RemainingHonest
CHECK_DEADLOCK FALSE
