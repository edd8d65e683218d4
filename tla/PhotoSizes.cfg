CONSTANTS
    Req = {r1}
    MinutesPerDay = 2
    MaxTime = 1
    MinuteLimit = 2
    DayLimit = 3
    MinuteTTL = 2
    DayTTL = 3
    MaxCalls = 1
    MaxFaults = 0
    Quota = 1
    QuotaTTL = 3
    PutTTL = 1
    Size = {1, 2}
    MaxBytes = 2
SPECIFICATION Spec
INVARIANT PermittedPhotosUpload
CHECK_DEADLOCK FALSE
