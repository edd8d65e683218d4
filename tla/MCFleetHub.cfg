CONSTANTS
    Token = {j1}
    NoJti = NoJti
    Sock = {s1, s2}
    Second = 1
    KVMinTTL = 1
    EveryN = 2
    CacheTTL = 1
    MaxFrames = 3
    MaxPending = 2
    MaxEvents = 1
    MaxTime = 3
SYMMETRY Symmetry
SPECIFICATION Spec
INVARIANTS
    RecheckWithinN
    FirstFrameCatchesRace
    ClosedOnlyIfRevoked
    OpenMissesNothing
PROPERTY
    ImplementsBroadcast
