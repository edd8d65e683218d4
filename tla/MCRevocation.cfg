CONSTANTS
    Token = {j1}
    Req = {r1}
    NoToken = NoToken
    Second = 1
    KVMinTTL = 1
    TokenTTL = 3
    MaxTime = 3
    NoJti = NoJti
    Sock = {s1}
    EveryN = 2
    CacheTTL = 1
    MaxFrames = 4
    MaxPending = 2
    MaxEvents = 1
SPECIFICATION RevocationSpec
INVARIANT LogoutClosesSockets
