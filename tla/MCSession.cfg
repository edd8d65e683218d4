CONSTANTS
    Token = {j1, j2}
    Req = {r1, r2}
    NoToken = NoToken
    Second = 2
    KVMinTTL = 4
    TokenTTL = 6
    MaxTime = 10
SYMMETRY Symmetry
SPECIFICATION Spec
INVARIANTS
    TypeOK
    BlocklistCovers
PROPERTY
    RevokedStaysOut
