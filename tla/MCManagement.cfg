SPECIFICATION Spec
CONSTANTS
    r1 = r1
    r2 = r2
    Requests = {r1, r2}
    Keys = {k1}
    Admin = admin
    Nobody = nobody
    KeyScopes <- OneOrTwo
    CallsOf <- AnyAndKeys
INVARIANTS
    TypeOK
    RanWithinScope
    NothingHalfRefused
PROPERTIES
    AuthenticationSpec
CHECK_DEADLOCK FALSE
