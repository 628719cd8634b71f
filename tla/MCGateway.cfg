SPECIFICATION Spec
CONSTANTS
    Requests = {r1, r2, r3}
    Keys = {k1}
    MaxSlots = 2
    MaxRecords = 1
    MaxTime = 2
    Fraction = 2
SYMMETRY Symmetry
INVARIANTS
    TypeOK
    IdleIsClosed
    WaitKeepsItsPromise
    RetainsNewest
PROPERTIES
    AuthenticationSpec
CHECK_DEADLOCK FALSE
