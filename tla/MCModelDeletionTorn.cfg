SPECIFICATION Spec
CONSTANTS
    Ids = {i1, i2}
    Paths = {p1, p2}
    Registrars = {c1}
INVARIANT
    InterruptedDeletionRecovers
