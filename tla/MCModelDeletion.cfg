SPECIFICATION FairSpec
CONSTANTS
    Ids = {i1, i2, i3}
    Paths = {p1, p2}
    Registrars = {c1, c2}
INVARIANTS
    TypeOK
    RefusedOnlyForManifest
PROPERTIES
    KeepsItsDirectory
    NothingHangs
