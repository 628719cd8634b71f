SPECIFICATION Spec
CONSTANTS
    Ids = {i1, i2}
    Locals = {p1}
    Files = {f1, f2}
    Clients = {c1, c2}
    Under <- Flat
SYMMETRY Symmetry
INVARIANTS
    TypeOK
    ReadyHasItsFiles
    ClaimIsHeld
PROPERTIES
    FilesGoWithTheirRow
    DeletionSparesDownloads
