SPECIFICATION Spec
CONSTANTS
    old = old
    new = new
    Services <- Places
    Known <- Builds
    MaxStarts = 4
INVARIANTS
    MigratedOnce
    OpenedIsClean
    TokenIsLongEnough
CHECK_DEADLOCK FALSE
