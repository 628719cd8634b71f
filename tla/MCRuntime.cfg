SPECIFICATION Spec
CONSTANTS
    Clients = {c1, c2}
    App = app
    Models = {m1, m2}
    Fresh = {}
    Others = {link}
    Procs = {p1, p2}
    None = None
SYMMETRY Symmetry
INVARIANTS
    TypeOK
    OneProcess
    ActiveIsServed
    ServedModelExists
    NoProcessIsLeftTermed
PROPERTIES
    DeletionSparesLive
CHECK_DEADLOCK FALSE
