SPECIFICATION Spec
CONSTANTS
    Clients = {c1, c2}
    App = app
    Models = {m1}
    Fresh = {m1}
    Others = {link}
    Procs = {p1}
    None = None
PROPERTIES
    DeletionSparesLive
CHECK_DEADLOCK FALSE
