SPECIFICATION FairSpec
CONSTANTS
    Jobs = {j1, j2}
    Models = {m1, m2}
    Clients = {c1}
    MaxWorkers = 1
    NoModel = NoModel
PROPERTIES
    CancelSettles
    ShutdownEnds
    AcceptedSettles
