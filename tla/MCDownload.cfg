SPECIFICATION Spec
CONSTANTS
    Jobs = {j1, j2}
    Models = {m1, m2}
    Clients = {c1, c2}
    MaxWorkers = 1
    NoModel = NoModel
SYMMETRY Ids
INVARIANTS
    TypeOK
    OneAttemptPerClaim
    DurableBeforeProcess
    WorkersBalanced
    ReadyIsComplete
    MemoryMatchesLedger
    CleanShutdownSettles
    RestoreAccepts
PROPERTIES
    LedgerSpec
