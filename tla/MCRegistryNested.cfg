SPECIFICATION Spec
CONSTANTS
    Ids = {i1, i2}
    Locals = {p1, p2}
    Files = {f1}
    Clients = {c1}
    Under <- Nested
INVARIANT
    RegisteredDirectoryExists
