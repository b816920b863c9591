SPECIFICATION Spec
CONSTANTS
    Processes = {p1, p2}
    Users = {u1, u2}
    u1 = u1
    u2 = u2
    TextsOf <- MCTextsOf
    NoUser = NoUser
    InitialTables <- MCInitialTables
    Faults = {}
    MaxLogins = 2
    MaxOperations = 2
PROPERTIES
    RowsKept
