SPECIFICATION Spec
CONSTANTS
    Processes = {p1}
    Users = {u1, u2}
    u1 = u1
    u2 = u2
    TextsOf <- MCTextsOf
    NoUser = NoUser
    InitialTables <- MCInitialTables
    Faults = {"SELECT", "RANDOM"}
    MaxLogins = 3
    MaxOperations = 2
INVARIANTS
    TypeOK
    DeletedStaysDeleted
PROPERTIES
    RowsKept
    LoginLoadsSaved
