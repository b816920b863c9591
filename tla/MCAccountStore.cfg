SPECIFICATION Spec
CONSTANTS
    Clients = {w1, q1}
    WindowsClients = {w1}
    w1 = w1
    q1 = q1
    TypedNames <- MCTypedNames
    Trimmed <- MCTrimmed
    Secrets <- MCSecrets
    Empty = ""
    InitialAccounts <- MCInitialAccounts
    MaxSubmits = 3
    MaxLogins = 1
INVARIANTS
    TypeOK
    ToldTheTruth
PROPERTIES
    CreatedCanLogIn
