SPECIFICATION Spec
CONSTANTS
    own = own
    other = other
    Keys <- MCKeys
    PlainTexts <- MCPlainTexts
    Fields <- MCFields
    Empty <- MCEmpty
    Submitted <- MCSubmitted
    IndexedFields <- MCIndexedFields
    PasswordField = "encryped_password"
    cipher = own
    InitialUserData <- MCInitialUserData
    MaxPasswordIds = {10, 12}
    Needles <- MCNeedles
    NoNeedle = "none"
    Matches <- MCMatches
    MaxId = 13
INVARIANTS
    TypeOK
    IndexExact
    NoObjectOutlivesItsEntry
    SearchExact
    SealedAtRest
    RemovedStaysRemoved
PROPERTY ImplementsPasswordList
CHECK_DEADLOCK FALSE
