SPECIFICATION Spec
CONSTANTS
    own = own
    other = other
    Keys <- MCKeys
    PlainTexts <- MCPlainTexts
    Fields <- MCFields
    Empty <- MCEmpty
    Submitted <- MCSubmitted
    IndexedFields <- MCIndexedFields
    PasswordField = "encryped_password"
    cipher = own
    InitialUserData <- MCForeignUserData
    MaxPasswordIds = {10, 12}
    Needles <- MCNeedles
    NoNeedle = "none"
    Matches <- MCMatches
    MaxId = 13
INVARIANT NoCiphertextShown
CHECK_DEADLOCK FALSE
