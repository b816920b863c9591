SPECIFICATION FairSpec
CONSTANTS
    Fields <- MCFields
    Texts <- MCTexts
    Empty = ""
    Submitted <- MCRefusedToo
    SearchedFields <- MCFields
    InitialLists <- MCModifiable
    Terms <- MCTerms
    Matches <- MCMatches
    Faults = {}
    Unstorable <- MCUnstorable
    StoredAs <- MCStoredAs
    MaxOperations = 1
    MaxSearches = 2
INVARIANTS
    NoPopFromEmptyQueue
    NoLostWakeUp
    SearchSettled
PROPERTIES
    RequestsServed
    LogoutEnds
    EverythingStored
