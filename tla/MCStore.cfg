SPECIFICATION Spec
CONSTANTS
    Fields <- MCFields
    Texts <- MCTexts
    Empty = ""
    Submitted <- MCSubmitted
    SearchedFields <- MCFields
    InitialLists <- MCInitialLists
    Terms <- MCTerms
    Matches <- MCMatches
    Faults = {"OPEN", "INSERT", "DELETE"}
    Unstorable <- MCUnstorable
    StoredAs <- MCStoredAs
    MaxOperations = 2
    MaxSearches = 0
INVARIANTS
    TypeOK
    RowsAccountedFor
    FinalSave
PROPERTIES
    EffectOnceInOrder
