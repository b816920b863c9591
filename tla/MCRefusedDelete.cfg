SPECIFICATION Spec
CONSTANTS
    Fields <- MCFields
    Texts <- MCTexts
    Empty = ""
    Submitted <- MCSubmitted
    SearchedFields <- MCFields
    InitialLists <- MCInitialLists
    Terms <- MCTerms
    Matches <- MCMatches
    Faults = {"DELETE"}
    Unstorable <- MCUnstorable
    StoredAs <- MCStoredAs
    MaxOperations = 1
    MaxSearches = 0
INVARIANT RemovalsSaved
