SPECIFICATION FairSpec
CONSTANTS
    Fields <- MCFields
    Texts <- MCTexts
    Empty = ""
    Submitted <- MCSubmitted
    u1 = u1
    u2 = u2
    Users = {u1, u2}
    NoUser = NoUser
    SavedAtFirst <- MCSavedAtFirst
    Blank <- MCBlank
    SearchedFields = {"description"}
    Terms <- MCTerms
    Trimmed <- MCTrimmed
    Matches <- MCMatches
    MaxInputs = 8
INVARIANTS
    TypeOK
    NothingLeftBehind
PROPERTIES
    RowsOfOthersKept
    TableCatchesUp
