SPECIFICATION FairSpec
CONSTANTS
    Fields <- MCFields
    Texts <- MCTexts
    Empty = ""
    Submitted <- MCSubmitted
    Users = {u1}
    u1 = u1
    NoUser = NoUser
    SavedAtFirst <- MCSavedAtFirst
    Description = "description"
    RequiredFields = {"username"}
    Quoted = {"'"}
    SearchedFields = {"description"}
    Terms <- MCTerms
    Trimmed <- MCTrimmed
    Matches <- MCMatches
    MaxInputs = 7
INVARIANTS
    TypeOK
    NothingLeftBehind
PROPERTIES
    SelectionKept
    GridCatchesUp
