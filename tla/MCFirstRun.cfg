SPECIFICATION Spec
CONSTANTS
    k1 = k1
    k2 = k2
    k3 = k3
    Absent = Absent
    Invalid = Invalid
    NoKey = NoKey
    Keys <- MCKeys
    PlainTexts <- MCPlainTexts
    Empty <- MCEmpty
    Typed <- MCTyped
    Ids <- MCIds
    Instances = {"one", "two"}
    InitialFiles <- MCFirstRun
    InitialRows <- MCPlainRows
    MaxSessions = 2
    MaxLosses = 0
PROPERTY KeyNotReplaced
CHECK_DEADLOCK FALSE
