SPECIFICATION Spec
CONSTANTS
    k1 = k1
    k2 = k2
    k3 = k3
    Absent = Absent
    Invalid = Invalid
    NoKey = NoKey
    Keys <- MCKeys
    PlainTexts <- MCPlainTexts
    Empty <- MCEmpty
    Typed <- MCTyped
    Ids <- MCIds
    Instances = {"one"}
    InitialFiles <- MCNoFile
    InitialRows <- MCPlainRows
    MaxSessions = 3
    MaxLosses = 1
    Limbs = 3
    B = 32
    Corners <- MCCorners
    Messages <- MCMessages
    ByteBits = 4
    Alphabet <- MCAlphabet
    Pad = 4
    Quote = 5
    PREFIX <- MCPrefix
    NONCE_SIZE = 1
    TAG_SIZE = 3
    BLOCK_SIZE = 3
    PAD_SIZE = 3
    Keystream <- MCKeystream
    Mac <- MCMac
    KeyBytes <- MCKeyBytes
    TextBytes <- MCTextBytes
    SomeKeys = {1, 2}
    Nonces <- MCNonces
    SomeTexts <- MCSomeTexts
    SomeStrings <- MCSomeStrings
INVARIANTS
    TypeOK
    RowsReadable
    Poly1305Correct
    StoredValueOpens
    NothingElseOpens
    MacDataUnambiguous
PROPERTIES
    KeyFileKept
CHECK_DEADLOCK FALSE
