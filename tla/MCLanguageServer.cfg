SPECIFICATION Spec
CONSTANTS
    u1 = u1
    u2 = u2
    far = far
    short = short
    long = long
    None = None
    Limit = Limit
    Error = Error
    Uris = {u1, u2, far}
    LongUris = {far}
    Texts = {short, long}
    Oversized = {long}
    MaxDocuments = 1
    MaxVersion = 2
    MaxRequests = 3
    MaxLapses = 1
    MaxUnread = 2
SYMMETRY LanguageServerSymmetry
INVARIANTS
    EditorAndServerAgree
CHECK_DEADLOCK FALSE
