SPECIFICATION FairSpec
CONSTANTS
    FieldNames = {f}
    Symbols = {x}
    LintCodes = {}
    NativeErrors = {}
    NoField = NoField
    Opaque = Opaque
    NotObject = NotObject
    NoSchema = NoSchema
    Unread = Unread
    Nobody = Nobody
    Requests = {q1, q2}
    ChangeIds = {c1}
    Subjects = {s1}
    Forms <- Singles
    Histories <- Aged
INVARIANT ArtifactCovered
PROPERTY EveryRequestClosed
CHECK_DEADLOCK FALSE
