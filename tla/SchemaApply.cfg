SPECIFICATION Spec
CONSTANTS
    FieldNames = {f}
    Symbols = {x}
    LintCodes = {}
    NativeErrors = {}
    NoField = NoField
    Opaque = Opaque
    NotObject = NotObject
    NoSchema = NoSchema
    Unread = Unread
    Nobody = Nobody
    Requests = {q1, q2}
    ChangeIds = {c1}
    Subjects = {s1, s2}
    Forms <- Batches
    Histories <- Fresh
SYMMETRY Symmetry
INVARIANTS IInv GatedWrites HonestResult AppliedOnce
PROPERTY ImplementsChangeControl
CHECK_DEADLOCK FALSE
