SPECIFICATION Spec
CONSTANTS
    FieldNames = {f}
    Symbols = {x, y}
    LintCodes = {"MISSING_DOC", "NAMING_INCONSISTENT"}
    NativeErrors = {"MISSING_DOC"}
    NoField = NoField
    Opaque = Opaque
    NotObject = NotObject
    NoSchema = NoSchema
    Subjects = {s1, s2}
    Inputs <- OneOrTwo
    NoVerdict = NoVerdict
    Raised = Raised
INVARIANTS StricterTowardsProd AcceptedLossHasCause AnnouncedIsDone StrictestSubject
CHECK_DEADLOCK FALSE
