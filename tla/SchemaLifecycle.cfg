SPECIFICATION Spec
SYMMETRY Symmetric
CONSTANTS
    r1 = r1
    r2 = r2
    r3 = r3
    a = a
    b = b
    c = c
    full = full
    kim = kim
    Requests = {r1, r2, r3}
    Subjects <- Two
    Schemas = {a, b, c}
    Modes = {full}
    Owners = {kim}
    Jobs <- AllJobs
    Threshold = 2
    MaxVersion = 6
    Starts <- Pasts
    None = None
INVARIANTS LifecycleInv UploadedPrefixStored
PROPERTIES RollbackStepsBack UnsafeDeleteHasCause
