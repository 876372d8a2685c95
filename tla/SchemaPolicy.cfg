SPECIFICATION Spec
SYMMETRY Symmetric
CONSTANTS
    c1 = c1
    c2 = c2
    p1 = p1
    x1 = x1
    Clients = {c1, c2}
    Policies = {p1}
    Contents = {x1}
    Envs = {"stg", "prod"}
    MaxVersion = 2
    Nothing = Nothing
INVARIANTS IInv OneActiveUnlessRaced ProtectionLostHasCause
PROPERTY VersionsAreImmutable
