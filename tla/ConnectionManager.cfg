SPECIFICATION FairSpec
CONSTANTS
    Registries = {r1}
    Getters = {g1, g2, g3}
    Admins = {a1}
    Urls = {u1}
    Passwords = {p1}
    LockIds = {l1, l2}
    NoRow = NoRow
    NoPw = NoPw
    NoClient = NoClient
    NoLock = NoLock
INVARIANTS IInv OneBuilder BuiltFromActiveRow StaleHasCause
PROPERTIES NeverReplaced EveryGetEnds
