SPECIFICATION Spec
CONSTANTS
    Registries = {r1}
    Getters = {g1}
    Admins = {a1, a2}
    Urls = {u1}
    Passwords = {}
    LockIds = {l1}
    NoRow = NoRow
    NoPw = NoPw
    NoClient = NoClient
    NoLock = NoLock
INVARIANT InactiveIsRefused
