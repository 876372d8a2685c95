SPECIFICATION TrailSpec
SYMMETRY Symmetric
CONSTANTS
    d1 = d1
    d2 = d2
    r1 = r1
    r2 = r2
    why = why
    RequestIds = {r1, r2}
    Actors = {"joann"}
    Approvers = {"ann", "joann"}
    Like <- Names
    Reasons = {why}
    Rulings <- Two
    Deciders = {d1, d2}
    Entries <- Logged
    IgnoresCase = FALSE
    Seconds = {1, 2}
    MaxLog = 2
    Limits = {1, 2}
    Null = Null
INVARIANTS TrailInv HistoryExtendsRecent FilteredAsShown PendingIsRequested
CHECK_DEADLOCK FALSE
