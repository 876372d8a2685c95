SPECIFICATION MigrationSpec
SYMMETRY Symmetric
CONSTANTS
    r1 = r1
    r2 = r2
    Runners = {r1, r2}
    Backends = {"sqlite", "mysql", "postgresql"}
    MaxCommands = 3
INVARIANTS MigrationInv HeadServesModels RefusalsAreKnown
