CONSTANTS
    Parts = {"custody"}
    Modes <- AllHolders
    Cars = {c1}
    Spacing = 1
    Pause = 2
    Window = 2
    RetryDelays = {1}
    k1 = k1
    k2 = k2
    k3 = k3
    Keys = {k1, k2, k3}
    NoKey = NoKey
    CursorKey = CursorKey
    Partial = Partial
    Beside = {"setup", "migrate", "setup-fleet", "sign-out", "bootstrap", "serve"}
    MaxUnsynced = 2
    Jobs = {j1, j2}
    Vehicles = {v1}
    InviteLife = 1
    TokenLife = 2
    MaxLife = 3
    GraceWindow = 1
    WriteInterval = 0
    LastDay = 3
    MaxIssued = 3
    MaxRetirements = 1
SPECIFICATION AccountsSpec
INVARIANTS
    LegacyKeyKept
