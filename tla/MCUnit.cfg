CONSTANTS
    Parts = {"unit", "fleet", "run"}
    Gens = {g1, g2}
    Receipts = {r1, r2}
    NoGen = NoGen
    Import = Import
    NoReceipt = NoReceipt
    MaxFences = 2
    Malformed = {}
    FleetProcs = {"service", "command"}
    MaxPairs = 3
    MaxFleetFences = 2
    MaxStarts = 2
    MaxUpsets = 2
    HubProcesses = {1, 2}
    Deployments <- MCDeployments
    RunLeaseTicks = 1
    GapMin = 1
    MaxMishaps = 2
    MaxWall = 3
SYMMETRY Symmetry
SPECIFICATION UnitsSpec
INVARIANTS
    PresentedIsReserved
    AtRiskFenced
    SuccessorKept
    FleetPresentedOnce
    FleetRowIsTrue
    DowntimeOnTheBooks
PROPERTIES
    NeverResent
    ExternalWriteWins
CHECK_DEADLOCK FALSE
