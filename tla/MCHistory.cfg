CONSTANTS
  Parts = {"unit", "lifecycle", "figures", "book", "enrichment", "tiles"}
  \* the credential unit
  Gens = {g1, g2, g3}
  Receipts = {r1}
  NoGen = NoGen
  Import = Import
  NoReceipt = NoReceipt
  MaxFences = 3
  Malformed = {g3}
  \* lifecycle
  GapTicks = 2
  LeadCopies = 1
  DMin = 1
  DipSize = 1
  ParkTicks = 3
  MaxSeen = 3
  Outings = {"road", "imported", "topup", "replug", "upkeep"}
  \* charge figures
  SampleForms <- FigureForms
  Presets = {0, 2}
  IntervalMax = 1
  CounterDip = 1
  PreSampleMax = 1
  RatioMin = 2
  AcMaxPower = 57
  WindowLevel = 90
  WindowSpan = 10
  SamplePage = 2
  MaxSamples = 3
  \* charge book
  BookSessions <- MCBookSessions
  FenceForms <- MCFenceForms
  FenceIds = {1, 2}
  NumCharges = 2
  CostLimit = 20
  EffFigures = 1
  EffCandidates = 2
  MaxBookEdits = 2
  \* enrichment
  Ground <- MCGround
  DriveOf <- MCDriveOf
  DateOf <- MCDateOf
  StreamedDrives = {}
  Band = 3
  PageLimit = 2
  RetryTicks = 1
  FuseFailures = 2
  FuseReset = 2
  PlaceOf <- MCPlaceOf
  Languages = {"en", "de"}
  LeaseTicks = 1
  BackoffTicks = 1
  MaxBackoff = 2
  Setups = {{"terrain"}, {"geocoder"}}
  MaxClock = 3
  MaxStarts = 1
  \* terrain tiles
  Hubs = {1, 2}
  Tiles = {1}
  TempNames = 2
  Providers = {"aws", "esa"}
  CacheLimit = 2
  MaxLookups = 2
  MaxCrashes = 1
SYMMETRY Symmetry
SPECIFICATION HistorySpec
CHECK_DEADLOCK FALSE
INVARIANTS
  LoginAlwaysAccepted
  SplitAgrees DrivesKeepPositions EnergyCountedOnce
  FiguresAreOfTheList BookFollowsRules
  CursorSkipsNone  AddressInLanguage CacheIsProven
