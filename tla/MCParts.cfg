CONSTANTS
  Parts = {"scheduler", "chunking", "changes", "capture"}
  \* scheduler
  Modes <- BothModes
  Actions = {"retry", "resume"}
  \* chunking
  Relations = {1, 2}
  MaxItems = 3
  MaxCharges = 3
  RowLimits = {5, 6}
  MaxChunkCount = 4
  \* changed sets
  RowIds = {1, 2}
  MaxEdits = 2
  MaxDeltaRows = 8
  MaxAbsent = 1
  \* direct capture
  SampleCounts = {0, 2, 9}
  FirstTarget = 3
  LastTarget = 6
  ChunkLimit = 4
  BatchRows = 2
  PageRows = 2
  MaxMoves = 1
SPECIFICATION PartsSpec
CHECK_DEADLOCK FALSE
INVARIANTS
  HeldIsProbed HistoryIsAccounted
  PacksStandAlone DeltaEqualsSnapshot CaptureIsExact
