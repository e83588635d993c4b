SPECIFICATION HubSpec
CONSTANTS
  Parts = {"sync", "delivery", "serving"}
  \* live sync
  Rows = {r1, r2}
  MaxWrites = 3
  ClaimLimit = 2
  MaxChunks = 3
  Headroom = 1
  Retention = 1
  Grace = 1
  MaxEvents = 2
  Drops = FALSE
  \* delivery
  PackIds = {1, 2, 3, 4, 5}
  KeepFor = 1
  DeleteLag = 1
  MaxPacks = 5
  MaxRepairs = 1
  \* physical heads
  Contents = {1, 2}
  RetainFor = 2
  DeleteGrace = 1
  MaxPSeq = 3
  MaxPTime = 3
  MaxPFaults = 1
  \* serving
  Devices = {d1, d2}
  Producers = {s1, s2, s3}
  PerDevice = 2
  Global = 3
  MaxAsks = 4
SYMMETRY Sym
INVARIANTS
  QuietMeansConverged AnswersStand PromiseKept
PROPERTIES
  ImplementsLineage
CHECK_DEADLOCK FALSE
