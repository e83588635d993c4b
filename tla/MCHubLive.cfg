SPECIFICATION HubFair
CONSTANTS
  Parts = {"sync", "delivery", "serving", "physical"}
  \* live sync
  Rows = {r1, r2}
  MaxWrites = 2
  ClaimLimit = 1
  MaxChunks = 3
  Headroom = 1
  Retention = 1
  Grace = 1
  MaxEvents = 2
  Drops = FALSE
  \* delivery
  PackIds = {1, 2, 3, 4, 5}
  KeepFor = 1
  DeleteLag = 1
  MaxPacks = 4
  MaxRepairs = 1
  \* physical heads
  Contents = {1, 2}
  RetainFor = 2
  DeleteGrace = 1
  MaxPSeq = 3
  MaxPTime = 3
  MaxPFaults = 1
  \* serving
  Devices = {d1, d2}
  Producers = {s1, s2}
  PerDevice = 2
  Global = 1
  MaxAsks = 3

  
PROPERTIES
  ConvergedOrFull ReachesHead ShutdownEnds ClientCatchesUp
CHECK_DEADLOCK FALSE
