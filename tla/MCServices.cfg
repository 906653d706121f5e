SPECIFICATION AllFairSpec
CONSTANTS
  Parts = {"queue", "health", "tables", "log", "history", "usage", "vectors", "faults", "live", "fetch", "query", "view"}
  File = {f1}
  Sha = {s1, s2}
  lizard = lizard
  quality = quality
  ANALYZERS <- TwoAnalyzers
  Lizard = lizard
  Quality = quality
  Concurrency = {1, 2}
  Project = {p1, p2}
  Call = {k1, k2, k3, k4}
  RelPath <- TwoPaths
  Text <- Contents
  LinksOf <- Goes
  MaxCalls = 3
  Caps = {0, 1, 3}
  MaxRequests = 6
  MaxDeferred = 2
  Writer = {"daemon", "cli"}
  Payload = {"A", "B"}
  HEALTH_HISTORY_KEEP = 2
  MaxClock = 6
  Hit <- TheHits
  Size <- Bytes
  MaxHits = 2
  MaxQueries = 3
  Signature = {"f1", "f2", "f3"}
  MaxSignatures = 2
  RateLimit = 2
  MaxFires = 3
  Total = 2
  RETENTION = 2
  THROTTLE = 1
  MaxTicks = 5
  None = None
CHECK_DEADLOCK FALSE
INVARIANTS QueueIsSound ScoringIsOrderly JoinsAgree VectorStoreIsSound
PROPERTIES KeepsDuty LedgersAreKept PagesAreTrue ServicesProgress
