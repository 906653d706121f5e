SPECIFICATION AllFairSpec
CONSTANTS
  Path = {a, b}
  Content = {c1}
  Absent = Absent
  Skipped = Skipped
  PENDING_CAP = 1
  Reeval = {r1, r2}
  MaxEdits = 2
  None = None
  Call = {k1, k2}
  MaxTexts = 3
  DefaultBatch = 2
  Parts = {"watcher", "agents", "embeddings"}
CHECK_DEADLOCK FALSE
INVARIANTS TypeOK NothingForgotten ExcludedIsPruned EmbeddingsInOrder
PROPERTIES FilesSettle UserContentKept
