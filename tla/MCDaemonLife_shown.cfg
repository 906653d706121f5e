SPECIFICATION LifeSpec
CONSTANTS
  Project = {p1, p2}
  MaxFailures = 2
  None = None
CHECK_DEADLOCK FALSE
INVARIANT ShownActiveIsWatched
