SPECIFICATION FairSpec
CONSTANTS
  Project = {p1}
  File = {f1}
  Loop = loop
  Refresh = {r1}
  Rebuild = {b1, b2}
  MaxFaults = 2
  None = None
INVARIANTS SkippedIsComplete OneRebuild
PROPERTY MarkerResumed
