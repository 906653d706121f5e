SPECIFICATION CrashSpec
CONSTANTS
  Project = {p1}
  File = {f1}
  Loop = loop
  Refresh = {}
  Rebuild = {b1}
  MaxFaults = 1
  None = None
PROPERTY RebuildRecovers
