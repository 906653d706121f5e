SPECIFICATION AllFairSpec
CONSTANTS
  File = {f1}
  Caller = {c1, c2}
  Text = {t1, t2}
  Absent = Absent
  Denied = Denied
  Blank = Blank
  None = None
  Proc = {p1, p2}
  Object <- Objects
  MIGRATIONS <- Ladder
  Required <- Tables
  Flag = "active"
  MaxStops = 1
CHECK_DEADLOCK FALSE
INVARIANTS TypeOK OneWriter OneGeneration StoresAgree SchemaIsTrue
PROPERTY StoresProgress
