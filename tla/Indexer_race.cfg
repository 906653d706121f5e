SPECIFICATION FaultlessSpec
CONSTANTS
  File = {f1}
  Caller = {c1, c2}
  Text = {t1, t2}
  Absent = Absent
  Denied = Denied
  Blank = Blank
  None = None
INVARIANTS UpToDateIsTrue
