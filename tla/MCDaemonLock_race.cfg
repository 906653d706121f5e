SPECIFICATION StartSpec
CONSTANTS
  Proc = {p1, p2}
  None = None
CHECK_DEADLOCK FALSE
INVARIANT AtMostOneDaemon
