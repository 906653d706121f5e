SPECIFICATION Spec
CONSTANTS
  Key = {k1}
  Consumer = {page}
  MaxVersion = 3
  MaxLosses = 0
  None = None
CHECK_DEADLOCK FALSE
INVARIANT ReloadIsFresh
