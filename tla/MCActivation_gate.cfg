SPECIFICATION ActivationSpec
CONSTANTS
  Caller = {c1}
  Watcher = {w1}
  Files = 1
  None = None
PROPERTY OnlyUsersActivate
