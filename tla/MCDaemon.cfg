SPECIFICATION AllFairSpec
CONSTANTS
  Parts = {"lock", "activation", "switch", "consent", "command", "life", "config", "mcp"}
  Proc = {p1, p2, p3}
  Caller = {c1, c2, c3}
  Watcher = {w1, w2}
  Files = 1
  Catalog = {"MiniLM", "GTE"}
  File = {"f1"}
  MaxVersion = 2
  Model = {"a", "b"}
  Api = {"x", "y"}
  Cli = {"z"}
  MaxParts = 2
  Call = {"call"}
  ReconcilePass = {"loop", "refresh"}
  Project = {"p1"}
  MaxFailures = 2
  Analyzer = {"lizard"}
  External = {"lizard"}
  Setting = {"onPath", "managed"}
  SourceFile = {"f1"}
  Untracked = {}
  MaxFills = 2
  MaxActs = 3
  None = None
CHECK_DEADLOCK FALSE
INVARIANTS SoleDaemon ActivationIsSound ModelsAreConsistent ConsentHolds
  CommandIsDoneOnce ToolCallsAreTrue EveryFileIsGiven
PROPERTIES LifeIsOrderly DaemonProgress
