SPECIFICATION Spec
CONSTANTS
  FallbackWindow <- MCFallback
  GapWindow <- MCGap
  CapWindow <- MCFallback
  SectionWindow <- MCSection
  GapThreshold = 2
  HardMax = 4
  MaxDepth = 2
  Above = Above
  RrfK = 1
  Unit = 60
  MaxRank = 3
  Weight <- MCWeight
  Limits <- MCLimits
  Dimensions <- MCDimensions
  Gain <- MCGain
  PerFileCap = 2
  GroupCap = 4
  MaxGroups = 1
  SemanticCap = 1
  MemberClamp = 2
  None = None
  Cwd = Cwd
  Null = Null
  Bounds <- MCBounds
  Absent = Absent
INVARIANTS
  ChunksCoverFile RulesDecide SearchIsFair QueriesAreExact AnalysisIsHonest
  SettingsAreLoaded EvaluationIsFair ToolsAgree
