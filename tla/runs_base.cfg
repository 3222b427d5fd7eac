SPECIFICATION Spec
CONSTANTS
  v1 = v1
  v2 = v2
  alert = alert
  planned = planned
  t1 = t1
  t2 = t2
  monitor = monitor
  summary = summary
  notify = notify
  NoVersion = NoVersion
  NoGraph = NoGraph
  NoBody = NoBody
  NoRun = NoRun
  FamilyName = FamilyName
  NodeIds <- MCNodeIds
  Traces = {t1, t2}
  Versions <- MCVersions
  GraphIds <- MixedIds
  FileGraphs <- Alert
  PlannedIds <- Plan
  PlannedBodies <- Plans
  FileBody <- FileBodies
  Samples <- MCSamples
  InitialFamily <- MCFamily
  PromotionThreshold = 80
  FailureThreshold = 30
  MinRunsForPromotion = 2
  FailureStreakThreshold = 2
  ReuseTraces = TRUE
  MaxLaunches = 2
  MaxRuns = 4
  MaxCrashes = 1
  ExecCap = 3
  NameOrder <- MCNameOrder
  Registries <- MCRegistries
  Steps <- MCSteps
  Positions <- MCPositions
INVARIANTS
  SerialOrder
  AnswersDurable
  ReexecutionBound
  FinishedIsFinal
  FilesAgree
  PlansAreSafe
  PlannedRunsArePlans
PROPERTIES
  EvoSpec
CHECK_DEADLOCK FALSE
