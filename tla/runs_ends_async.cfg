SPECIFICATION FairSpec
CONSTANTS
  v1 = v1
  v2 = v2
  alert = alert
  planned = planned
  t1 = t1
  t2 = t2
  monitor = monitor
  summary = summary
  notify = notify
  NoVersion = NoVersion
  NoGraph = NoGraph
  NoBody = NoBody
  NoRun = NoRun
  FamilyName = FamilyName
  NodeIds <- MCNodeIds
  Traces = {t1, t2}
  Versions <- OneVersion
  GraphIds <- LiveIds
  FileGraphs <- Alert
  PlannedIds <- NoIds
  PlannedBodies <- NoIds
  FileBody <- EndsAsync
  Samples <- MCSamples
  InitialFamily <- MCFamily
  PromotionThreshold = 80
  FailureThreshold = 30
  MinRunsForPromotion = 2
  FailureStreakThreshold = 2
  ReuseTraces = FALSE
  MaxLaunches = 1
  MaxRuns = 4
  MaxCrashes = 0
  ExecCap = 3
  NameOrder <- MCNameOrder
  Registries <- MCRegistries
  Steps <- MCSteps
  Positions <- MCPositions
PROPERTIES
  TrackedToCompletion
CHECK_DEADLOCK FALSE
