SPECIFICATION EvoSpec
CONSTANTS
  v1 = v1
  v2 = v2
  v3 = v3
  NoVersion = NoVersion
  NoGraph = NoGraph
  Versions <- MCVersions
  GraphIds <- MCVersions
  Samples <- MCSamples
  InitialFamily <- MCEmptyFamily
  PromotionThreshold = 80
  FailureThreshold = 50
  MinRunsForPromotion = 2
  FailureStreakThreshold = 2
  MaxRuns = 4
  MaxCrashes = 1
INVARIANTS
  TypeOK
  RolledBackAtThreshold
  DecisionsDurable
  PromotedWithEvidence
  FailuresCounted
PROPERTIES
  ActiveMovesJustified
SYMMETRY VersionSymmetry
CHECK_DEADLOCK FALSE
