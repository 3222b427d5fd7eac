SPECIFICATION FairSpec
CONSTANTS
  AnomalyThreshold = 2
  AnomalyWindow = 1
  EvidenceThreshold = 2
  EvidenceWindow = 1
  QuietWindow = 2
  MinimumEvents = 2
  MaxTime = 2
  MaxEvents = 3
  MaxEngines = 2
INVARIANTS
  StopOnlyQuiet
  ObservationsCounted
PROPERTIES
  PolicyApplied
CHECK_DEADLOCK FALSE
