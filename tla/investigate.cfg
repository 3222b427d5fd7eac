SPECIFICATION FairSpec
CONSTANTS
  spike = spike
  note = note
  cycle = cycle
  outcome = outcome
  mission = mission
  once = once
  Signals <- MCSignals
  MaxLines = 3
  MaxCuts = 1
  Emitted = {spike, note}
  WithoutId = {note}
  Severity <- MCSeverity
  Cycle = cycle
  Outcome = outcome
  Window = 2
  Endpoints = 2
  MaxRetries = 2
  Missions = {mission}
  Manual = {once}
  CountCap = 3
  MaxBusy = 2
  MaxMishaps = 1
INVARIANTS
  ProcessedHasEvidence
  InvestigatedOnce
PROPERTIES
  WindowInvestigated
CONSTRAINT MCBounds
CHECK_DEADLOCK FALSE
