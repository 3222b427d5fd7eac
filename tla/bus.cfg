SPECIFICATION FairBusSpec
CONSTANTS
  spike = spike
  acme1 = acme1
  acme2 = acme2
  Signals <- MCSignals
  MaxLines = 3
  MaxCuts = 1
  Direct = {spike}
  Ruled = {spike}
  Files <- MCFiles
  Early = {1}
  Readers = {service, operator}
  Service = service
  Bridges = {cli, tool}
  MaxAborts = 1
  MaxOverlaps = 1
  Buffer = 1
  CountCap = 2
  MaxBusy = 2
  MaxMishaps = 1
CONSTRAINT
  MCBounds
INVARIANTS
  AtLeastOnce
  OncePerLine
  RecordedIsOnBus
  ImportedAgain
PROPERTIES
  EveryLineServed
CHECK_DEADLOCK FALSE
