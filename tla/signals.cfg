SPECIFICATION SignalSpec
CONSTANTS
  move = move
  filing = filing
  other = other
  SignalTypes = {move, filing, other}
  Rules <- MCRules
  Times = {0, 1, 3}
  Scores = {1, 2}
  MaxEvents = 3
  MaxReceived = 4
INVARIANTS
  TriggerIsEarned
  MissedOnlyEvicted
CHECK_DEADLOCK FALSE
