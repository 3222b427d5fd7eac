SPECIFICATION Spec
CONSTANTS
  c1 = c1
  c2 = c2
  before = before
  Creations <- MCCreations
  Checkpoints = {c1}
  Label <- MCLabel
  N = 2
  Readable = {1}
  Names <- MCNames
  MaxState <- MCMaxState
  MaxSecond = 1
  None = None
INVARIANTS
  IndexedIsComplete
  FinishedIsListed
  SameAnswers
CHECK_DEADLOCK FALSE
