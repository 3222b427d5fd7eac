SPECIFICATION Spec
CONSTANTS
  a1 = a1
  a2 = a2
  shut = shut
  again = again
  again2 = again2
  a = a
  Calls <- MCCalls
  Kind <- MCKind
  Sid <- MCSid
  Wants <- MCWants
  Social = {a2}
  TaskClass <- MCClass
  Reasoning = {a1}
  Skills = {1, 2}
  Home = {2}
  Mutating = {2}
  Mapped = {1, 2}
  Manifests <- MCManifests
  Threads = 2
  MaxRestarts = 1
  None = None
SYMMETRY MCSymmetry
INVARIANTS
  AnswersOnFile
  LiveNeedsBeta
  ClosedIsSummarised
CHECK_DEADLOCK FALSE
