SPECIFICATION TickSpec
CONSTANTS
  NoRoute = NoRoute
  Intents <- MCIntents
  Tokens <- MCTokens
  Actions <- MCActions
  Threshold = 5000
  Texts <- MCTexts
  Normal <- MCNormal
  Words <- MCWords
  StaticRoutes <- MCStaticRoutes
  Payloads <- MCPayloads
  GraphIntents <- MCGraphIntents
  NodeRoutes <- MCNodeRoutes
  KernelPolicies <- MCKernelPolicies
  LoadedPatterns <- MCLoadedPatterns
INVARIANTS
  TickCallsWithinPolicy
  LearnedActionWasExecuted
PROPERTIES
  ExactAnswersStay
  RestartKeepsScore
