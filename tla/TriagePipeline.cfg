SPECIFICATION DeadlineSpec
CONSTANTS
  a = a
  b = b
  none = none
  Callers <- TwoRequests
  NumModels = 2
  MaxAttempts = 2
  Cooldown = 1
  Unlisted = {}
  Pins <- GraphPins
  NoPin <- none
INVARIANTS
  PipelineTypeOK
  NoOrphanedCall
  AnswersExplained
PROPERTIES
  ServiceKeepsItsSpec
  EveryRequestAnswered
