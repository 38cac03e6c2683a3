SPECIFICATION HSpec
CONSTANTS
  a = a
  b = b
  u = u
  none = none
  Callers <- TwoCallers
  NumModels = 2
  MaxAttempts = 1
  Cooldown = 2
  Unlisted = {}
  Pins <- GraphPins
  NoPin <- none
INVARIANT ExhaustedMeansAllAsked
