SPECIFICATION MonitoredSpec
CONSTANTS
  a = a
  b = b
  p = p
  none = none
  Callers <- TwoCallers
  NumModels = 1
  MaxAttempts = 1
  Cooldown = 2
  Unlisted = {}
  Pins <- GraphPins
  NoPin <- none
  Probes <- OneProbe
PROPERTY LLMHealthRecovers
