SPECIFICATION MonitoredSpec
CONSTANTS
  a = a
  b = b
  p = p
  none = none
  Callers <- TwoCallers
  NumModels = 2
  MaxAttempts = 2
  Cooldown = 2
  Unlisted = {}
  Pins <- GraphPins
  NoPin <- none
  Probes <- OneProbe
INVARIANT HealthTypeOK
PROPERTIES
  NoFalseGreen
  ProbeAnswered
  ImplementsFairGateway
  CallTerminates
