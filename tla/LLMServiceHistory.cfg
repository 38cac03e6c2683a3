SPECIFICATION HSpec
CONSTANTS
  a = a
  b = b
  u = u
  none = none
  Callers <- TwoCallers
  NumModels = 3
  MaxAttempts = 2
  Cooldown = 2
  Unlisted <- OneUnlisted
  Pins <- EveryPin
  NoPin <- none
SYMMETRY CallerSymmetry
INVARIANTS
  TypeOK
  ModelInSync
  FailuresBounded
  SoloExhaustive
  RequestBudget
PROPERTIES
  LoadDrainsWhileOpen
  ImplementsGateway
