SPECIFICATION FairSpec
CONSTANTS
  r1 = r1
  r2 = r2
  r3 = r3
  home = home
  Requests <- ThreeRequests
  Addresses <- OneAddress
  Offered <- OneEach
  MaxTries = 2
  Faulty = TRUE
  Threads = 2
  Capacity = 1
  Limit = 1
INVARIANTS
  PathTypeOK
  WaitersBounded
  QuotaHolds
  RefusedHasNoEffect
  CountedAsAnswered
  LinesAttributed
PROPERTY EveryRequestAnswered
