SPECIFICATION Spec
CONSTANTS
  r1 = r1
  r2 = r2
  s1 = s1
  s2 = s2
  Requests <- TwoRequests
  Sessions <- OneSession
  MaxTries = 2
  Faulty = TRUE
PROPERTY RemovedStaysRemoved
