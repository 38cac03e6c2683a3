SPECIFICATION FairSpec
CONSTANTS
  r1 = r1
  r2 = r2
  ann = ann
  plain = plain
  amp = amp
  Requests <- TwoRequests
  Addresses <- OneAddress
  Secrets <- PlainAndSpecial
  Special <- SpecialOnly
  MaxTries = 3
  Faulty = TRUE
INVARIANTS
  TypeOK
  OneAccountPerAddress
  RegistrationsOwnTheirAccount
PROPERTY EveryRequestAnswered
