CONSTANTS
  a = a
  b = b
  c = c
  d = d
  Clients <- TwoClients
  Seed <- SeedOfTwo
  MaxOps = 2
  Timeout = 1
  MaxTime = 1
  MaxAttached = 2
  Capacity = 2
  BareNames <- Qualified
  Outcomes = {"result", "mentions"}
  Patient = FALSE
  DriverFaults = TRUE
SPECIFICATION Spec
CHECK_DEADLOCK FALSE
INVARIANTS
  TypeOK
  OwnAnswer
  ExecutedOnce
  OneAnswerEach
