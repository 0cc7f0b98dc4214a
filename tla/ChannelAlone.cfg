CONSTANTS
  a = a
  b = b
  c = c
  d = d
  Clients <- FourClients
  Seed <- SeedOfFour
  MaxOps = 1
  Timeout = 1
  MaxTime = 0
  MaxAttached = 1
  Capacity = 1
  BareNames <- Bare
  Outcomes = {"result"}
  Patient = FALSE
  DriverFaults = FALSE
SPECIFICATION FairSpec
CHECK_DEADLOCK FALSE
PROPERTIES
  CallsReturn
