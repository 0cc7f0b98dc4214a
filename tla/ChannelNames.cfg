CONSTANTS
  a = a
  b = b
  c = c
  d = d
  Clients <- OneClient
  Seed <- SeedOfOne
  MaxOps = 2
  Timeout = 1
  MaxTime = 0
  MaxAttached = 1
  Capacity = 2
  BareNames <- Qualified
  Outcomes = {"result", "mentions"}
  Patient = TRUE
  DriverFaults = FALSE
SPECIFICATION Spec
CHECK_DEADLOCK FALSE
INVARIANTS
  KeepsNamespace
