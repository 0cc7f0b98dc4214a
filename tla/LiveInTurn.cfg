CONSTANTS
  c1 = c1
  c2 = c2
  c3 = c3
  Cmds <- ThreeCmds
  TTL = 1
  MaxTime = 2
  MaxConcurrent = 1
  Crashes = FALSE
  DiskFaults = FALSE
  DriverFaults = TRUE
SPECIFICATION Spec
CHECK_DEADLOCK FALSE
SYMMETRY Symmetry
INVARIANTS
  LogMatchesCount
PROPERTIES
  KeepsLedger
