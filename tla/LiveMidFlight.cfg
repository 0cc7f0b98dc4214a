CONSTANTS
  c1 = c1
  c2 = c2
  c3 = c3
  Cmds <- TwoCmds
  TTL = 1
  MaxTime = 0
  MaxConcurrent = 1
  Crashes = TRUE
  DiskFaults = FALSE
  DriverFaults = FALSE
SPECIFICATION Spec
CHECK_DEADLOCK FALSE
INVARIANTS
  LandedStepsAreLogged
