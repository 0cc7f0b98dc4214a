CONSTANTS
  c1 = c1
  c2 = c2
  c3 = c3
  Cmds <- TwoCmds
  TTL = 2
  MaxTime = 3
  MaxConcurrent = 1
  Crashes = FALSE
  DiskFaults = FALSE
  DriverFaults = FALSE
SPECIFICATION Spec
CHECK_DEADLOCK FALSE
INVARIANTS
  LivesFromLastCommand
