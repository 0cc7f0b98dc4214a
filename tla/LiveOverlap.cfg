CONSTANTS
  c1 = c1
  c2 = c2
  c3 = c3
  Cmds <- TwoCmds
  TTL = 1
  MaxTime = 1
  MaxConcurrent = 2
  Crashes = TRUE
  DiskFaults = TRUE
  DriverFaults = FALSE
SPECIFICATION Spec
CHECK_DEADLOCK FALSE
SYMMETRY Symmetry
INVARIANTS
  TypeOK
  CountsAreEarned
  CountWithinLog
  NoOrphanDriver
PROPERTIES
  NothingHeardAfterClose
