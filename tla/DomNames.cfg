CONSTANTS
  s1 = s1
  s2 = s2
  Sessions <- OneSession
  MaxRequests = 3
  Asks <- Numbered
  Surfaces = {"web"}
  Hasty = FALSE
  Faults = FALSE
  MaxErrors = 0
  Buffered = 1
  Stops = {}
SPECIFICATION Spec
CHECK_DEADLOCK FALSE
INVARIANTS
  SnapsKept
