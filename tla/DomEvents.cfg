CONSTANTS
  s1 = s1
  s2 = s2
  Sessions <- OneSession
  MaxRequests = 4
  Asks <- Mixed
  Surfaces = {"web", "tauri"}
  Hasty = FALSE
  Faults = TRUE
  MaxErrors = 2
  Buffered = 1
  Stops = {}
SPECIFICATION Spec
CHECK_DEADLOCK FALSE
INVARIANTS
  TypeOK
  EntriesGoOnce
  SnapsKept
  OkMeansQuiet
