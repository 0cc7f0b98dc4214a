CONSTANTS
  s1 = s1
  s2 = s2
  Sessions <- OneSession
  MaxRequests = 2
  Asks <- Pages
  Surfaces = {"tauri"}
  Hasty = FALSE
  Faults = FALSE
  MaxErrors = 1
  Buffered = 1
  Stops = {}
SPECIFICATION Spec
CHECK_DEADLOCK FALSE
INVARIANTS
  ThrowsFailTheStep
