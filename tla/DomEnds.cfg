CONSTANTS
  s1 = s1
  s2 = s2
  Sessions <- TwoSessions
  MaxRequests = 3
  Asks <- Lives
  Surfaces = {"web"}
  Hasty = TRUE
  Faults = TRUE
  MaxErrors = 0
  Buffered = 1
  Stops = {"end", "signal"}
SPECIFICATION FairSpec
CHECK_DEADLOCK FALSE
PROPERTIES
  DriverEnds
  BrowsersEnd
