CONSTANTS
  s1 = s1
  s2 = s2
  Sessions <- OneSession
  MaxRequests = 1
  Asks <- Pages
  Surfaces = {"web"}
  Hasty = TRUE
  Faults = FALSE
  MaxErrors = 0
  Buffered = 1
  Stops = {}
SPECIFICATION FairSpec
CHECK_DEADLOCK FALSE
PROPERTIES
  AbandonedBrowsersEnd
