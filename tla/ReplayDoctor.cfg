\* What doctor says of a surface it was not configured for: violated.
SPECIFICATION Spec

CONSTANTS
  Looks <- MCLooks
  Cases <- MCCases
  Faults <- MCFaults

INVARIANT UsableOpens

CHECK_DEADLOCK FALSE
