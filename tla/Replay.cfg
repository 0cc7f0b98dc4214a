\* Every world under a plain flow, and a sound world under flows of every kind.
SPECIFICATION FairSpec

CONSTANTS
  Looks <- MCLooks
  Cases <- MCCases
  Faults <- MCFaults

INVARIANTS
  TypeOK
  PassMeansAll
  LedgerMatchesExit
  BlameNeedsUi
  DoctorForetells

PROPERTIES
  EndsClean

\* An invocation ends.
CHECK_DEADLOCK FALSE
