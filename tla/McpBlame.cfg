\* A close blames the application for a step that the driver failed (not a run).
SPECIFICATION Spec

CONSTANTS
  c1 = c1
  c2 = c2
  i1 = i1
  Calls = {c1, c2}
  Ids = {i1}
  Tools <- MCTools
  MaxSteps = 2
  MaxLines = 3
  MaxEvents = 1
  Failures <- MCFailures

SYMMETRY Alike

INVARIANTS
  OnlyTheUIIsBlamed

\* The calls are finite in number.
CHECK_DEADLOCK FALSE
