SPECIFICATION Spec
CONSTANTS
  Clients = {c1}
  Commands = {k1, k2}
  c1 = c1
  k1 = k1
  k2 = k2
  AliveMax = 1
  FaultAfter = 2
  Idle = 9
  Hold = 3
  CmdHold = 3
  RefreshEvery = 2
  StopBy = "managedsave"
  Publisher = "halfway"
  May = {"unrestorable"}
SYMMETRY Interchangeable
INVARIANTS CommandsAreSpared
