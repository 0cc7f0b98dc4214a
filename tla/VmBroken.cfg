SPECIFICATION Spec
CONSTANTS
  Clients = {c1}
  Commands = {}
  c1 = c1
  AliveMax = 1
  FaultAfter = 2
  Idle = 4
  Hold = 3
  CmdHold = 3
  RefreshEvery = 2
  StopBy = "managedsave"
  Publisher = "halfway"
  May = {}
PROPERTIES NeverOnABrokenRun
