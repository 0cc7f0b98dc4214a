SPECIFICATION FairSpec
CONSTANTS
  Clients = {c1, c2}
  Commands = {}
  c1 = c1
  c2 = c2
  AliveMax = 1
  FaultAfter = 2
  Idle = 3
  Hold = 3
  CmdHold = 3
  RefreshEvery = 2
  StopBy = "managedsave"
  Publisher = "regular"
  May = {"unrestorable", "refuse"}
INVARIANTS NcAfterSsh
PROPERTIES WakesEnd UnusedLabStops
