\* Two processes place and the tree is edited; any of them breaks off anywhere.
SPECIFICATION Spec

CONSTANTS
  p1 = p1
  p2 = p2
  f1 = f1
  f2 = f2
  v1 = v1
  v2 = v2
  Procs <- MCProcs
  Files <- MCFiles
  Vers <- MCVers
  Requests <- MCRequests
  Layouts = {"below", "inside", "linked"}
  MaxPlacements = 3
  MaxTogether = 2
  MaxEdits = 2
  MaxLosses = 1

SYMMETRY Alike

INVARIANTS
  TypeOK
  RecordIsPlaced
  AnswersAreGenuine

\* The bounds run out.
CHECK_DEADLOCK FALSE
