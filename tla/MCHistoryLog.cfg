CONSTANTS
  c1 = c1
  c2 = c2
  c3 = c3
  n1 = n1
  MaxAssetId = 1
  Clients = {c1, c2, c3}
  Notes = {n1}
  LogLimit = 2
  DashLimit = 1
  MaxLogId = 5
  MaxTime = 2
SPECIFICATION LogSpec
CHECK_DEADLOCK FALSE
SYMMETRY ClientSymmetry
INVARIANTS
  LogBound
  DroppedAreOldest
PROPERTIES
  TrimInvisible
