CONSTANTS
  c1 = c1
  c2 = c2
  u1 = u1
  typed = typed
  spaced = spaced
  nobody = nobody
  p1 = p1
  p2 = p2
  Names <- MCNames
  Fold <- MCFold
  TrimName <- MCTrimName
  Passwords = {p1, p2}
  PasswordOf <- MCPasswordOf
  r1 = r1
  NoRow = NoRow
  NoUser = NoUser
  Clients = {c1, c2}
  Users = {u1}
  Rows = {r1}
  Duties <- EditAndDelete
  MaxAssetId = 1
  Loaded = 1
  LogLimit = 1
  DashLimit = 1
  MaxLogId = 2
  MaxTime = 0
  MaxFaults = 0
  Notes <- Note
SPECIFICATION FairSpec
CHECK_DEADLOCK FALSE
PROPERTY EditedIsTrue
