CONSTANTS
  bare = bare
  full = full
  Clients = {}
  MaxAssetId = 2
  Loaded = 1
  Rows = {bare, full}
  NoRow = NoRow
  Filters = {"memory"}
  All = ""
  FilterOf <- MCFilterOf
  Terms = {"", "tag"}
  NoTerm = ""
  Found <- MCFound
  MaxFetches = 2
SPECIFICATION ListSpec
CHECK_DEADLOCK FALSE
INVARIANT RemovedAreGone
PROPERTIES
  SentIsHighlighted
  
