CONSTANTS
  r1 = r1
  r2 = r2
  r3 = r3
  Runs = {r1, r2, r3}
  NumRows = 2
SPECIFICATION SetupSpec
CHECK_DEADLOCK FALSE
SYMMETRY RunSymmetry
INVARIANTS EachAssetOnce ImportedIsComplete
