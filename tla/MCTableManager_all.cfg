SPECIFICATION Spec
CONSTANTS
  r1 = r1
  r2 = r2
  bad = bad
  odd = odd
  Managers <- MCAggregator
  Loaders = {l1}
  Rows <- MCRows
  Unscannable <- MCUnscannable
  Malformed <- MCMalformed
  Contents <- MCContents
  MaxEdits = 1
  MaxFaults = 1
INVARIANTS LoadAllLoadsAll
