SPECIFICATION FairSpec
CONSTANTS
  r1 = r1
  r2 = r2
  bad = bad
  odd = odd
  Managers <- MCManagers
  Loaders = {l1, l2}
  Rows <- MCRows
  Unscannable <- MCUnscannable
  Malformed <- MCMalformed
  Contents <- MCContents
  MaxEdits = 1
  MaxFaults = 1
 
PROPERTIES AllOrNothing EventuallyCurrent 
