SPECIFICATION Spec
CONSTANTS
  r1 = r1
  r2 = r2
  r3 = r3
  b0 = b0
  b1 = b1
  Regions <- MCRegions
  RegionSize <- MCRegionSize
  Bytes <- MCBytes
  Zero = b0
  PageSize = 2
  Granularity = 4
  InitialSizes = {5}
  StaleSizes = {3}
  Faults = {"open", "expand", "map"}
INVARIANTS
  RegionInv
PROPERTIES
  SnapshotsIntact
\* Every region may be gone: nothing is left to do.
CHECK_DEADLOCK FALSE
