SPECIFICATION Spec
CONSTANTS
  r1 = r1
  r2 = r2
  r3 = r3
  b0 = b0
  b1 = b1
  Regions <- MCRegions
  RegionSize <- MCRegionSize
  Bytes <- MCBytes
  Zero = b0
  PageSize = 2
  Granularity = 4
  InitialSizes = {}
  StaleSizes = {}
  Faults = {"open"}
INVARIANTS
  TypeOK
  MemorySafe
  SpansDisjoint
  OneChunk
PROPERTIES
  SnapshotsIntact
\* Every region may be gone: nothing is left to do.
CHECK_DEADLOCK FALSE
