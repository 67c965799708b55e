SPECIFICATION Spec
CONSTANTS
  r1 = r1
  r2 = r2
  r3 = r3
  b0 = b0
  b1 = b1
  Regions <- MCRegions
  RegionSize <- MCRegionSize
  Bytes <- MCBytes
  Zero = b0
  PageSize = 2
  Granularity = 4
  InitialSizes = {}
  StaleSizes = {4}
  Faults = {}
INVARIANTS
  MappingCreated
CHECK_DEADLOCK FALSE
