SPECIFICATION FairSpec
CONSTANTS
  Regions = {"r1", "r2", "r3"}
INVARIANTS
  TypeOK
  FileRemoved
PROPERTIES
  RegionsReleased
  ExitEnds
