SPECIFICATION FairSpec
CONSTANTS
  read = read
  write = write
  exec = exec
  PageSize = 2
  PageCount = 4
  Kinds <- MCKinds
  Flags <- MCFlags
  Ranges <- MCAligned
  MaxChanges = 1
  QueryMayFail = TRUE
INVARIANTS
  TypeOK
  WithinRange
  InOrder
  FindsRuns
PROPERTIES
  WalkEnds
\* The walk ends.
CHECK_DEADLOCK FALSE
