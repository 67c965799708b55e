SPECIFICATION Spec
CONSTANTS
  read = read
  write = write
  exec = exec
  PageSize = 2
  PageCount = 4
  Kinds <- MCKinds
  Flags <- MCFlags
  Ranges <- MCUnaligned
  MaxChanges = 0
  QueryMayFail = FALSE
INVARIANTS
  RangeCovered
CHECK_DEADLOCK FALSE
