SPECIFICATION Spec
CONSTANTS
  o1 = o1
  o2 = o2
  h1 = h1
  h2 = h2
  h3 = h3
  h4 = h4
  h5 = h5
  h6 = h6
  a1 = a1
  a2 = a2
  a3 = a3
  Objects <- MCObjects
  Handles <- MCHandles
  Addresses <- MCAddresses
  invalid_handle = invalid_handle
  nullptr = nullptr
SYMMETRY MCSymmetry
INVARIANTS
  TypeOK
  HeldIsOpen
  HeldOnce
  NothingLost
  CallersKeepHandles
