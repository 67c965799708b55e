SPECIFICATION Spec
CONSTANTS
  Word = 8
  Infinity = 8
  ElementSize <- MCElementSize
  Format <- MCFormat
  Radix = 2
  FirstTypes = {"unknown_value"}
  NextTypes = {"exact_value"}
  Raws = {1}
  Options <- MCGiven
  Addresses <- MCAddresses
  Layouts <- MCLayouts
  MaxUpdates = 0
INVARIANTS
  ExactValueFound
