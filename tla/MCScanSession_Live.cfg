SPECIFICATION FairSpec
CONSTANTS
  Word = 8
  Infinity = 8
  ElementSize <- MCElementSize
  Format <- MCFormat
  Radix = 2
  FirstTypes = {"unknown_value", "exact_value"}
  NextTypes = {"changed"}
  Raws = {1}
  Options <- MCGiven
  Addresses <- MCAddresses
  Layouts <- MCLayouts
  MaxUpdates = 0
PROPERTIES
  ScansReturn
