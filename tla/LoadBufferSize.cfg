CONSTANTS
  Sizes <- MCSizes
  MaxChanges = 2
SPECIFICATION LoadSpec
INVARIANTS
  SizeIsOfData
