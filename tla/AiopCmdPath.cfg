CONSTANTS
  Words <- MCWords
  Text <- MCText
  CommandLines <- MCCommandLines
  Environments <- MCEnvironments
  Unset <- MCUnset
  IntWidth = 6
  LongWidth = 8
SPECIFICATION Spec
INVARIANTS
  OptionsKept
