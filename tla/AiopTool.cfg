CONSTANTS
  t1 = t1
  t2 = t2
  NoToken = NoToken
  Tokens <- MCTokens
  Words <- MCWords
  Text <- MCText
  CommandLines <- MCCommandLines
  Environments <- MCEnvironments
  Unset <- MCUnset
  IntWidth = 6
  LongWidth = 8
  SlVersion <- MCSlVersion
  NotShown <- MCNotShown
SPECIFICATION FairSpec
INVARIANTS
  CallAsAsked
  ExitTells
PROPERTIES
  TileAsTyped
  ImplementsToolRuns
  RunEnds
