CONSTANTS
  Flags <- MCFlags
  Tokens <- MCTokens
  Values <- MCValues
  Junk <- MCJunk
SPECIFICATION Spec
INVARIANTS
  HeaderSubmits
  ArgsDelivered
  ResultsReturned
