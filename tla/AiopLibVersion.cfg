CONSTANTS
  t1 = t1
  t2 = t2
  NoToken = NoToken
  Tokens <- MCTokens
SPECIFICATION Spec
INVARIANTS
  VersionIsOptional
