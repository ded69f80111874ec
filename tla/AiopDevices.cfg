SPECIFICATION Spec
CONSTANTS
  Directories <- MCDirectories
  MaxFds = 8
  MaxInits = 3
INVARIANTS
  NamesAccounted
  FirstOfEach
  LossBounded
