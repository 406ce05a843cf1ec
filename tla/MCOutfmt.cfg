SPECIFICATION Spec
CHECK_DEADLOCK FALSE
CONSTANTS
  BufSize = 6
  ReprSize = 5
  StampSize = 4
  StampLen = 2
  RedLen = 4
  OffLen = 3
  EolOpts <- AllEols
  Charmaps <- AllMaps
  Chunks <- AllChunks
  MaxInput = 5
INVARIANTS
  TypeOK
  ShowsEverything
  StampsEveryLine
