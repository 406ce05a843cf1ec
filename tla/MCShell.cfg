SPECIFICATION Spec
CHECK_DEADLOCK FALSE
CONSTANTS
  Keys <- KeySet
  QueueSize = 3
  MaxKeys = 4
  MaxWrites = 1
INVARIANTS
  TypeOK
  SentAsTyped
  TwoExitKeysExit
  StallsOnlyOnNul
  RawSendsUnbound
