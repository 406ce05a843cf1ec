SPECIFICATION Spec
CONSTANTS
  Stay = TRUE
  Wait = TRUE
  CharDelay = FALSE
  EolLen = 1
  QCap = 3
  Inputs <- AllInputs
  Transient = TRUE
  MaxOps = 4
  MaxPlug = 4
INVARIANTS TypeOK OpenXorWatching CurrentIsHead SleepIsCurrent OffsetInside PermissionOnlyWatching AssertionsHold SettingsRestored WireInOrder
