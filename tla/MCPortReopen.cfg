SPECIFICATION FairSpec
CONSTANTS
  Stay = TRUE
  Wait = TRUE
  CharDelay = TRUE
  EolLen = 2
  QCap = 2
  Inputs <- LiveInputs
  Transient = FALSE
  MaxOps = 3
  MaxPlug = 3
PROPERTIES DeviceGetsOpened
