SPECIFICATION Spec
CONSTANTS
  Stay = TRUE
  Wait = TRUE
  CharDelay = FALSE
  EolLen = 1
  QCap = 3
  Inputs <- ShellInputs
  Transient = FALSE
  MaxOps = 0
  MaxPlug = 4
INVARIANTS StayOutlivesDevice
