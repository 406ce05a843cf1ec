SPECIFICATION Spec
CONSTANTS
  Stay = TRUE
  Wait = TRUE
  CharDelay = FALSE
  EolLen = 1
  QCap = 3
  Inputs <- ShellInputs
  Transient = TRUE
  MaxOps = 4
  MaxPlug = 4
INVARIANTS StaySurvivesErrors
